--------------------------- MODULE VrtReaderProofs ---------------------------
(***************************************************************************)
(* Proofs about VrtReader, for every set of packet kinds and sizes, every   *)
(* set of contents that pass for headers, and all bounds: the invariant,    *)
(* the refinement of PacketQueue, and the instrument left at rest.          *)
(***************************************************************************)
EXTENDS VrtReader, SequenceTheorems, TLAPS

Reading == pc \in {"head", "body"}

LEMMA Sizes == \A k \in Kinds : SizeOf[k] \in Nat /\ SizeOf[k] > HeaderSize
  BY ReaderAssumption DEF Kinds

LEMMA Element ==
  ASSUME NEW S, NEW s \in Seq(S), NEW k \in DOMAIN s
  PROVE  k \in 1 .. Len(s) /\ s[k] \in S
  BY LenProperties, ElementOfSeq

LEMMA SentFacts ==
  ASSUME TypeOK, NEW k \in DOMAIN sent
  PROVE  /\ k \in 1 .. Len(sent) /\ sent[k].at \in Nat /\ sent[k].kind \in Kinds
         /\ After(k) \in Nat /\ After(k) > sent[k].at + HeaderSize
<1>0. sent \in Seq([kind : Kinds, at : Nat])
  BY DEF TypeOK
<1>1. k \in 1 .. Len(sent) /\ sent[k] \in [kind : Kinds, at : Nat]
  BY <1>0, Element
<1>2. sent[k].at \in Nat /\ sent[k].kind \in Kinds
  BY <1>1
<1> QED  BY <1>1, <1>2, Sizes DEF After, HeaderSize

LEMMA EndType ==
  ASSUME TypeOK, NEW k \in 0 .. Len(sent)  PROVE  EndOf(k) \in Nat
<1>0. Len(sent) \in Nat /\ DOMAIN sent = 1 .. Len(sent) /\ written \in Nat
  BY DEF TypeOK
<1>1. CASE k < Len(sent)
  <2>1. k + 1 \in DOMAIN sent  BY <1>0, <1>1
  <2> QED  BY <2>1, <1>1, SentFacts DEF EndOf
<1> QED  BY <1>0, <1>1 DEF EndOf

-----------------------------------------------------------------------------
(***************************************************************************)
(* A reader that is in step finds the next packet, and only that one.       *)
(***************************************************************************)
LEMMA OnlyNext ==
  ASSUME ReaderInv, inStep, Reading, from < written
  PROVE  last < Len(sent) /\ from = sent[last + 1].at /\ Here = {last + 1}
<1>0. /\ TypeOK /\ Contiguous /\ from = EndOf(last)
      /\ Len(sent) \in Nat /\ DOMAIN sent = 1 .. Len(sent)
      /\ last \in 0 .. Len(sent) /\ from \in Nat /\ written \in Nat
  BY DEF ReaderInv, Position, Reading, TypeOK
<1>1. last < Len(sent) /\ from = sent[last + 1].at
  BY <1>0 DEF EndOf
<1>2. last + 1 \in DOMAIN sent
  BY <1>0, <1>1
<1>3. ASSUME NEW k \in DOMAIN sent, k # last + 1  PROVE sent[k].at # from
  <2>0. After(k) \in Nat /\ sent[k].at \in Nat /\ sent[k].at < After(k)
    BY <1>0, SentFacts DEF HeaderSize
  <2>1. After(last + 1) \in Nat /\ from < After(last + 1)
    BY <1>0, <1>1, <1>2, SentFacts DEF HeaderSize
  <2>2. CASE k < last + 1
    <3>1. After(k) <= sent[last + 1].at  BY <1>0, <1>2, <2>2 DEF Contiguous
    <3> QED  BY <3>1, <2>0, <1>0, <1>1
  <2>3. CASE last + 1 < k
    <3>1. After(last + 1) <= sent[k].at  BY <1>0, <1>2, <2>3 DEF Contiguous
    <3> QED  BY <3>1, <2>0, <2>1, <1>0
  <2> QED  BY <2>2, <2>3, <1>3, <1>0
<1> QED  BY <1>1, <1>2, <1>3 DEF Here

-----------------------------------------------------------------------------
(***************************************************************************)
(* Settle: the reader is in step with nothing between it and the next       *)
(* packet, or out of step.                                                  *)
(***************************************************************************)
LEMMA SettleType ==
  ASSUME TypeOK, NEW keeps \in BOOLEAN, NEW next \in 0 .. Len(sent),
         Settle(keeps, next)
  PROVE  inStep' \in BOOLEAN /\ last' \in 0 .. Len(sent)
  BY DEF Settle, TypeOK

\* When what is kept is at the end of a packet, so is the next read.
LEMMA SettlePosition ==
  ASSUME TypeOK, NEW keeps \in BOOLEAN, NEW next \in 0 .. Len(sent),
         Settle(keeps, next), inStep /\ keeps => taken' = EndOf(next), inStep'
  PROVE  taken' = EndOf(last')
<1>1. CASE inStep /\ keeps
  BY <1>1 DEF Settle
<1>2. CASE ~(inStep /\ keeps)
  <2>1. taken' = written /\ last' = Len(sent)  BY <1>2 DEF Settle
  <2> QED  BY <2>1 DEF EndOf, TypeOK
<1> QED  BY <1>1, <1>2

\* And it is a step of the queue, or none.
LEMMA SettleStep ==
  ASSUME TypeOK, UNCHANGED sent, NEW keeps \in BOOLEAN, Settle(keeps, last)
  PROVE  Queue!LoseStep \/ Queue!GiveUp \/ UNCHANGED Queue!queueVars
  BY DEF Settle, TypeOK, Queue!LoseStep, Queue!GiveUp, Queue!queueVars

-----------------------------------------------------------------------------
(***************************************************************************)
(* The invariant.                                                           *)
(***************************************************************************)
Waiting == Reading <=> need > 0

LEMMA SameStream ==
  ASSUME Contiguous, UNCHANGED <<sent, written>>
  PROVE  Contiguous' /\ \A k : EndOf(k)' = EndOf(k)
  BY DEF Contiguous, EndOf, After

\* Steps between the reads of packets.
LEMMA QuietStep ==
  ASSUME ReaderInv, TypeOK', UNCHANGED <<sent, written, reading>>,
         pc' = pc \/ (~Reading /\ ~Reading')
  PROVE  ReaderInv'
<1>1. Contiguous'  BY SameStream DEF ReaderInv
<1>2. Position'
  BY SameStream DEF ReaderInv, Position, Reading, reading
<1>3. Waiting'
  BY DEF ReaderInv, Waiting, Reading, reading
<1> QED  BY <1>1, <1>2, <1>3 DEF ReaderInv, Waiting, Reading

LEMMA InitKept == Init => ReaderInv
<1> SUFFICES ASSUME Init  PROVE ReaderInv
  OBVIOUS
<1>1. sent = <<>> /\ Len(sent) = 0 /\ DOMAIN sent = {}
  BY DEF Init
<1>2. TypeOK
  <2>1. sent \in Seq([kind : Kinds, at : Nat])  BY <1>1
  <2> QED
    BY <1>1, <2>1, ReaderAssumption DEF Init, TypeOK, Modes, NoResult, TryLimit
<1>3. Contiguous  BY <1>1 DEF Init, Contiguous, EndOf
<1>4. Position  BY <1>1 DEF Init, Position, EndOf
<1>5. Waiting  BY DEF Init, Waiting, Reading
<1> QED  BY <1>2, <1>3, <1>4, <1>5 DEF ReaderInv, Waiting, Reading

LEMMA ApplicationKept == ReaderInv /\ Application => ReaderInv'
<1> SUFFICES ASSUME ReaderInv, Application  PROVE ReaderInv'
  OBVIOUS
<1> USE DEF TryLimit, Modes, NoResult
<1>1. CASE wsa_read_vrt_packet
  <2>1. TypeOK'
    BY <1>1 DEF wsa_read_vrt_packet, Call, ReaderInv, TypeOK, device, HeaderSize
  <2>2. UNCHANGED <<sent, written>> /\ pc = "idle" /\ pc' = "head"
    BY <1>1 DEF wsa_read_vrt_packet, Call, device
  <2>3. Contiguous'  BY <2>2, SameStream DEF ReaderInv
  <2>4. Position'
    BY <1>1, <2>2, SameStream DEF wsa_read_vrt_packet, ReaderInv, Position
  <2>5. Waiting'
    BY <1>1, <2>2 DEF wsa_read_vrt_packet, Waiting, Reading, HeaderSize
  <2> QED  BY <2>1, <2>3, <2>4, <2>5 DEF ReaderInv, Waiting, Reading
<1>2. CASE wsa_abort_capture \/ wsa_flush_data
  <2>1. TypeOK'
    BY <1>2 DEF wsa_abort_capture, wsa_flush_data, Call, ReaderInv, TypeOK,
                device, reading
  <2> QED
    BY <2>1, <1>2, QuietStep
    DEF wsa_abort_capture, wsa_flush_data, Call, device, Reading
<1>3. ASSUME NEW m \in {"block", "stream", "sweep"}, Start(m)  PROVE ReaderInv'
  <2>1. TypeOK'
    BY <1>3, ReaderAssumption DEF Start, Executed, ReaderInv, TypeOK, reading
  <2> QED
    BY <2>1, <1>3, QuietStep DEF Start
<1> QED  BY <1>1, <1>2, <1>3 DEF Application

LEMMA CommandsKept ==
  ReaderInv /\ (Abort \/ SweepStatus \/ Flush) => ReaderInv'
<1> SUFFICES ASSUME ReaderInv, Abort \/ SweepStatus \/ Flush  PROVE ReaderInv'
  OBVIOUS
<1> USE DEF TryLimit, Modes
<1>1. TypeOK'
  <2>0. TypeOK /\ UNCHANGED <<link, sent, written, api, reading>>
    BY DEF Abort, SweepStatus, Flush, ReaderInv, device
  <2>1. /\ mode' \in Modes /\ buffer' \in 0 .. MaxBuffer
        /\ faults' \in 0 .. MaxFaults
        /\ pc' \in {"idle", "head", "body", "abort", "status", "flush"}
    BY <2>0, ReaderAssumption
    DEF Abort, SweepStatus, Flush, AfterAbort, TypeOK, device
  <2>2. result' \in [api : {"none", "read", "abort", "flush"},
                     status : {"ok", "notime", "notiq", "noresp", "sockerr",
                               "sweeping", "failed"}]
    BY <2>0 DEF Abort, SweepStatus, Flush, Reported, TypeOK
  <2> QED  BY <2>0, <2>1, <2>2 DEF TypeOK, reading
<1>2. ~Reading /\ ~Reading' /\ UNCHANGED <<sent, written, reading>>
  BY DEF Abort, SweepStatus, Flush, AfterAbort, Reading, device
<1> QED  BY <1>1, <1>2, QuietStep

\* A packet more at the end of the stream.
LEMMA TransmitKept ==
  ASSUME ReaderInv, NEW kind \in Kinds, Transmit(kind)
  PROVE  ReaderInv'
<1> DEFINE n == Len(sent)
           p == [kind |-> kind, at |-> written]
<1>0. /\ TypeOK /\ n \in Nat /\ DOMAIN sent = 1 .. n /\ written \in Nat
      /\ sent' = Append(sent, p) /\ written' = written + SizeOf[kind]
      /\ SizeOf[kind] \in Nat /\ SizeOf[kind] > 0
  BY Sizes DEF ReaderInv, TypeOK, Transmit, HeaderSize
<1>1. /\ Len(sent') = n + 1 /\ DOMAIN sent' = 1 .. n + 1
      /\ sent'[n + 1] = p /\ \A k \in 1 .. n : sent'[k] = sent[k]
  BY <1>0 DEF TypeOK
<1>2. TypeOK'
  <2>1. sent' \in Seq([kind : Kinds, at : Nat])
    BY <1>0 DEF TypeOK
  <2>2. buffer' \in 0 .. MaxBuffer
    BY <1>0, ReaderAssumption DEF Transmit, TypeOK
  <2> QED
    BY <1>0, <1>1, <2>1, <2>2 DEF Transmit, TypeOK, reading, Modes
<1>3. \A k \in 0 .. n : EndOf(k)' = EndOf(k)
  BY <1>0, <1>1 DEF EndOf
<1>4. \A k \in 1 .. n : After(k)' = After(k)
  BY <1>0, <1>1 DEF After
<1>5. ASSUME NEW k, k = n + 1
      PROVE  EndOf(k)' = written' /\ After(k)' = written'
  <2>0. p.at = written /\ p.kind = kind
    OBVIOUS
  <2>1. sent'[n + 1].at = written /\ sent'[n + 1].kind = kind
    BY <1>1, <2>0
  <2> QED  BY <1>0, <1>1, <1>5, <2>1 DEF EndOf, After
<1>6. Contiguous'
  <2>1. EndOf(0)' = 0  BY <1>0, <1>3 DEF ReaderInv, Contiguous
  <2>2. ASSUME NEW k \in 1 .. n + 1
        PROVE  EndOf(k)' = After(k)' /\ After(k)' <= written'
    <3>1. CASE k = n + 1  BY <3>1, <1>5, <1>0
    <3>2. CASE k \in 1 .. n
      <4>1. EndOf(k) = After(k) /\ After(k) <= written /\ After(k) \in Nat
        BY <3>2, <1>0, SentFacts DEF ReaderInv, Contiguous
      <4>2. EndOf(k)' = EndOf(k) /\ After(k)' = After(k)
        BY <3>2, <1>3, <1>4, <1>0
      <4> QED  BY <4>1, <4>2, <1>0
    <3> QED  BY <3>1, <3>2, <1>0
  <2>3. ASSUME NEW j \in 1 .. n + 1, NEW k \in 1 .. n + 1, j < k
        PROVE  After(j)' <= sent'[k].at
    <3>1. j \in 1 .. n /\ After(j)' = After(j)  BY <2>3, <1>0, <1>4
    <3>2. CASE k = n + 1
      BY <3>1, <3>2, <1>0, <1>1 DEF ReaderInv, Contiguous
    <3>3. CASE k \in 1 .. n
      BY <3>1, <3>3, <2>3, <1>0, <1>1 DEF ReaderInv, Contiguous
    <3> QED  BY <3>2, <3>3, <1>0
  <2> QED  BY <2>1, <2>2, <2>3, <1>1 DEF Contiguous
<1>7. Position'
  <2>1. last \in 0 .. n /\ UNCHANGED <<pc, inStep, last, from, taken, need>>
    BY <1>0 DEF TypeOK, Transmit, reading
  <2>2. EndOf(last)' = EndOf(last)
    BY <2>1, <1>0, <1>1 DEF EndOf
  <2>3. last < n => EndOf(last + 1)' = EndOf(last + 1)
    BY <2>1, <1>0, <1>1 DEF EndOf
  <2> QED
    BY <2>1, <2>2, <2>3, <1>0, <1>1 DEF ReaderInv, Position
<1>8. Waiting'
  BY DEF Transmit, reading, ReaderInv, Waiting, Reading
<1> QED  BY <1>2, <1>6, <1>7, <1>8 DEF ReaderInv, Waiting, Reading

(***************************************************************************)
(* The reads.  Statuses is what Fail is called with.                        *)
(***************************************************************************)
Statuses == {"notime", "notiq", "noresp", "sockerr"}

LEMMA FailKept ==
  ASSUME ReaderInv, Reading, UNCHANGED <<device, api, faults>>,
         taken' \in 0 .. written, NEW status \in Statuses, Fail(status)
  PROVE  ReaderInv'
<1> USE DEF TryLimit, Modes, Statuses
<1>0. TypeOK /\ UNCHANGED <<link, mode, buffer, sent, written, api, faults>>
  BY DEF ReaderInv, device
<1>1. inStep => from = EndOf(last)
  BY DEF ReaderInv, Position, Reading
<1>2. Settle(taken' = from, last) /\ last \in 0 .. Len(sent)
  BY <1>0 DEF Fail, TypeOK
<1>3. inStep' \in BOOLEAN /\ last' \in 0 .. Len(sent)
  BY <1>0, <1>2, SettleType
<1>4. inStep' => taken' = EndOf(last')
  BY <1>0, <1>1, <1>2, SettlePosition
<1>5. /\ pc' \in {"abort", "idle"} /\ need' = 0 /\ retry' = 0
      /\ from' = taken' /\ UNCHANGED offsets
      /\ result' = [api |-> "read", status |-> status]
  BY DEF Fail, Aborts
<1>6. TypeOK'
  BY <1>0, <1>3, <1>5 DEF TypeOK
<1>7. Contiguous' /\ \A k : EndOf(k)' = EndOf(k)
  BY <1>0, SameStream DEF ReaderInv
<1>8. Position'
  BY <1>0, <1>4, <1>5 DEF Position, EndOf
<1> QED  BY <1>5, <1>6, <1>7, <1>8 DEF ReaderInv

\* What a completed read says of a reader in step.
LEMMA HeaderIn ==
  ASSUME ReaderInv, pc = "head", inStep, taken + need <= written
  PROVE  /\ last < Len(sent) /\ Here = {last + 1}
         /\ taken + need = from + HeaderSize
<1>1. from < written /\ taken + need = from + HeaderSize
  BY DEF ReaderInv, Position, TypeOK, HeaderSize
<1> QED  BY <1>1, OnlyNext DEF Reading

LEMMA BodyIn ==
  ASSUME ReaderInv, pc = "body", inStep
  PROVE  /\ last < Len(sent) /\ Here = {last + 1}
         /\ taken + need = EndOf(last + 1) /\ taken + need = After(last + 1)
<1>0. /\ TypeOK /\ Contiguous /\ last < Len(sent) /\ from = EndOf(last)
      /\ taken + need = EndOf(last + 1)
      /\ last \in Nat /\ Len(sent) \in Nat /\ DOMAIN sent = 1 .. Len(sent)
  BY DEF ReaderInv, Position, TypeOK
<1>1. last + 1 \in DOMAIN sent /\ from = sent[last + 1].at
  BY <1>0 DEF EndOf
<1>2. /\ EndOf(last + 1) = After(last + 1) /\ After(last + 1) <= written
      /\ After(last + 1) \in Nat /\ from < After(last + 1)
  BY <1>0, <1>1, SentFacts DEF Contiguous, HeaderSize
<1>3. from < written
  BY <1>0, <1>1, <1>2 DEF TypeOK
<1> QED  BY <1>0, <1>2, <1>3, OnlyNext DEF Reading

LEMMA ReadRestKept ==
  ASSUME ReaderInv, UNCHANGED <<device, api, faults>>, taken' \in 0 .. written,
         NEW size \in Nat, size > HeaderSize, ReadRest(size),
         inStep => /\ last < Len(sent) /\ from = EndOf(last)
                   /\ taken' + size = EndOf(last + 1) + HeaderSize
  PROVE  ReaderInv'
<1> USE DEF TryLimit, Modes, HeaderSize
<1>0. TypeOK /\ UNCHANGED <<link, mode, buffer, sent, written, api, faults>>
  BY DEF ReaderInv, device
<1>1. /\ pc' = "body" /\ need' = size - 2 /\ retry' = 0
      /\ UNCHANGED <<from, inStep, last, offsets, result>>
  BY DEF ReadRest, RestOf
<1>2. TypeOK'  BY <1>0, <1>1 DEF TypeOK
<1>3. Contiguous'  BY <1>0, SameStream DEF ReaderInv
<1>4. inStep => EndOf(last + 1) \in Nat
  BY <1>0, EndType DEF TypeOK
<1>5. Position'
  <2>1. EndOf(last)' = EndOf(last) /\ EndOf(last + 1)' = EndOf(last + 1)
    BY <1>0, <1>1 DEF EndOf
  <2>2. inStep => taken' + need' = EndOf(last + 1)
    <3>1. taken' \in Nat  BY <1>0 DEF TypeOK
    <3> QED  BY <3>1, <1>1, <1>4
  <2> QED  BY <2>1, <2>2, <1>0, <1>1 DEF Position
<1>6. Waiting'  BY <1>1 DEF Waiting, Reading
<1> QED  BY <1>2, <1>3, <1>5, <1>6 DEF ReaderInv, Waiting, Reading

LEMMA HeaderReadKept ==
  ASSUME ReaderInv, UNCHANGED <<device, api, faults>>, pc = "head",
         taken' = taken + need, taken + need <= written, HeaderRead
  PROVE  ReaderInv'
<1>0. TypeOK /\ taken' \in 0 .. written /\ Reading
  BY DEF ReaderInv, TypeOK, Reading
<1>1. inStep => /\ last < Len(sent) /\ Here = {last + 1} /\ from = EndOf(last)
                /\ taken' = from + HeaderSize
  BY HeaderIn DEF ReaderInv, Position
<1>2. ASSUME NEW s \in Statuses, Fail(s)  PROVE ReaderInv'
  BY <1>0, <1>2, FailKept
<1>3. ASSUME NEW k \in Here, ReadRest(SizeOf[sent[k].kind])  PROVE ReaderInv'
  <2>1. k \in DOMAIN sent /\ sent[k].at = from  BY DEF Here
  <2>2. /\ SizeOf[sent[k].kind] \in Nat /\ SizeOf[sent[k].kind] > HeaderSize
        /\ sent[k].at \in Nat
    BY <1>0, <2>1, SentFacts, Sizes
  <2>3. inStep => taken' + SizeOf[sent[k].kind] = EndOf(last + 1) + HeaderSize
    <3>1. SUFFICES ASSUME inStep
                   PROVE  taken' + SizeOf[sent[k].kind]
                             = EndOf(last + 1) + HeaderSize
      OBVIOUS
    <3>2. k = last + 1  BY <3>1, <1>1
    <3>3. EndOf(k) = After(k)  BY <2>1 DEF ReaderInv, Contiguous
    <3> QED  BY <3>1, <3>2, <3>3, <1>1, <2>1, <2>2 DEF After, HeaderSize
  <2> QED  BY <1>0, <1>1, <1>3, <2>2, <2>3, ReadRestKept
<1>4. ASSUME Here = {}, NEW s \in LookAlikes, ReadRest(s)  PROVE ReaderInv'
  <2>1. ~inStep  BY <1>1, <1>4
  <2>2. s \in Nat /\ s > HeaderSize  BY ReaderAssumption
  <2> QED  BY <1>0, <1>4, <2>1, <2>2, ReadRestKept
<1> QED  BY <1>2, <1>3, <1>4 DEF HeaderRead, Statuses

LEMMA PacketReadKept ==
  ASSUME ReaderInv, UNCHANGED <<device, api, faults>>, pc = "body",
         taken' = taken + need, taken + need <= written, PacketRead
  PROVE  ReaderInv'
<1> USE DEF TryLimit, Modes
<1>0. TypeOK /\ UNCHANGED <<link, mode, buffer, sent, written, api, faults>>
  BY DEF ReaderInv, device
<1>1. PICK k \in IF Delivered = {} THEN {NoPacket} ELSE Delivered :
         /\ Settle(TRUE, k)
         /\ offsets' = IF k = NoPacket THEN offsets ELSE OffsetsAfter(sent[k].kind)
  BY DEF PacketRead
<1>2. inStep => last + 1 <= Len(sent) /\ k = last + 1 /\ taken' = EndOf(k)
  <2>1. SUFFICES ASSUME inStep
                 PROVE  last + 1 <= Len(sent) /\ k = last + 1 /\ taken' = EndOf(k)
    OBVIOUS
  <2>2. /\ last < Len(sent) /\ Here = {last + 1}
        /\ taken' = EndOf(last + 1) /\ taken' = After(last + 1)
    BY <2>1, BodyIn
  <2>3. Delivered = {last + 1}  BY <2>2 DEF Delivered, After
  <2> QED  BY <2>2, <2>3, <1>0, <1>1 DEF TypeOK
<1>3. inStep' \in BOOLEAN /\ last' \in 0 .. Len(sent)
  BY <1>0, <1>1, <1>2 DEF Settle, TypeOK
<1>4. inStep' => taken' = EndOf(last')
  <2>1. CASE inStep  BY <2>1, <1>1, <1>2 DEF Settle
  <2>2. CASE ~inStep  BY <2>2, <1>0, <1>1 DEF Settle, EndOf, TypeOK
  <2> QED  BY <2>1, <2>2
<1>5. /\ pc' = "idle" /\ need' = 0 /\ retry' = 0 /\ from' = taken'
      /\ result' = [api |-> "read", status |-> "ok"]
      /\ offsets' \in 0 .. 2 /\ taken' \in 0 .. written
  BY <1>0, <1>1 DEF PacketRead, OffsetsAfter, TypeOK
<1>6. TypeOK'
  BY <1>0, <1>3, <1>5 DEF TypeOK
<1>7. Contiguous'  BY <1>0, SameStream DEF ReaderInv
<1>8. Position'
  BY <1>0, <1>4, <1>5 DEF Position, EndOf
<1> QED  BY <1>5, <1>6, <1>7, <1>8 DEF ReaderInv

LEMMA RecvKept ==
  ASSUME ReaderInv, NEW n \in Nat \ {0}, wsa_sock_recv(n)  PROVE ReaderInv'
<1> USE DEF TryLimit, Modes
<1>0. /\ TypeOK /\ pc \in {"head", "body"} /\ n <= need /\ n <= written - taken
      /\ taken' = taken + n /\ UNCHANGED <<device, api, faults>>
  BY DEF wsa_sock_recv, ReaderInv
<1>1. CASE need - n > 0
  <2>1. /\ need' = need - n /\ retry' = 0
        /\ UNCHANGED <<pc, from, inStep, last, offsets, result>>
        /\ UNCHANGED <<link, mode, buffer, sent, written, api, faults>>
    BY <1>0, <1>1 DEF wsa_sock_recv, device
  <2>2. TypeOK'  BY <1>0, <1>1, <2>1 DEF TypeOK
  <2>3. Contiguous'  BY <2>1, SameStream DEF ReaderInv
  <2>4. taken' + need' = taken + need
    BY <1>0, <2>1 DEF TypeOK
  <2>5. EndOf(last)' = EndOf(last) /\ EndOf(last + 1)' = EndOf(last + 1)
    BY <2>1 DEF EndOf
  <2>6. Position'
    BY <1>0, <2>1, <2>4, <2>5 DEF ReaderInv, Position
  <2>7. Waiting'  BY <1>0, <1>1, <2>1 DEF Waiting, Reading, TypeOK
  <2> QED  BY <2>2, <2>3, <2>6, <2>7 DEF ReaderInv, Waiting, Reading
<1>2. CASE ~(need - n > 0)
  <2>1. n = need /\ taken' = taken + need /\ taken + need <= written
    BY <1>0, <1>2 DEF TypeOK
  <2>2. CASE pc = "head"
    BY <2>1, <2>2, <1>0, <1>2, HeaderReadKept DEF wsa_sock_recv
  <2>3. CASE pc = "body"
    BY <2>1, <2>3, <1>0, <1>2, PacketReadKept DEF wsa_sock_recv
  <2> QED  BY <2>2, <2>3, <1>0
<1> QED  BY <1>1, <1>2

LEMMA RecvFailsKept ==
  ASSUME ReaderInv, NEW status \in {"noresp", "sockerr"}, RecvFails(status)
  PROVE  ReaderInv'
<1> USE DEF TryLimit, Modes
<1>0. /\ TypeOK /\ Reading /\ taken' = taken /\ UNCHANGED <<device, api, faults>>
  BY DEF RecvFails, ReaderInv, Reading
<1>1. CASE GivesUp
  BY <1>0, <1>1, FailKept DEF RecvFails, Statuses, TypeOK
<1>2. CASE ~GivesUp
  <2>1. /\ UNCHANGED <<link, mode, buffer, sent, written, pc, api, from, taken,
                       need, inStep, last, offsets, result, faults>>
        /\ retry' \in 0 .. 2
    BY <1>0, <1>2 DEF RecvFails, GivesUp, TypeOK, device
  <2>2. TypeOK'  BY <1>0, <2>1 DEF TypeOK
  <2>3. Contiguous'  BY <2>1, SameStream DEF ReaderInv
  <2>4. Position' /\ Waiting'
    BY <2>1 DEF ReaderInv, Position, EndOf, Waiting, Reading
  <2> QED  BY <2>2, <2>3, <2>4 DEF ReaderInv, Waiting, Reading
<1> QED  BY <1>1, <1>2

LEMMA StepKept == ReaderInv /\ [Next]_vars => ReaderInv'
<1> SUFFICES ASSUME ReaderInv, [Next]_vars  PROVE ReaderInv'
  OBVIOUS
<1> USE DEF TryLimit, Modes
<1>1. CASE Application  BY <1>1, ApplicationKept
<1>2. CASE Recv
  <2>1. PICK n \in 1 .. written - taken : wsa_sock_recv(n)  BY <1>2 DEF Recv
  <2>2. n \in Nat \ {0}  BY DEF ReaderInv, TypeOK
  <2> QED  BY <2>1, <2>2, RecvKept
<1>3. CASE \E s \in {"noresp", "sockerr"} : RecvFails(s)
  BY <1>3, RecvFailsKept
<1>4. CASE Abort \/ SweepStatus \/ Flush  BY <1>4, CommandsKept
<1>5. CASE Acquire \/ LinkDown
  <2>1. TypeOK'
    <3>1. TypeOK  BY DEF ReaderInv
    <3>2. buffer' \in 0 .. MaxBuffer /\ mode' \in Modes /\ link' \in {"up", "down"}
      BY <1>5, <3>1, ReaderAssumption DEF Acquire, LinkDown, TypeOK
    <3>3. UNCHANGED <<sent, written, pc, api, reading, result, faults>>
      BY <1>5 DEF Acquire, LinkDown
    <3> QED  BY <3>1, <3>2, <3>3 DEF TypeOK, reading
  <2> QED  BY <2>1, <1>5, QuietStep DEF Acquire, LinkDown
<1>6. CASE \E k \in Kinds : Transmit(k)  BY <1>6, TransmitKept
<1>7. CASE UNCHANGED vars
  <2>1. TypeOK'
    BY <1>7 DEF vars, device, reading, ReaderInv, TypeOK
  <2> QED  BY <2>1, <1>7, QuietStep DEF vars, device
<1> QED
  BY <1>1, <1>2, <1>3, <1>4, <1>5, <1>6, <1>7 DEF Next, Library, Instrument

(***************************************************************************)
(* The reader's invariant: in step, it stands where a packet ends.          *)
(***************************************************************************)
THEOREM ReaderKept == Spec => []ReaderInv
  BY InitKept, StepKept, PTL DEF Spec

-----------------------------------------------------------------------------
(***************************************************************************)
(* The refinement: every step puts a packet, takes the next one, loses      *)
(* step, gives up what was sent, or is none of the queue's business.        *)
(***************************************************************************)
QueueNext == Queue!Put \/ Queue!Take \/ Queue!LoseStep \/ Queue!GiveUp

LEMMA FailGivesUp ==
  ASSUME ReaderInv, UNCHANGED sent, NEW status, Fail(status)
  PROVE  [QueueNext]_Queue!queueVars
<1>1. Settle(taken' = from, last)  BY DEF Fail
<1> QED  BY <1>1, SettleStep DEF QueueNext, ReaderInv

LEMMA PacketReadTakes ==
  ASSUME ReaderInv, UNCHANGED sent, pc = "body", taken' = taken + need,
         PacketRead
  PROVE  [QueueNext]_Queue!queueVars
<1>1. PICK k \in IF Delivered = {} THEN {NoPacket} ELSE Delivered :
         Settle(TRUE, k)
  BY DEF PacketRead
<1>2. CASE inStep
  <2>1. /\ last < Len(sent) /\ Here = {last + 1} /\ taken' = After(last + 1)
    BY <1>2, BodyIn
  <2>2. k = last + 1
    BY <2>1, <1>1 DEF Delivered, After
  <2>3. last' = last + 1 /\ inStep' = TRUE
    BY <1>1, <1>2, <2>2 DEF Settle, ReaderInv, TypeOK
  <2> QED
    BY <1>2, <2>1, <2>3 DEF QueueNext, Queue!Take
<1>3. CASE ~inStep
  <2>1. Settle(FALSE, last)
    BY <1>1, <1>3 DEF Settle
  <2> QED  BY <2>1, SettleStep DEF QueueNext, ReaderInv
<1> QED  BY <1>2, <1>3

LEMMA NotTheQueues ==
  ASSUME UNCHANGED <<sent, last, inStep>>
  PROVE  [QueueNext]_Queue!queueVars
  BY DEF Queue!queueVars

LEMMA QueueStep ==
  ReaderInv /\ [Next]_vars => [QueueNext]_Queue!queueVars
<1> SUFFICES ASSUME ReaderInv, [Next]_vars  PROVE [QueueNext]_Queue!queueVars
  OBVIOUS
<1>1. CASE Application
  BY <1>1, NotTheQueues
  DEF Application, wsa_read_vrt_packet, wsa_abort_capture, wsa_flush_data,
      Start, Call, device, reading
<1>2. CASE Recv
  <2>1. PICK n \in 1 .. written - taken : wsa_sock_recv(n)  BY <1>2 DEF Recv
  <2>2. /\ n \in Nat /\ taken' = taken + n /\ UNCHANGED sent
        /\ n <= need /\ need \in Nat /\ pc \in {"head", "body"}
    BY <2>1 DEF ReaderInv, TypeOK, wsa_sock_recv, device
  <2>3. CASE need - n > 0
    BY <2>1, <2>2, <2>3, NotTheQueues DEF wsa_sock_recv
  <2>4. CASE ~(need - n > 0) /\ pc = "head"
    <3>1. HeaderRead  BY <2>1, <2>4 DEF wsa_sock_recv
    <3>2. CASE \E s \in Statuses : Fail(s)
      BY <3>2, <2>2, FailGivesUp
    <3>3. CASE \E size : ReadRest(size)
      BY <3>3, <2>2, NotTheQueues DEF ReadRest
    <3> QED  BY <3>1, <3>2, <3>3 DEF HeaderRead, Statuses
  <2>5. CASE ~(need - n > 0) /\ pc = "body"
    <3>1. PacketRead /\ taken' = taken + need
      BY <2>1, <2>2, <2>5 DEF wsa_sock_recv
    <3> QED  BY <3>1, <2>2, <2>5, PacketReadTakes
  <2> QED  BY <2>2, <2>3, <2>4, <2>5
<1>3. ASSUME NEW s, RecvFails(s)  PROVE [QueueNext]_Queue!queueVars
  <2>1. UNCHANGED sent  BY <1>3 DEF RecvFails, device
  <2>2. CASE GivesUp  BY <1>3, <2>1, <2>2, FailGivesUp DEF RecvFails
  <2>3. CASE ~GivesUp  BY <1>3, <2>1, <2>3, NotTheQueues DEF RecvFails
  <2> QED  BY <2>2, <2>3
<1>4. CASE Abort \/ SweepStatus \/ Flush \/ Acquire \/ LinkDown
  BY <1>4, NotTheQueues
  DEF Abort, SweepStatus, Flush, Acquire, LinkDown, device, reading
<1>5. ASSUME NEW k \in Kinds, Transmit(k)  PROVE [QueueNext]_Queue!queueVars
  <2>1. /\ Len(sent') = Len(sent) + 1 /\ Len(sent) < MaxPackets
        /\ UNCHANGED <<last, inStep>>
    BY <1>5 DEF Transmit, reading, ReaderInv, TypeOK
  <2> QED  BY <2>1 DEF QueueNext, Queue!Put
<1>6. CASE UNCHANGED vars
  BY <1>6, NotTheQueues DEF vars, device, reading
<1> QED
  BY <1>1, <1>2, <1>3, <1>4, <1>5, <1>6 DEF Next, Library, Instrument

(***************************************************************************)
(* The reader implements PacketQueue: packets are delivered in order.       *)
(***************************************************************************)
THEOREM DeliversInOrder == Spec => PacketsInOrder
<1>1. Init => Queue!QueueInit
  BY DEF Init, Queue!QueueInit
<1>2. ReaderInv /\ [Next]_vars
         => [Queue!Put \/ Queue!Take \/ Queue!LoseStep
                \/ Queue!GiveUp]_Queue!queueVars
  BY QueueStep DEF QueueNext
<1> QED
  BY <1>1, <1>2, ReaderKept, PTL DEF Spec, PacketsInOrder, Queue!QueueSpec

-----------------------------------------------------------------------------
(***************************************************************************)
(* The instrument at rest after a failed read: the sweep is aborted before  *)
(* the flush, and nothing starts in between.                                *)
(***************************************************************************)
RestInv ==
    /\ faults \in Nat
    /\ faults = 0 /\ api = "read" /\ pc \in {"status", "flush"} => mode = "none"
    /\ pc = "flush" => mode # "sweep"
    /\ AbortedIsQuiet

LEMMA RestStep == RestInv /\ [Next]_vars => RestInv'
<1> SUFFICES ASSUME RestInv, [Next]_vars  PROVE RestInv'
  OBVIOUS
<1> USE DEF RestInv, AbortedIsQuiet
<1>1. CASE Application
  BY <1>1
  DEF Application, wsa_read_vrt_packet, wsa_abort_capture, wsa_flush_data,
      Start, Call, Executed, NoResult, Aborts, device, reading
<1>2. ASSUME NEW s, Fail(s), UNCHANGED <<device, api, faults>>  PROVE RestInv'
  BY <1>2 DEF Fail, Aborts, device
<1>3. CASE Recv
  <2>1. PICK n : wsa_sock_recv(n)  BY <1>3 DEF Recv
  <2>2. UNCHANGED <<device, api, faults>> /\ pc \in {"head", "body"}
    BY <2>1 DEF wsa_sock_recv
  <2>3. CASE UNCHANGED pc  BY <2>2, <2>3 DEF device
  <2>4. CASE HeaderRead
    BY <2>4, <2>2, <1>2 DEF HeaderRead, ReadRest, device
  <2>5. CASE PacketRead
    BY <2>5, <2>2 DEF PacketRead, Aborts, device
  <2> QED  BY <2>1, <2>3, <2>4, <2>5 DEF wsa_sock_recv
<1>4. ASSUME NEW s, RecvFails(s)  PROVE RestInv'
  BY <1>4, <1>2 DEF RecvFails, device
<1>5. CASE Abort
  BY <1>5 DEF Abort, AfterAbort, Reported, Aborts
<1>6. CASE SweepStatus
  BY <1>6 DEF SweepStatus, Reported, Aborts, device
<1>7. CASE Flush
  BY <1>7 DEF Flush, Reported, Aborts
<1>8. CASE Acquire \/ LinkDown
  BY <1>8 DEF Acquire, LinkDown
<1>9. ASSUME NEW k \in Kinds, Transmit(k)  PROVE RestInv'
  BY <1>9 DEF Transmit
<1>10. CASE UNCHANGED vars
  BY <1>10 DEF vars, device
<1> QED
  BY <1>1, <1>3, <1>4, <1>5, <1>6, <1>7, <1>8, <1>9, <1>10
  DEF Next, Library, Instrument

(***************************************************************************)
(* No read that failed leaves the instrument capturing, if no command was   *)
(* lost.                                                                    *)
(***************************************************************************)
THEOREM FailedReadsRest == Spec => []AbortedIsQuiet
<1>1. Init => RestInv
  BY DEF Init, RestInv, AbortedIsQuiet, NoResult, Aborts
<1>2. RestInv => AbortedIsQuiet
  BY DEF RestInv
<1> QED  BY <1>1, <1>2, RestStep, PTL DEF Spec
=============================================================================
