----------------------------- MODULE VrtReader -----------------------------
(***************************************************************************)
(* The data socket of the C API: wsa_read_vrt_packet and what it calls      *)
(* (wsa_read_vrt_packet_raw, wsa_sock_recv_data, and after a failure        *)
(* SYSTEM:ABORT and wsa_flush_data), against an instrument that captures,   *)
(* buffers and sends packets on its own.                                    *)
(*                                                                          *)
(* The socket is a byte stream.  A packet is read in two parts, the first   *)
(* two words of its header and then the rest, whose length the first word   *)
(* announces; each part may arrive in any number of pieces.  A read that    *)
(* fails forgets the pieces it has taken, and takes nothing further of the  *)
(* packet it refuses: the next read then starts in the middle of a packet   *)
(* and takes whatever it finds for a header.                                *)
(*                                                                          *)
(* The stream is counted in pieces of fixed size: a header is HeaderSize of *)
(* them, whatever a split of the stream may cut apart.  sent is a history   *)
(* of the packets and where they begin: the program has none.               *)
(***************************************************************************)
EXTENDS Integers, Sequences

CONSTANTS
    SizeOf,      \* the kinds of packets and their sizes, in pieces
    LookAlikes,  \* sizes announced by contents that pass for a header
    MaxPackets,  \* packets sent in a session (a bound of the model)
    MaxBuffer,   \* packets the instrument holds (a bound of the model)
    MaxFaults    \* commands lost (a bound of the model)

Kinds == DOMAIN SizeOf
HeaderSize == 2

ASSUME ReaderAssumption ==
    /\ Kinds \subseteq {"digitizer", "context", "data", "untimed", "foreign"}
    /\ SizeOf \in [Kinds -> Nat]
    /\ \A k \in Kinds : SizeOf[k] > HeaderSize
    /\ LookAlikes \subseteq Nat /\ \A s \in LookAlikes : s > HeaderSize
    /\ MaxPackets \in Nat /\ MaxBuffer \in Nat /\ MaxFaults \in Nat

VARIABLES
    link,     \* "up", or "down" once the data connection is lost
    mode,     \* what the instrument captures: "none", "block", "stream", "sweep"
    buffer,   \* packets captured and not yet sent
    sent,     \* the packets sent: their kinds and where they begin
    written,  \* the length of the stream so far
    pc,       \* "idle", "head", "body", "abort", "status", "flush"
    api,      \* the call in progress: "read", "abort", "flush"
    from,     \* where the packet being read, or to be read, begins
    taken,    \* how much of the stream has been taken from the socket
    need,     \* how much wsa_sock_recv_data still waits for
    retry,    \* attempts that failed since something arrived
    result,   \* the last call, if it has ended, and what it returned
    inStep,   \* the next read starts where a packet starts (a history)
    last,     \* the last packet delivered or given up (a history)
    offsets,  \* times the offset was applied to the last reference level
    faults    \* commands lost

device == <<link, mode, buffer, sent, written>>
reading == <<from, taken, need, retry, inStep, last, offsets>>
vars == <<device, pc, api, reading, result, faults>>

Modes == {"none", "block", "stream", "sweep"}
NoResult == [api |-> "none", status |-> "ok"]

TryLimit == 3

Init ==
    /\ link = "up" /\ mode = "none" /\ buffer = 0 /\ sent = <<>> /\ written = 0
    /\ pc = "idle" /\ api = "read"
    /\ from = 0 /\ taken = 0 /\ need = 0 /\ retry = 0
    /\ result = NoResult /\ inStep = TRUE /\ last = 0 /\ offsets = 0
    /\ faults = 0

-----------------------------------------------------------------------------
(***************************************************************************)
(* The instrument.  A block capture ends by itself.                         *)
(***************************************************************************)
Acquire ==
    /\ mode # "none" /\ buffer < MaxBuffer
    /\ buffer' = buffer + 1
    /\ mode' \in IF mode = "block" THEN {"block", "none"} ELSE {mode}
    /\ UNCHANGED <<link, sent, written, pc, api, reading, result, faults>>

Transmit(kind) ==
    /\ link = "up" /\ buffer > 0 /\ Len(sent) < MaxPackets
    /\ buffer' = buffer - 1
    /\ sent' = Append(sent, [kind |-> kind, at |-> written])
    /\ written' = written + SizeOf[kind]
    /\ UNCHANGED <<link, mode, pc, api, reading, result, faults>>

LinkDown ==
    /\ link = "up" /\ link' = "down"
    /\ UNCHANGED <<mode, buffer, sent, written, pc, api, reading, result, faults>>

-----------------------------------------------------------------------------
(***************************************************************************)
(* The calls of the application.                                            *)
(***************************************************************************)
Call(name, at) ==
    /\ pc = "idle" /\ pc' = at /\ api' = name
    /\ result' = NoResult
    /\ UNCHANGED <<device, faults>>

wsa_read_vrt_packet ==
    /\ Call("read", "head")
    /\ from' = taken /\ need' = HeaderSize /\ retry' = 0
    /\ UNCHANGED <<taken, inStep, last, offsets>>

wsa_abort_capture == Call("abort", "abort") /\ UNCHANGED reading
wsa_flush_data == Call("flush", "status") /\ UNCHANGED reading

\* The command reaches the instrument, or is lost.
Executed(done, stays) ==
    \/ done /\ UNCHANGED faults
    \/ stays /\ faults < MaxFaults /\ faults' = faults + 1

\* wsa_capture_block, wsa_stream_start, wsa_sweep_start: an instrument that
\* is capturing refuses to start.
Start(m) ==
    /\ pc = "idle"
    /\ Executed(mode' = (IF mode = "none" THEN m ELSE mode), mode' = mode)
    /\ result' = NoResult
    /\ UNCHANGED <<link, buffer, sent, written, pc, api, reading>>

-----------------------------------------------------------------------------
(***************************************************************************)
(* How a read ends.  What was taken of a packet that was not delivered is   *)
(* gone, which leaves the reader out of step, unless nothing was taken or   *)
(* nothing is left.                                                         *)
(***************************************************************************)
Settle(keeps, next) ==
    /\ inStep' = ((inStep /\ keeps) \/ taken' = written)
    /\ last' = IF inStep /\ keeps THEN next
               ELSE IF taken' = written THEN Len(sent) ELSE last

Aborts(status) == status \in {"notiq", "noresp"}

Fail(status) ==
    /\ Settle(taken' = from, last)
    /\ result' = [api |-> "read", status |-> status]
    /\ pc' = IF Aborts(status) THEN "abort" ELSE "idle"
    /\ from' = taken' /\ need' = 0 /\ retry' = 0
    /\ UNCHANGED offsets

(***************************************************************************)
(* The header's two words are in: its timestamp type and stream identifier  *)
(* are checked, and the rest of the packet is waited for.  What is read in  *)
(* the middle of a packet may pass for anything.                            *)
(***************************************************************************)
Here == {k \in DOMAIN sent : sent[k].at = from}

MutWholePacket(size) == size
RestOf(size) == size - HeaderSize

ReadRest(size) ==
    /\ pc' = "body" /\ need' = RestOf(size) /\ retry' = 0
    /\ UNCHANGED <<from, inStep, last, offsets, result>>

HeaderRead ==
    \/ \E k \in Here :
          \/ sent[k].kind = "untimed" /\ Fail("notime")
          \/ sent[k].kind = "foreign" /\ Fail("notiq")
          \/ /\ sent[k].kind \in {"digitizer", "context", "data"}
             /\ ReadRest(SizeOf[sent[k].kind])
    \/ /\ Here = {}
       /\ \/ Fail("notime") \/ Fail("notiq")
          \/ \E s \in LookAlikes : ReadRest(s)

(***************************************************************************)
(* The packet is in: it is decoded, and with a packet of samples of an      *)
(* R5500 the offset is applied to the reference level at hand, which came   *)
(* with the last digitizer packet.  (Above two they are not told apart.)    *)
(***************************************************************************)
\* What is delivered when it is no packet of the instrument's.
NoPacket == -1
Delivered == {k \in Here : taken' = sent[k].at + SizeOf[sent[k].kind]}

OffsetsAfter(kind) ==
    IF kind = "digitizer" THEN 0
    ELSE IF kind = "data" /\ offsets < 2 THEN offsets + 1 ELSE offsets

PacketRead ==
    /\ \E k \in IF Delivered = {} THEN {NoPacket} ELSE Delivered :
          /\ Settle(TRUE, k)
          /\ result' = [api |-> "read", status |-> "ok"]
          /\ offsets' = IF k = NoPacket THEN offsets ELSE OffsetsAfter(sent[k].kind)
    /\ pc' = "idle" /\ from' = taken' /\ need' = 0 /\ retry' = 0

(***************************************************************************)
(* wsa_sock_recv_data: one recv call takes up to what is still needed of    *)
(* what has arrived; the third attempt in a row without data is the last.   *)
(***************************************************************************)
wsa_sock_recv(n) ==
    /\ pc \in {"head", "body"} /\ n <= need /\ n <= written - taken
    /\ taken' = taken + n
    /\ IF need - n > 0
         THEN /\ need' = need - n /\ retry' = 0
              /\ UNCHANGED <<pc, from, inStep, last, offsets, result>>
         ELSE IF pc = "head" THEN HeaderRead ELSE PacketRead
    /\ UNCHANGED <<device, api, faults>>

MutNeverGivesUp == FALSE
GivesUp == retry = TryLimit - 1

RecvFails(status) ==
    /\ pc \in {"head", "body"}
    /\ status = "sockerr" => link = "down"
    /\ taken' = taken
    /\ IF GivesUp
         THEN Fail(status)
         ELSE /\ retry' = IF retry < TryLimit - 1 THEN retry + 1 ELSE retry
              /\ UNCHANGED <<pc, from, need, inStep, last, offsets, result>>
    /\ UNCHANGED <<device, api, faults>>

-----------------------------------------------------------------------------
(***************************************************************************)
(* SYSTEM:ABORT, and wsa_flush_data, which asks whether the instrument is   *)
(* sweeping and refuses to flush if so.  After a failed read both are made  *)
(* and neither result is looked at.                                         *)
(***************************************************************************)
Reported(status) ==
    result' = IF api = "read" THEN result
              ELSE [api |-> api, status |-> status]

MutNoFlush == "idle"
AfterAbort == IF api = "read" THEN "status" ELSE "idle"

Abort ==
    /\ pc = "abort"
    /\ \/ mode' = "none" /\ UNCHANGED faults /\ Reported("ok")
       \/ /\ faults < MaxFaults /\ faults' = faults + 1
          /\ UNCHANGED mode /\ Reported("failed")
    /\ pc' = AfterAbort
    /\ UNCHANGED <<link, buffer, sent, written, api, reading>>

SweepStatus ==
    /\ pc = "status"
    /\ \/ /\ mode = "sweep" /\ pc' = "idle" /\ Reported("sweeping")
          /\ UNCHANGED faults
       \/ /\ mode # "sweep" /\ pc' = "flush"
          /\ UNCHANGED <<result, faults>>
       \/ /\ faults < MaxFaults /\ faults' = faults + 1
          /\ pc' = "idle" /\ Reported("failed")
    /\ UNCHANGED <<device, api, reading>>

Flush ==
    /\ pc = "flush" /\ pc' = "idle"
    /\ \/ buffer' = 0 /\ UNCHANGED faults /\ Reported("ok")
       \/ /\ faults < MaxFaults /\ faults' = faults + 1
          /\ UNCHANGED buffer /\ Reported("failed")
    /\ UNCHANGED <<link, mode, sent, written, api, reading>>

-----------------------------------------------------------------------------
Application ==
    \/ wsa_read_vrt_packet \/ wsa_abort_capture \/ wsa_flush_data
    \/ \E m \in {"block", "stream", "sweep"} : Start(m)

Recv == \E n \in 1 .. written - taken : wsa_sock_recv(n)

Library ==
    \/ Recv \/ \E s \in {"noresp", "sockerr"} : RecvFails(s)
    \/ Abort \/ SweepStatus \/ Flush

Instrument == Acquire \/ (\E k \in Kinds : Transmit(k)) \/ LinkDown

Next == Application \/ Library \/ Instrument

Spec == Init /\ [][Next]_vars

\* A call in progress goes on: every wait has a timeout.
FairSpec == Spec /\ WF_vars(Library)

-----------------------------------------------------------------------------
(***************************************************************************)
(* Properties                                                               *)
(***************************************************************************)
TypeOK ==
    /\ link \in {"up", "down"} /\ mode \in Modes /\ buffer \in 0 .. MaxBuffer
    /\ sent \in Seq([kind : Kinds, at : Nat])
    /\ written \in Nat /\ from \in Nat /\ taken \in 0 .. written
    /\ pc \in {"idle", "head", "body", "abort", "status", "flush"}
    /\ api \in {"read", "abort", "flush"}
    /\ need \in Nat /\ retry \in 0 .. TryLimit - 1
    /\ result \in [api : {"none", "read", "abort", "flush"},
                   status : {"ok", "notime", "notiq", "noresp", "sockerr",
                             "sweeping", "failed"}]
    /\ inStep \in BOOLEAN /\ last \in 0 .. Len(sent)
    /\ offsets \in 0 .. 2 /\ faults \in 0 .. MaxFaults

\* Where packet k + 1 begins, or will begin.
EndOf(k) == IF k < Len(sent) THEN sent[k + 1].at ELSE written

\* The packets follow one another without gaps, from the beginning on.
After(k) == sent[k].at + SizeOf[sent[k].kind]
Contiguous ==
    /\ EndOf(0) = 0
    /\ \A k \in DOMAIN sent : EndOf(k) = After(k) /\ After(k) <= written
    /\ \A j, k \in DOMAIN sent : j < k => After(j) <= sent[k].at

\* Where a reader that is in step is in the stream: between two calls at the
\* end of the last packet, and within a call as far into the next packet as
\* what it still waits for says.
Position ==
    inStep =>
        /\ pc \notin {"head", "body"} => taken = EndOf(last)
        /\ pc = "head" =>
              from = EndOf(last) /\ taken + need = from + HeaderSize
        /\ pc = "body" =>
              /\ last < Len(sent) /\ from = EndOf(last)
              /\ taken + need = EndOf(last + 1)

\* The invariant the refinement rests on (proved in VrtReaderProofs).
ReaderInv ==
    /\ TypeOK
    /\ pc \in {"head", "body"} <=> need > 0
    /\ Contiguous /\ Position

\* As long as the reader is in step, what wsa_read_vrt_packet delivers are
\* the instrument's packets in order, whole, none left out and none repeated,
\* however they arrive; and step is only regained with all that was sent
\* given up.
Queue == INSTANCE PacketQueue
            WITH put <- Len(sent), got <- last, lost <- ~inStep
PacketsInOrder == Queue!QueueSpec

\* A read that times out or finds no packet leaves the instrument at rest:
\* it is not refused to flush, since the sweep is aborted first, and nothing
\* is captured between the abort and the flush.
AbortedIsQuiet ==
    pc = "idle" /\ faults = 0 /\ result.api = "read" /\ Aborts(result.status)
        => mode = "none" /\ buffer = 0

\* Every call returns, whatever arrives or does not.
CallsReturn == pc # "idle" ~> pc = "idle"

\* An instrument at rest, an application that goes on reading and data that
\* arrive in the end bring the reader back in step, by reading the socket
\* empty.
AtRest == mode = "none" /\ buffer = 0
Recovers ==
    SF_vars(wsa_read_vrt_packet) /\ SF_vars(Recv) =>
        (AtRest ~> inStep \/ ~AtRest)

\* What "apply reflevel offset" says: a packet of samples is delivered with
\* the reference level of the last digitizer packet, offset once.
OffsetOnce ==
    inStep /\ result = [api |-> "read", status |-> "ok"]
    /\ last # 0 /\ sent[last].kind = "data" => offsets <= 1

=============================================================================
