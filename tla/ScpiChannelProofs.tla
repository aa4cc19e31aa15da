------------------------- MODULE ScpiChannelProofs -------------------------
(***************************************************************************)
(* Proofs about the command channel: type correctness, the order of the     *)
(* answers and the meaning of a verified set command, for every bound and   *)
(* every set of command files.                                              *)
(***************************************************************************)
EXTENDS ScpiChannel, SequenceTheorems, TLAPS

LEMMA NonEmpty ==
    ASSUME NEW S, NEW s \in Seq(S), s # <<>>
    PROVE  /\ Len(s) \in Nat /\ Len(s) >= 1
           /\ s[1] \in S /\ Head(s) = s[1] /\ Tail(s) \in Seq(S)
           /\ Len(Tail(s)) = Len(s) - 1
           /\ \A i \in 1 .. Len(s) - 1 : Tail(s)[i] = s[i + 1]
<1>1. Len(s) \in Nat /\ Len(s) # 0
  BY EmptySeq
<1>2. 1 \in 1 .. Len(s)
  BY <1>1
<1>3. s[1] \in S
  BY <1>2, ElementOfSeq
<1> QED BY <1>1, <1>3

LEMMA NotEmpty ==
    ASSUME NEW s, Len(s) # 0 PROVE s # <<>>
<1> SUFFICES ASSUME s = <<>> PROVE FALSE
  OBVIOUS
<1>1. Len(<<>>) = 0
  OBVIOUS
<1> QED BY <1>1

LEMMA TailIsLonger ==
    ASSUME NEW S, NEW s \in Seq(S), Len(s) > 1
    PROVE  Tail(s) # <<>> /\ Tail(s)[1] = s[2]
<1>1. Len(s) \in Nat /\ s # <<>>
  OBVIOUS
<1>2. Len(Tail(s)) = Len(s) - 1
  BY <1>1, NonEmpty
<1>3. Tail(s)[1] = s[2]
  OBVIOUS
<1>4. Tail(s) \in Seq(S) /\ Len(Tail(s)) # 0
  BY <1>1, <1>2, NonEmpty
<1>5. \A t \in Seq(S) : Len(t) # 0 => t # <<>>
  OBVIOUS
<1>6. Tail(s) # <<>>
  BY <1>4, <1>5
<1> QED BY <1>3, <1>6

(***************************************************************************)
(* Type correctness.  The procedures' endings only touch pc, stage, script  *)
(* and report, which is what the lemmas below say once.                     *)
(***************************************************************************)
Control ==
    /\ pc \in {"idle", "send", "recv", "crashed"}
    /\ stage \in Stages
    /\ script \in Seq(LineKinds)
    /\ esr \in BOOLEAN
    /\ verdict \in [cmd : Nat, status : Statuses]
    /\ report \in [api : {"none", "scpi", "query", "file", "open"},
                   status : Statuses]

LEMMA ReturnType ==
    ASSUME TypeOK, NEW s \in Statuses, Return(s)
    PROVE  /\ pc' \in {"idle", "send", "recv", "crashed"}
           /\ stage' \in Stages
           /\ script' \in Seq(LineKinds)
           /\ report' \in [api : {"none", "scpi", "query", "file", "open"},
                           status : Statuses]
  BY DEF TypeOK, Return

LEMMA GoOnType ==
    ASSUME TypeOK, NEW s \in Stages, GoOn(s)
    PROVE  /\ pc' \in {"idle", "send", "recv", "crashed"}
           /\ stage' \in Stages
           /\ script' \in Seq(LineKinds)
           /\ report' \in [api : {"none", "scpi", "query", "file", "open"},
                           status : Statuses]
  BY DEF TypeOK, GoOn

LEMMA LineStageType ==
    ASSUME NEW f, NEW k PROVE LineStage(f, k) \in Stages
  BY DEF LineStage, Stages

LEMMA LineDoneType ==
    ASSUME TypeOK, NEW s \in Statuses, LineDone(s)
    PROVE  /\ pc' \in {"idle", "send", "recv", "crashed"}
           /\ stage' \in Stages
           /\ script' \in Seq(LineKinds)
           /\ report' \in [api : {"none", "scpi", "query", "file", "open"},
                           status : Statuses]
<1>1. CASE api = "file" /\ s \notin Failures /\ Len(script) > 1
  <2>1. /\ pc' = "send" /\ script' = Tail(script)
        /\ stage' = LineStage(TRUE, script[2]) /\ UNCHANGED report
    BY <1>1 DEF LineDone
  <2>2. script \in Seq(LineKinds) /\ script # <<>>
    BY <1>1 DEF TypeOK
  <2>3. Tail(script) \in Seq(LineKinds)
    BY <2>2
  <2> QED BY <2>1, <2>3, LineStageType DEF TypeOK
<1>2. CASE ~(api = "file" /\ s \notin Failures /\ Len(script) > 1)
  <2>1. \E t \in Statuses : Return(t)
    BY <1>2 DEF LineDone, Statuses
  <2> QED BY <2>1, ReturnType
<1> QED BY <1>1, <1>2

LEMMA AnsweredType ==
    ASSUME TypeOK, NEW buf \in Seq(Answers), Answered(buf)
    PROVE  Control'
<1>1. CASE stage = "query" /\ LineDone("ok") /\ UNCHANGED <<esr, verdict>>
  BY <1>1, LineDoneType DEF Control, TypeOK, Statuses
<1>2. CASE stage = "verify" /\ Verified(Verdict(buf))
  <2>1. Verdict(buf) \in Statuses
    BY DEF Verdict, Statuses
  <2> QED BY <1>2, <2>1, LineDoneType DEF Verified, Control, TypeOK
<1>3. CASE stage = "stb" /\ StbRead(buf)
  <2>1. CASE ~IsInteger(buf)
    BY <1>3, <2>1, ReturnType DEF StbRead, Control, TypeOK, Statuses
  <2>2. CASE IsInteger(buf)
    <3>1. esr' = EsrBit(buf[1].text) /\ UNCHANGED verdict
      BY <1>3, <2>2 DEF StbRead
    <3>2. \E st \in Stages : GoOn(st)
      BY <1>3, <2>2 DEF StbRead, Stages
    <3> QED BY <3>1, <3>2, GoOnType DEF Control, TypeOK, EsrBit
  <2> QED BY <2>1, <2>2
<1>4. CASE stage = "drain" /\ ErrorRead(Has(buf, "No error"))
  BY <1>4, GoOnType DEF ErrorRead, Control, TypeOK, Stages
<1>5. CASE stage = "esr" /\ EsrRead(buf)
  BY <1>5, GoOnType, ReturnType DEF EsrRead, Control, TypeOK, Stages, Statuses
<1>6. CASE stage = "idn" /\ IdnRead(buf)
  BY <1>6, ReturnType DEF IdnRead, Control, TypeOK, Statuses
<1> QED BY <1>1, <1>2, <1>3, <1>4, <1>5, <1>6 DEF Answered

LEMMA UnansweredType ==
    ASSUME TypeOK, NEW s \in {"noresponse", "sockerr"}, Unanswered(s)
    PROVE  Control'
<1>0. s \in Statuses /\ VerdictOfFailure(s) \in Statuses
  BY DEF Statuses, VerdictOfFailure
<1>1. CASE stage = "query" /\ LineDone(s) /\ UNCHANGED <<esr, verdict>>
  BY <1>0, <1>1, LineDoneType DEF Control, TypeOK
<1>2. CASE stage = "verify" /\ Verified(VerdictOfFailure(s))
  BY <1>0, <1>2, LineDoneType DEF Verified, Control, TypeOK
<1>3. CASE /\ stage \in {"stb", "esr"} /\ Return(s)
           /\ UNCHANGED <<esr, verdict>>
  BY <1>0, <1>3, ReturnType DEF Control, TypeOK
<1>4. CASE stage = "drain" /\ ErrorRead(FALSE)
  BY <1>4, GoOnType DEF ErrorRead, Control, TypeOK, Stages
<1>5. CASE stage = "idn" /\ IdnRead(<<>>)
  BY <1>5, ReturnType DEF IdnRead, Control, TypeOK, Statuses
<1> QED BY <1>1, <1>2, <1>3, <1>4, <1>5 DEF Unanswered

LEMMA SendType ==
    ASSUME TypeOK, NEW k \in Kinds, wsa_sock_send(k)
    PROVE  toDev' \in Seq(Requests) /\ nextId' \in Nat
<1> DEFINE r == [id |-> nextId, kind |-> k]
<1>1. r \in Requests /\ nextId \in Nat /\ toDev \in Seq(Requests)
  BY DEF TypeOK, Requests
<1>2. Append(toDev, r) \in Seq(Requests)
  BY <1>1
<1>3. /\ toDev' = IF link = "up" THEN Append(toDev, r) ELSE toDev
      /\ nextId' = IF link = "up" THEN nextId + 1 ELSE nextId
  BY DEF wsa_sock_send
<1> QED BY <1>1, <1>2, <1>3

LEMMA QueryKindType ==
    ASSUME TypeOK, stage # "cmd", stage = "query" => script # <<>>
    PROVE  QueryKind \in Kinds
<1>1. CASE stage = "query"
  <2>1. Head(script) \in LineKinds
    BY <1>1 DEF TypeOK
  <2> QED BY <1>1, <2>1 DEF QueryKind, Kinds, LineKinds, QueryKinds
<1>2. CASE stage # "query"
  BY <1>2 DEF QueryKind, Kinds, QueryKinds, TypeOK, Stages
<1> QED BY <1>1, <1>2

\* A procedure works on a script line only when there is one, sends a query
\* line as a query and a set command as a command.
ScriptOK ==
    pc \in {"send", "recv"} /\ stage \in {"cmd", "query"} =>
        /\ script # <<>>
        /\ script[1] # (IF stage = "cmd" THEN "QRY" ELSE "SET")

TypeInv == TypeOK /\ ScriptOK

LEMMA LineDoneScript ==
    ASSUME TypeOK, NEW s, LineDone(s)
    PROVE  ScriptOK'
<1>1. CASE api = "file" /\ s \notin Failures /\ Len(script) > 1
  <2>1. script' = Tail(script)
    BY <1>1 DEF LineDone
  <2>2. script \in Seq(LineKinds) /\ script # <<>>
    BY <1>1 DEF TypeOK
  <2>3. Len(Tail(script)) = Len(script) - 1
    BY <2>2
  <2>4. script' # <<>> /\ script'[1] = script[2]
    <3>1. Tail(script) # <<>> /\ Tail(script)[1] = script[2]
      BY <1>1, <2>2, TailIsLonger
    <3> QED BY <2>1, <3>1
  <2>5. stage' = LineStage(TRUE, script[2])
    BY <1>1 DEF LineDone
  <2> QED BY <2>4, <2>5 DEF ScriptOK, LineStage
<1>2. CASE ~(api = "file" /\ s \notin Failures /\ Len(script) > 1)
  <2>1. pc' = "idle"
    BY <1>2 DEF LineDone, Return
  <2> QED BY <2>1 DEF ScriptOK
<1> QED BY <1>1, <1>2

LEMMA AnsweredScript ==
    ASSUME TypeOK, NEW buf, Answered(buf)
    PROVE  ScriptOK'
<1>1. CASE LineDone("ok") \/ LineDone(Verdict(buf))
  BY <1>1, LineDoneScript
<1>2. CASE StbRead(buf)
  BY <1>2 DEF StbRead, Return, GoOn, ScriptOK
<1>3. CASE ErrorRead(Has(buf, "No error"))
  BY <1>3 DEF ErrorRead, GoOn, ScriptOK
<1>4. CASE EsrRead(buf) \/ IdnRead(buf)
  BY <1>4 DEF EsrRead, IdnRead, GoOn, Return, ScriptOK
<1> QED BY <1>1, <1>2, <1>3, <1>4 DEF Answered, Verified

LEMMA UnansweredScript ==
    ASSUME TypeOK, NEW s, Unanswered(s)
    PROVE  ScriptOK'
<1>1. CASE LineDone(s) \/ LineDone(VerdictOfFailure(s))
  BY <1>1, LineDoneScript
<1>2. CASE Return(s)
  BY <1>2 DEF Return, ScriptOK
<1>3. CASE ErrorRead(FALSE)
  BY <1>3 DEF ErrorRead, GoOn, ScriptOK
<1>4. CASE IdnRead(<<>>)
  BY <1>4 DEF IdnRead, Return, ScriptOK
<1> QED BY <1>1, <1>2, <1>3, <1>4 DEF Unanswered, Verified
LEMMA InitType == Init => TypeInv
<1> SUFFICES ASSUME Init PROVE TypeInv
  OBVIOUS
<1>1. errq \in Seq([id : Nat, text : ErrorTexts]) /\ orphans \in Nat
  <2>1. PICK n \in 0 .. MaxErrors :
           /\ errq = [i \in 1 .. n |-> [id |-> 0, text |-> "-222"]]
           /\ orphans = n
    BY DEF Init
  <2>2. [id |-> 0, text |-> "-222"] \in [id : Nat, text : ErrorTexts]
    BY DEF ErrorTexts
  <2>3. n \in Nat
    BY ChannelAssumption
  <2> QED BY <2>1, <2>2, <2>3
<1>2. /\ <<>> \in Seq(Requests) /\ <<>> \in Seq(Answers)
      /\ <<>> \in Seq(LineKinds) /\ <<>> \in Seq(Nat)
  OBVIOUS
<1>3. /\ [to |-> 0, from |-> <<>>] \in [to : Nat, from : Seq(Nat)]
      /\ [cmd |-> 0, status |-> "none"] \in [cmd : Nat, status : Statuses]
      /\ [api |-> "none", status |-> "none"] \in
            [api : {"none", "scpi", "query", "file", "open"}, status : Statuses]
  BY <1>2 DEF Statuses
<1>4. pc = "idle" /\ stage \in Stages /\ tries \in 0 .. RecvLimit
  BY DEF Init, Stages, RecvLimit
<1> QED BY <1>1, <1>2, <1>3, <1>4 DEF Init, TypeInv, TypeOK, ScriptOK

LEMMA CallType ==
    ASSUME TypeInv, NEW a \in {"scpi", "query", "file", "open"},
           NEW s \in Seq(LineKinds), NEW st \in Stages,
           st \in {"cmd", "query"} =>
               s # <<>> /\ s[1] # (IF st = "cmd" THEN "QRY" ELSE "SET"),
           Call(a, s, st)
    PROVE  TypeInv'
  BY DEF Call, TypeInv, TypeOK, ScriptOK, world

LEMMA ApplicationType == ASSUME TypeInv, Application PROVE TypeInv'
<1>1. ASSUME NEW k \in {"SET", "DATA"}, wsa_send_scpi(k) PROVE TypeInv'
  <2>1. <<k>> \in Seq(LineKinds) /\ <<k>> # <<>> /\ <<k>>[1] # "QRY"
    BY DEF LineKinds
  <2>2. LineStage(FALSE, k) = "cmd"
    BY DEF LineStage
  <2> QED BY <1>1, <2>1, <2>2, CallType DEF wsa_send_scpi, Stages
<1>2. CASE wsa_query_scpi
  <2>1. /\ <<"QRY">> \in Seq(LineKinds) /\ <<"QRY">> # <<>>
        /\ <<"QRY">>[1] # "SET"
    BY DEF LineKinds
  <2> QED BY <1>2, <2>1, CallType DEF wsa_query_scpi, Stages
<1>3. CASE wsa_do_scpi_command_file
  <2>1. PICK s \in Scripts : s # <<>> /\ Call("file", s, LineStage(TRUE, Head(s)))
    BY <1>3 DEF wsa_do_scpi_command_file
  <2>2. s \in Seq(LineKinds) /\ Head(s) = s[1]
    BY <2>1, ChannelAssumption, NonEmpty
  <2>3. s[1] # (IF LineStage(TRUE, Head(s)) = "cmd" THEN "QRY" ELSE "SET")
    BY <2>2 DEF LineStage
  <2> QED BY <2>1, <2>2, <2>3, CallType, LineStageType
<1>4. CASE wsa_open
  <2>1. <<>> \in Seq(LineKinds) /\ "stb" \in Stages
    BY DEF Stages
  <2> QED BY <1>4, <2>1, CallType DEF wsa_open
<1> QED BY <1>1, <1>2, <1>3, <1>4 DEF Application

LEMMA LibraryType == ASSUME TypeInv, Library PROVE TypeInv'
<1> USE DEF TypeInv
<1>1. CASE wsa_send_command
  <2>1. stage = "cmd" /\ pc = "send" /\ script # <<>>
    BY <1>1 DEF wsa_send_command, ScriptOK
  <2>2. Head(script) \in Kinds /\ wsa_sock_send(Head(script))
    BY <1>1, <2>1 DEF wsa_send_command, TypeOK, LineKinds, Kinds, QueryKinds
  <2>3. toDev' \in Seq(Requests) /\ nextId' \in Nat
    BY <2>2, SendType
  <2>4. /\ cmd' = nextId
        /\ UNCHANGED <<link, toCli, errq, applied, lates, orphans,
                       api, esr, tries, cur, calls, answer, verdict>>
    BY <1>1 DEF wsa_send_command
  <2>5. CASE NeedsVerify(Head(script))
    <3>1. GoOn("verify")
      BY <1>1, <2>5 DEF wsa_send_command
    <3> QED BY <2>3, <2>4, <3>1 DEF GoOn, TypeOK, ScriptOK, Stages
  <2>6. CASE ~NeedsVerify(Head(script))
    <3>1. LineDone("bytes")
      BY <1>1, <2>6 DEF wsa_send_command
    <3>2. "bytes" \in Statuses
      BY DEF Statuses
    <3> QED BY <2>3, <2>4, <3>1, <3>2, LineDoneType, LineDoneScript DEF TypeOK
  <2> QED BY <2>5, <2>6
<1>2. CASE wsa_send_query
  <2>1. QueryKind \in Kinds
    BY <1>2, QueryKindType DEF wsa_send_query, ScriptOK
  <2>2. toDev' \in Seq(Requests) /\ nextId' \in Nat
    BY <1>2, <2>1, SendType DEF wsa_send_query
  <2> QED BY <1>2, <2>2 DEF wsa_send_query, TypeOK, ScriptOK, RecvLimit
<1>3. CASE SendRefused
  <2>1. CASE stage = "cmd"
    <3>1. LineDone("sockerr") /\ UNCHANGED <<esr, verdict>> /\ "sockerr" \in Statuses
      BY <1>3, <2>1 DEF SendRefused, Statuses
    <3> QED BY <1>3, <3>1, LineDoneType, LineDoneScript
            DEF SendRefused, TypeOK, world
  <2>2. CASE stage # "cmd"
    <3>1. Unanswered("sockerr")
      BY <1>3, <2>2 DEF SendRefused
    <3>2. Control' /\ ScriptOK'
      BY <3>1, UnansweredType, UnansweredScript
    <3> QED BY <1>3, <3>2 DEF SendRefused, TypeOK, Control, world
  <2> QED BY <2>1, <2>2
<1>4. ASSUME NEW n \in 1 .. Len(toCli), wsa_sock_recv(n) PROVE TypeInv'
  <2> DEFINE buf == SubSeq(toCli, 1, n)
  <2>1. toCli \in Seq(Answers) /\ n \in 1 .. Len(toCli)
    BY <1>4 DEF TypeOK
  <2>2. buf \in Seq(Answers) /\ SubSeq(toCli, n + 1, Len(toCli)) \in Seq(Answers)
    BY <2>1
  <2>3. [i \in 1 .. n |-> toCli[i].id] \in Seq(Nat)
    <3>1. \A i \in 1 .. n : toCli[i] \in Answers
      BY <2>1
    <3>2. \A i \in 1 .. n : toCli[i].id \in Nat
      BY <3>1 DEF Answers
    <3> QED BY <2>1, <3>2
  <2>4. Control' /\ ScriptOK'
    BY <1>4, <2>2, AnsweredType, AnsweredScript DEF wsa_sock_recv
  <2> QED BY <1>4, <2>2, <2>3, <2>4 DEF wsa_sock_recv, TypeOK, Control
<1>5. CASE RecvFails
  <2>1. CASE tries + 1 < RecvLimit
    BY <1>5, <2>1 DEF RecvFails, TypeOK, ScriptOK, RecvLimit
  <2>2. CASE ~(tries + 1 < RecvLimit)
    <3>1. Control' /\ ScriptOK'
      BY <1>5, <2>2, UnansweredType, UnansweredScript DEF RecvFails
    <3> QED BY <1>5, <2>2, <3>1 DEF RecvFails, TypeOK, Control, RecvLimit
  <2> QED BY <2>1, <2>2
<1> QED BY <1>1, <1>2, <1>3, <1>4, <1>5 DEF Library

LEMMA RefuseType ==
    ASSUME TypeOK, NEW r \in Requests, NEW t \in ErrorTexts, Refuse(r, t)
    PROVE  /\ errq' \in Seq([id : Nat, text : ErrorTexts])
           /\ orphans' \in Nat /\ UNCHANGED <<toCli, applied>>
<1> DEFINE e == [id |-> r.id, text |-> t]
<1>1. e \in [id : Nat, text : ErrorTexts]
  BY DEF Requests
<1> QED BY <1>1 DEF Refuse, TypeOK

LEMMA ReplyType ==
    ASSUME TypeOK, NEW r \in Requests, NEW t \in Texts, Reply(r, t)
    PROVE  toCli' \in Seq(Answers) /\ UNCHANGED <<applied, orphans>>
<1> DEFINE a == [id |-> r.id, text |-> t]
<1>1. a \in Answers
  BY DEF Requests, Answers
<1> QED BY <1>1 DEF Reply, TypeOK

LEMMA DeviceType == ASSUME TypeInv, DeviceExecutes PROVE TypeInv'
<1> DEFINE r == Head(toDev)
<1>1. toDev # <<>> /\ toDev' = Tail(toDev) /\ UNCHANGED <<link, lates, client>>
  BY DEF DeviceExecutes
<1>2. r \in Requests /\ toDev' \in Seq(Requests) /\ r.id \in Nat
  <2>1. toDev \in Seq(Requests)
    BY DEF TypeInv, TypeOK
  <2>2. r \in Requests /\ toDev' \in Seq(Requests)
    BY <1>1, <2>1
  <2> QED BY <2>2 DEF Requests
<1> SUFFICES /\ toCli' \in Seq(Answers)
             /\ errq' \in Seq([id : Nat, text : ErrorTexts])
             /\ applied' \subseteq Nat /\ orphans' \in Nat
  BY <1>1, <1>2 DEF TypeInv, TypeOK, ScriptOK, client
<1> USE DEF TypeInv
<1>3. CASE applied' = applied \cup {r.id} /\ UNCHANGED <<toCli, errq, orphans>>
  BY <1>2, <1>3 DEF TypeOK
<1>4. ASSUME NEW t \in ErrorTexts, Refuse(r, t)
      PROVE  /\ toCli' \in Seq(Answers)
             /\ errq' \in Seq([id : Nat, text : ErrorTexts])
             /\ applied' \subseteq Nat /\ orphans' \in Nat
  BY <1>2, <1>4, RefuseType DEF TypeOK
<1>5. CASE UNCHANGED <<toCli, errq, applied, orphans>>
  BY <1>5 DEF TypeOK
<1>6. ASSUME NEW t \in Texts, Reply(r, t), UNCHANGED errq \/ errq' = Pop(errq)
      PROVE  /\ toCli' \in Seq(Answers)
             /\ errq' \in Seq([id : Nat, text : ErrorTexts])
             /\ applied' \subseteq Nat /\ orphans' \in Nat
  <2>1. Pop(errq) \in Seq([id : Nat, text : ErrorTexts])
    <3>1. errq \in Seq([id : Nat, text : ErrorTexts])
      BY DEF TypeOK
    <3>2. errq # <<>> => Tail(errq) \in Seq([id : Nat, text : ErrorTexts])
      BY <3>1
    <3> QED BY <3>1, <3>2 DEF Pop
  <2> QED BY <1>2, <1>6, <2>1, ReplyType DEF TypeOK
<1>7. (IF errq = <<>> THEN "No error" ELSE errq[1].text) \in Texts
  <2>1. errq \in Seq([id : Nat, text : ErrorTexts])
    BY DEF TypeOK
  <2>2. errq # <<>> => errq[1] \in [id : Nat, text : ErrorTexts]
    BY <2>1, NonEmpty
  <2> QED BY <2>2 DEF Texts
<1>8. /\ "0" \in Texts /\ "ThinkRF,WSA5000" \in Texts /\ Numbers \subseteq Texts
      /\ "-222" \in ErrorTexts
  BY DEF Texts, Numbers, ErrorTexts
<1>9. \/ applied' = applied \cup {r.id} /\ UNCHANGED <<toCli, errq, orphans>>
      \/ \E t \in ErrorTexts : Refuse(r, t)
      \/ UNCHANGED <<toCli, errq, applied, orphans>>
      \/ \E t \in Texts : Reply(r, t) /\ (UNCHANGED errq \/ errq' = Pop(errq))
  BY <1>7, <1>8 DEF DeviceExecutes
<1> QED BY <1>3, <1>4, <1>5, <1>6, <1>9

LEMMA LinkDownType == ASSUME TypeInv, LinkDown PROVE TypeInv'
<1>1. PICK n \in 0 .. Len(toCli) : toCli' = SubSeq(toCli, 1, n)
  BY DEF LinkDown
<1>2. toCli' \in Seq(Answers)
  BY <1>1 DEF TypeInv, TypeOK
<1> QED BY <1>2 DEF LinkDown, TypeInv, TypeOK, ScriptOK, client

LEMMA NextType == TypeInv /\ [Next]_vars => TypeInv'
<1> SUFFICES ASSUME TypeInv, [Next]_vars PROVE TypeInv'
  OBVIOUS
<1>1. CASE UNCHANGED vars
  BY <1>1 DEF vars, world, client, TypeInv, TypeOK, ScriptOK
<1> QED BY <1>1, ApplicationType, LibraryType, DeviceType, LinkDownType DEF Next

\* Every variable of the channel keeps its type, whatever the bounds and the
\* command files: the control of wsa_lib.c never works on a missing line.
THEOREM TypeCorrect == Spec => []TypeInv
  BY InitType, NextType, PTL DEF Spec
(***************************************************************************)
(* The order of the answers.  The steps of the library between two          *)
(* exchanges leave the two directions of the connection alone and do not    *)
(* verify anything: they all fit the following description.                 *)
(***************************************************************************)
Settled ==
    /\ pc' \in {"idle", "send", "crashed"}
    /\ pc' = "send" => stage' # "verify"
    /\ verdict' = verdict

LEMMA LineStageIs ==
    ASSUME NEW f, NEW k PROVE LineStage(f, k) \in {"query", "cmd"}
  BY DEF LineStage

LEMMA LineDoneSettles ==
    ASSUME NEW s, LineDone(s)
    PROVE  pc' \in {"idle", "send"} /\ (pc' = "send" => stage' # "verify")
<1>1. CASE api = "file" /\ s \notin Failures /\ Len(script) > 1
  <2>1. pc' = "send" /\ stage' = LineStage(TRUE, script[2])
    BY <1>1 DEF LineDone
  <2> QED BY <2>1, LineStageIs
<1>2. CASE ~(api = "file" /\ s \notin Failures /\ Len(script) > 1)
  BY <1>2 DEF LineDone, Return
<1> QED BY <1>1, <1>2

LEMMA AnsweredSettles ==
    ASSUME NEW buf, Answered(buf)
    PROVE  \/ Settled
           \/ /\ stage = "verify" /\ pc' \in {"idle", "send"}
              /\ pc' = "send" => stage' # "verify"
              /\ verdict' = [cmd |-> cmd, status |-> Verdict(buf)]
<1>1. CASE stage = "query" /\ LineDone("ok") /\ UNCHANGED <<esr, verdict>>
  BY <1>1, LineDoneSettles DEF Settled
<1>2. CASE stage = "verify" /\ Verified(Verdict(buf))
  BY <1>2, LineDoneSettles DEF Verified
<1>3. CASE StbRead(buf)
  BY <1>3 DEF StbRead, Return, GoOn, Settled
<1>4. CASE ErrorRead(Has(buf, "No error"))
  BY <1>4 DEF ErrorRead, GoOn, Settled
<1>5. CASE EsrRead(buf) \/ IdnRead(buf)
  BY <1>5 DEF EsrRead, IdnRead, GoOn, Return, Settled
<1> QED BY <1>1, <1>2, <1>3, <1>4, <1>5 DEF Answered

LEMMA UnansweredSettles ==
    ASSUME NEW s, Unanswered(s)
    PROVE  \/ Settled
           \/ /\ pc' \in {"idle", "send"} /\ (pc' = "send" => stage' # "verify")
              /\ verdict' = [cmd |-> cmd, status |-> VerdictOfFailure(s)]
<1>1. CASE stage = "query" /\ LineDone(s) /\ UNCHANGED <<esr, verdict>>
  BY <1>1, LineDoneSettles DEF Settled
<1>2. CASE stage = "verify" /\ Verified(VerdictOfFailure(s))
  BY <1>2, LineDoneSettles DEF Verified
<1>3. CASE Return(s) /\ UNCHANGED <<esr, verdict>>
  BY <1>3 DEF Return, Settled
<1>4. CASE ErrorRead(FALSE)
  BY <1>4 DEF ErrorRead, GoOn, Settled
<1>5. CASE IdnRead(<<>>)
  BY <1>5 DEF IdnRead, Return, Settled
<1> QED BY <1>1, <1>2, <1>3, <1>4, <1>5 DEF Unanswered

LEMMA InitChannel == Init => AnswersInv
<1> SUFFICES ASSUME Init PROVE AnswersInv
  OBVIOUS
<1>1. QueryIsLast /\ OneAnswer /\ CommandAccounted
  BY DEF Init, QueryIsLast, OneAnswer, CommandAccounted
<1>2. OwnAnswers /\ DoneMeansApplied
  BY DEF Init, OwnAnswers, DoneMeansApplied
<1> QED BY <1>1, <1>2 DEF AnswersInv

(***************************************************************************)
(* A step that leaves the connection and the verdict alone, taken while no  *)
(* query is in progress, cannot disturb the invariant.                      *)
(***************************************************************************)
LEMMA QuietStep ==
    ASSUME TypeInv, AnswersInv, pc # "recv",
           UNCHANGED <<toDev, toCli, lates, applied, answer, verdict>>,
           pc' \in {"idle", "send", "crashed"}, pc' = "send" => stage' # "verify"
    PROVE  AnswersInv'
<1>1. ASSUME lates' = 0
      PROVE  QueryIsLast' /\ OneAnswer' /\ CommandAccounted'
  <2>1. toCli = <<>> /\ \A k \in 1 .. Len(toDev) : ~IsQuery(toDev[k])
    BY <1>1 DEF AnswersInv, QueryIsLast, OneAnswer
  <2>2. QueryIsLast'
    BY <2>1 DEF QueryIsLast, IsQuery
  <2>3. OneAnswer' /\ CommandAccounted'
    BY <2>1 DEF OneAnswer, CommandAccounted
  <2> QED BY <2>2, <2>3
<1>2. OwnAnswers' /\ DoneMeansApplied'
  BY DEF AnswersInv, OwnAnswers, DoneMeansApplied
<1> QED BY <1>1, <1>2 DEF AnswersInv

LEMMA ApplicationChannel ==
    ASSUME TypeInv, AnswersInv, Application PROVE AnswersInv'
<1>1. ASSUME NEW a, NEW s, NEW st, Call(a, s, st), st # "verify"
      PROVE  AnswersInv'
  BY <1>1, QuietStep DEF Call, world
<1>2. ASSUME NEW k, wsa_send_scpi(k) PROVE AnswersInv'
  BY <1>1, <1>2, LineStageIs DEF wsa_send_scpi
<1>3. CASE wsa_query_scpi
  BY <1>1, <1>3 DEF wsa_query_scpi
<1>4. CASE wsa_do_scpi_command_file
  <2>1. PICK s \in Scripts : Call("file", s, LineStage(TRUE, Head(s)))
    BY <1>4 DEF wsa_do_scpi_command_file
  <2> QED BY <1>1, <2>1, LineStageIs
<1>5. CASE wsa_open
  BY <1>1, <1>5 DEF wsa_open
<1> QED BY <1>2, <1>3, <1>4, <1>5 DEF Application

(***************************************************************************)
(* Sending appends one request: the command, of which no query is, or the   *)
(* query, which becomes the one in progress.                                *)
(***************************************************************************)
LEMMA Appended ==
    ASSUME NEW S, NEW s \in Seq(S), NEW e \in S
    PROVE  /\ Len(Append(s, e)) = Len(s) + 1 /\ Len(s) \in Nat
           /\ \A k \in 1 .. Len(s) : Append(s, e)[k] = s[k]
           /\ Append(s, e)[Len(s) + 1] = e
  OBVIOUS

LEMMA SendCommandChannel ==
    ASSUME TypeInv, AnswersInv, wsa_send_command PROVE AnswersInv'
<1> DEFINE r == [id |-> nextId, kind |-> Head(script)]
<1>1. /\ pc = "send" /\ stage = "cmd" /\ script # <<>> /\ script[1] # "QRY"
      /\ script \in Seq(LineKinds)
  BY DEF wsa_send_command, TypeInv, ScriptOK, TypeOK
<1>2. Head(script) \in {"SET", "DATA"}
  <2>1. Head(script) = script[1] /\ script[1] \in LineKinds
    BY <1>1, NonEmpty
  <2> QED BY <1>1, <2>1 DEF LineKinds
<1>3. /\ toDev' = IF link = "up" THEN Append(toDev, r) ELSE toDev
      /\ cmd' = nextId
      /\ UNCHANGED <<link, toCli, errq, applied, lates, cur, answer, verdict>>
  BY DEF wsa_send_command, wsa_sock_send
<1>4. toDev \in Seq(Requests) /\ r \in Requests
  BY <1>2 DEF TypeInv, TypeOK, Requests, Kinds
<1>5. \/ Head(script) = "SET" /\ pc' = "send" /\ stage' = "verify"
      \/ pc' \in {"idle", "send"} /\ (pc' = "send" => stage' # "verify")
  BY <1>2, LineDoneSettles DEF wsa_send_command, NeedsVerify, GoOn
<1>6. ASSUME lates' = 0
      PROVE  QueryIsLast' /\ OneAnswer' /\ CommandAccounted'
  <2>1. toCli = <<>> /\ \A k \in 1 .. Len(toDev) : ~IsQuery(toDev[k])
    BY <1>1, <1>3, <1>6 DEF AnswersInv, QueryIsLast, OneAnswer
  <2>2. QueryIsLast'
    <3>1. CASE link # "up"
      BY <1>3, <2>1, <3>1 DEF QueryIsLast, IsQuery
    <3>2. CASE link = "up"
      <4>1. ~IsQuery(r)
        BY <1>2 DEF IsQuery, QueryKinds
      <4>2. \A k \in 1 .. Len(toDev') : ~IsQuery(toDev'[k])
        BY <1>3, <1>4, <2>1, <3>2, <4>1, Appended
      <4> QED BY <4>2 DEF QueryIsLast, IsQuery
    <3> QED BY <3>1, <3>2
  <2>3. OneAnswer'
    BY <1>3, <2>1 DEF OneAnswer
  <2>4. CommandAccounted'
    <3>1. CASE Head(script) = "SET" /\ link = "up"
      <4>1. toDev'[Len(toDev) + 1] = r /\ Len(toDev) + 1 \in 1 .. Len(toDev')
        BY <1>3, <1>4, <3>1, Appended
      <4>2. Accounted(cmd)'
        BY <1>3, <3>1, <4>1 DEF Accounted
      <4> QED BY <1>3, <2>1, <4>2 DEF CommandAccounted
    <3>2. CASE link # "up"
      BY <1>3, <2>1, <3>2 DEF CommandAccounted
    <3>3. CASE Head(script) # "SET"
      BY <1>5, <3>3 DEF CommandAccounted
    <3> QED BY <3>1, <3>2, <3>3
  <2> QED BY <2>2, <2>3, <2>4
<1>7. OwnAnswers' /\ DoneMeansApplied'
  BY <1>3 DEF AnswersInv, OwnAnswers, DoneMeansApplied
<1> QED BY <1>6, <1>7 DEF AnswersInv

LEMMA SendQueryChannel ==
    ASSUME TypeInv, AnswersInv, wsa_send_query PROVE AnswersInv'
<1> DEFINE r == [id |-> nextId, kind |-> QueryKind]
<1>1. pc = "send" /\ stage # "cmd" /\ pc' = "recv"
  BY DEF wsa_send_query
<1>2. QueryKind \in Kinds
  BY <1>1, QueryKindType DEF TypeInv, ScriptOK
<1>3. /\ toDev' = IF link = "up" THEN Append(toDev, r) ELSE toDev
      /\ cur' = nextId
      /\ UNCHANGED <<link, toCli, errq, applied, lates, cmd, stage,
                     answer, verdict>>
  BY DEF wsa_send_query, wsa_sock_send
<1>4. toDev \in Seq(Requests) /\ r \in Requests
  BY <1>2 DEF TypeInv, TypeOK, Requests
<1>5. ASSUME lates' = 0
      PROVE  QueryIsLast' /\ OneAnswer' /\ CommandAccounted'
  <2>1. toCli = <<>> /\ \A k \in 1 .. Len(toDev) : ~IsQuery(toDev[k])
    BY <1>1, <1>3, <1>5 DEF AnswersInv, QueryIsLast, OneAnswer
  <2>2. QueryIsLast'
    <3>1. CASE link # "up"
      BY <1>3, <2>1, <3>1 DEF QueryIsLast, IsQuery
    <3>2. CASE link = "up"
      <4>1. ASSUME NEW k \in 1 .. Len(toDev'), IsQuery(toDev'[k])
            PROVE  k = Len(toDev') /\ toDev'[k].id = nextId
        BY <1>3, <1>4, <2>1, <3>2, <4>1, Appended
      <4> QED BY <1>1, <1>3, <2>1, <4>1 DEF QueryIsLast, IsQuery
    <3> QED BY <3>1, <3>2
  <2>3. OneAnswer'
    BY <1>3, <2>1 DEF OneAnswer
  <2>4. CommandAccounted'
    <3>1. stage = "verify" /\ link = "up" => Accounted(cmd)
      BY <1>1, <1>3, <1>5, <2>1 DEF AnswersInv, CommandAccounted
    <3>2. ASSUME link = "up", Accounted(cmd) PROVE Accounted(cmd)'
      <4>1. \A k \in 1 .. Len(toDev) :
               k \in 1 .. Len(toDev') /\ toDev'[k] = toDev[k]
        BY <1>3, <1>4, <3>2, Appended
      <4> QED BY <1>3, <3>2, <4>1 DEF Accounted
    <3> QED BY <1>3, <2>1, <3>1, <3>2 DEF CommandAccounted
  <2> QED BY <2>2, <2>3, <2>4
<1>6. OwnAnswers' /\ DoneMeansApplied'
  BY <1>3 DEF AnswersInv, OwnAnswers, DoneMeansApplied
<1> QED BY <1>5, <1>6 DEF AnswersInv

LEMMA SendRefusedChannel ==
    ASSUME TypeInv, AnswersInv, SendRefused PROVE AnswersInv'
<1>1. pc = "send" /\ UNCHANGED <<world, cmd, answer>>
  BY DEF SendRefused
<1>2. CASE stage = "cmd"
  BY <1>1, <1>2, LineDoneSettles, QuietStep DEF SendRefused, world
<1>3. CASE stage # "cmd" /\ Settled
  BY <1>1, <1>3, QuietStep DEF Settled, world
<1>4. CASE /\ pc' \in {"idle", "send"} /\ (pc' = "send" => stage' # "verify")
           /\ verdict' = [cmd |-> cmd, status |-> VerdictOfFailure("sockerr")]
  <2>1. ASSUME lates' = 0
        PROVE  QueryIsLast' /\ OneAnswer' /\ CommandAccounted'
    <3>1. toCli = <<>> /\ \A k \in 1 .. Len(toDev) : ~IsQuery(toDev[k])
      BY <1>1, <2>1 DEF AnswersInv, QueryIsLast, OneAnswer, world
    <3> QED BY <1>1, <1>4, <3>1
            DEF QueryIsLast, OneAnswer, CommandAccounted, IsQuery, world
  <2>2. OwnAnswers' /\ DoneMeansApplied'
    BY <1>1, <1>4 DEF AnswersInv, OwnAnswers, DoneMeansApplied, world,
                      VerdictOfFailure
  <2> QED BY <2>1, <2>2 DEF AnswersInv
<1> QED BY <1>2, <1>3, <1>4, UnansweredSettles DEF SendRefused
(***************************************************************************)
(* Receiving.  With no abandoned query there is one answer to take, and it  *)
(* is that to the query in progress.                                        *)
(***************************************************************************)
LEMMA RecvChannel ==
    ASSUME TypeInv, AnswersInv, NEW n \in 1 .. Len(toCli), wsa_sock_recv(n)
    PROVE  AnswersInv'
<1> DEFINE buf == SubSeq(toCli, 1, n)
<1>1. /\ Answered(buf)
      /\ toCli' = SubSeq(toCli, n + 1, Len(toCli))
      /\ answer' = [to |-> cur, from |-> [i \in 1 .. n |-> toCli[i].id]]
      /\ UNCHANGED <<link, toDev, errq, applied, lates, cur, cmd>>
      /\ pc = "recv"
  BY DEF wsa_sock_recv
<1>2. toCli \in Seq(Answers) /\ Len(toCli) \in Nat /\ toCli # <<>>
  BY DEF TypeInv, TypeOK
<1>3. CASE lates # 0
  BY <1>1, <1>3 DEF AnswersInv, OwnAnswers, DoneMeansApplied
<1>4. CASE lates = 0
  <2>0. Len(toCli) = 1 /\ toDev = <<>> /\ toCli[1].id = cur
    BY <1>2, <1>4 DEF AnswersInv, OneAnswer
  <2>1. Len(toCli) = 1 /\ toDev = <<>> /\ toCli[1].id = cur /\ n = 1
    BY <2>0
  <2>2. toCli' = <<>> /\ toDev' = <<>>
    <3>1. SubSeq(toCli, 2, 1) = <<>>
      BY SubSeqEmpty
    <3> QED BY <1>1, <2>1, <3>1
  <2>3. answer'.from = <<answer'.to>>
    BY <1>1, <2>1
  <2>4. Len(buf) = 1 /\ buf[1] = toCli[1]
    BY <1>2, <2>1
  <2> HIDE DEF buf
  <2>5. /\ pc' \in {"idle", "send", "crashed"}
        /\ pc' = "send" => stage' # "verify"
    BY <1>1, AnsweredSettles DEF Settled
  <2>6. QueryIsLast' /\ OneAnswer' /\ CommandAccounted'
    BY <2>2, <2>5 DEF QueryIsLast, OneAnswer, CommandAccounted
  <2>7. DoneMeansApplied'
    <3>1. CASE verdict' = verdict
      BY <1>1, <3>1 DEF AnswersInv, DoneMeansApplied
    <3>2. CASE /\ stage = "verify"
               /\ verdict' = [cmd |-> cmd, status |-> Verdict(buf)]
      <4>1. ASSUME Verdict(buf) = "bytes" PROVE cmd \in applied
        <5>1. Has(buf, "No error")
          BY <4>1 DEF Verdict
        <5>2. buf[1].text = "No error"
          <6>1. PICK i \in 1 .. Len(buf) : buf[i].text = "No error"
            BY <5>1 DEF Has
          <6>2. i = 1
            BY <2>4
          <6> QED BY <6>1, <6>2
        <5> QED BY <1>1, <1>2, <1>4, <2>4, <3>2, <5>2
                DEF AnswersInv, CommandAccounted
      <4> QED BY <1>1, <3>2, <4>1 DEF DoneMeansApplied
    <3> QED BY <1>1, <3>1, <3>2, AnsweredSettles DEF Settled
  <2> QED BY <2>3, <2>6, <2>7 DEF AnswersInv, OwnAnswers
<1> QED BY <1>3, <1>4

(***************************************************************************)
(* An abandoned query either leaves nothing under way or is counted.        *)
(***************************************************************************)
LEMMA RecvFailsChannel ==
    ASSUME TypeInv, AnswersInv, RecvFails PROVE AnswersInv'
<1>1. UNCHANGED <<link, toDev, toCli, errq, applied, cur, cmd, answer>>
  BY DEF RecvFails
<1>2. CASE tries + 1 < RecvLimit
  <2>1. UNCHANGED <<lates, pc, stage, verdict>>
    BY <1>2 DEF RecvFails
  <2> QED BY <1>1, <2>1
          DEF AnswersInv, QueryIsLast, OneAnswer, CommandAccounted, Accounted,
              OwnAnswers, DoneMeansApplied, IsQuery
<1>3. CASE ~(tries + 1 < RecvLimit)
  <2>1. /\ lates' = IF UnderWay THEN lates + 1 ELSE lates
        /\ Unanswered("noresponse")
    BY <1>3 DEF RecvFails
  <2>2. lates' = 0 => lates = 0 /\ toDev = <<>> /\ toCli = <<>>
    BY <2>1 DEF TypeInv, TypeOK, UnderWay
  <2>3. /\ pc' \in {"idle", "send", "crashed"}
        /\ pc' = "send" => stage' # "verify"
        /\ \/ verdict' = verdict
           \/ verdict'.status # "bytes"
    BY <2>1, UnansweredSettles DEF Settled, VerdictOfFailure
  <2>4. lates' = 0 => QueryIsLast' /\ OneAnswer' /\ CommandAccounted'
    BY <1>1, <2>2, <2>3 DEF QueryIsLast, OneAnswer, CommandAccounted
  <2>5. OwnAnswers' /\ DoneMeansApplied'
    BY <1>1, <2>2, <2>3 DEF AnswersInv, OwnAnswers, DoneMeansApplied
  <2> QED BY <2>4, <2>5 DEF AnswersInv
<1> QED BY <1>2, <1>3

(***************************************************************************)
(* The device.  A set command leaves the connection for applied or errq; a  *)
(* query was the last request, so that answering it empties the way to the  *)
(* device, and "No error" is answered only when the queue is empty.         *)
(***************************************************************************)
LinkLost == link = "down" => toDev = <<>>

LEMMA LinkLostStep ==
    ASSUME TypeInv, LinkLost, [Next]_vars PROVE LinkLost'
<1>1. CASE Application
  BY <1>1 DEF Application, wsa_send_scpi, wsa_query_scpi, wsa_open, Call,
              wsa_do_scpi_command_file, LinkLost, world
<1>2. CASE Library
  BY <1>2 DEF Library, wsa_send_command, wsa_send_query, wsa_sock_send,
              SendRefused, wsa_sock_recv, RecvFails, LinkLost, world
<1>3. CASE DeviceExecutes
  BY <1>3 DEF DeviceExecutes, LinkLost
<1>4. CASE LinkDown
  BY <1>4 DEF LinkDown, LinkLost
<1>5. CASE UNCHANGED vars
  BY <1>5 DEF vars, world, LinkLost
<1> QED BY <1>1, <1>2, <1>3, <1>4, <1>5 DEF Next

LEMMA AppendedError ==
    ASSUME TypeInv, NEW q, NEW i, NEW t,
           q = Append(errq, [id |-> i, text |-> t])
    PROVE  /\ \E k \in 1 .. Len(q) : q[k].id = i
           /\ \A k \in 1 .. Len(errq) : k \in 1 .. Len(q) /\ q[k] = errq[k]
<1>1. errq \in Seq([id : Nat, text : ErrorTexts]) /\ Len(errq) \in Nat
  BY DEF TypeInv, TypeOK
<1>2. Len(q) = Len(errq) + 1 /\ q[Len(errq) + 1] = [id |-> i, text |-> t]
  BY <1>1
<1>3. \A k \in 1 .. Len(errq) : k \in 1 .. Len(q) /\ q[k] = errq[k]
  BY <1>1, <1>2
<1>4. Len(errq) + 1 \in 1 .. Len(q)
  BY <1>1, <1>2
<1> QED BY <1>2, <1>3, <1>4

LEMMA DeviceChannel ==
    ASSUME TypeInv, LinkLost, AnswersInv, DeviceExecutes PROVE AnswersInv'
<1> DEFINE r == Head(toDev)
<1>1. toDev # <<>> /\ toDev' = Tail(toDev) /\ UNCHANGED <<link, lates, client>>
  BY DEF DeviceExecutes
<1>2. /\ toDev \in Seq(Requests) /\ r = toDev[1] /\ r \in Requests
      /\ Len(toDev) \in Nat /\ Len(toDev) >= 1
      /\ toDev' \in Seq(Requests) /\ Len(toDev') = Len(toDev) - 1
      /\ \A k \in 1 .. Len(toDev) - 1 : toDev'[k] = toDev[k + 1]
  BY <1>1, NonEmpty DEF TypeInv, TypeOK
<1>3. applied \subseteq applied'
  BY DEF DeviceExecutes, Refuse, Reply
<1>4. OwnAnswers' /\ DoneMeansApplied'
  BY <1>1, <1>3 DEF AnswersInv, OwnAnswers, DoneMeansApplied, client
<1>5. ASSUME lates' = 0
      PROVE  QueryIsLast' /\ OneAnswer' /\ CommandAccounted'
  <2>0. QueryIsLast /\ OneAnswer /\ CommandAccounted /\ toCli = <<>>
    BY <1>1, <1>5 DEF AnswersInv, OneAnswer
  <2>1. CASE IsQuery(r)
    <3>1. Len(toDev) = 1 /\ r.id = cur /\ pc = "recv" /\ toDev' = <<>>
      <4>1. Len(toDev) = 1 /\ r.id = cur /\ pc = "recv"
        BY <1>2, <2>0, <2>1 DEF QueryIsLast
      <4>2. \A t \in Seq(Requests) : Len(t) = 0 => t = <<>>
        OBVIOUS
      <4> QED BY <1>2, <4>1, <4>2
    <3>2. QueryIsLast'
      BY <3>1 DEF QueryIsLast
    <3>3. CASE UNCHANGED <<toCli, applied>> /\ \E e : errq' = Append(errq, e)
      <4>1. \A k \in 1 .. Len(errq) : k \in 1 .. Len(errq') /\ errq'[k] = errq[k]
        <5>1. PICK e : errq' = Append(errq, e)
          BY <3>3
        <5>2. errq \in Seq([id : Nat, text : ErrorTexts])
          BY DEF TypeInv, TypeOK
        <5> QED BY <5>1, <5>2
      <4>2. r.kind # "SET"
        BY <2>1 DEF IsQuery, QueryKinds
      <4>3. ~\E k \in 1 .. Len(toDev) : toDev[k].id = cmd /\ toDev[k].kind = "SET"
        BY <1>2, <3>1, <4>2
      <4>4. Accounted(cmd) => Accounted(cmd)'
        BY <1>1, <3>3, <4>1, <4>3 DEF Accounted, client
      <4> QED BY <1>1, <2>0, <3>2, <3>3, <4>4
              DEF OneAnswer, CommandAccounted, client
    <3>4. ASSUME NEW t, toCli' = Append(toCli, [id |-> r.id, text |-> t]),
                 t = "No error" => errq = <<>>, applied' = applied
          PROVE  OneAnswer' /\ CommandAccounted'
      <4>1. /\ Len(toCli') = 1 /\ toCli'[1] = [id |-> r.id, text |-> t]
            /\ toCli'[1].id = r.id /\ toCli'[1].text = t
        <5> DEFINE a == [id |-> r.id, text |-> t]
        <5>1. toCli' = Append(<<>>, a)
          BY <2>0, <3>4
        <5>2. Append(<<>>, a) = <<a>>
          OBVIOUS
        <5> QED BY <5>1, <5>2
      <4>2. OneAnswer'
        BY <1>1, <3>1, <4>1 DEF OneAnswer, client
      <4>3. ASSUME t = "No error", stage = "verify" PROVE cmd \in applied
        <5>1. Accounted(cmd)
          <6>1. link = "up"
            BY <1>1 DEF LinkLost, TypeInv, TypeOK
          <6> QED BY <2>0, <3>1, <4>3, <6>1 DEF CommandAccounted
        <5>2. ~\E k \in 1 .. Len(toDev) : toDev[k].id = cmd /\ toDev[k].kind = "SET"
          BY <1>2, <2>1, <3>1 DEF IsQuery, QueryKinds
        <5>3. Len(errq) = 0
          <6>1. errq = <<>>
            BY <3>4, <4>3
          <6> QED BY <6>1
        <5> QED BY <5>1, <5>2, <5>3 DEF Accounted
      <4>4. toCli' # <<>>
        <5>1. Len(toCli') # 0
          BY <4>1
        <5> QED BY <5>1, NotEmpty
      <4>5. CommandAccounted'
        <5>1. UNCHANGED <<stage, pc, cmd, applied>>
          BY <1>1, <3>4 DEF client
        <5> QED BY <4>1, <4>3, <4>4, <5>1 DEF CommandAccounted
      <4> QED BY <4>2, <4>5
    <3>5. \/ UNCHANGED <<toCli, applied>> /\ \E e : errq' = Append(errq, e)
          \/ \E t : /\ toCli' = Append(toCli, [id |-> r.id, text |-> t])
                    /\ t = "No error" => errq = <<>>
                    /\ applied' = applied
      <4>1. r.kind \in {"QRY", "ERR", "STB", "ESR", "IDN"}
        BY <2>1 DEF IsQuery, QueryKinds
      <4>2. CASE r.kind = "ERR"
        <5>1. Reply(r, IF errq = <<>> THEN "No error" ELSE errq[1].text)
          BY <4>2 DEF DeviceExecutes
        <5>2. errq # <<>> => errq[1].text # "No error"
          <6>1. errq # <<>> => errq[1] \in [id : Nat, text : ErrorTexts]
            BY NonEmpty DEF TypeInv, TypeOK
          <6> QED BY <6>1 DEF ErrorTexts
        <5> QED BY <5>1, <5>2 DEF Reply
      <4>3. CASE r.kind # "ERR"
        <5>1. \/ \E t \in {"0", "ThinkRF,WSA5000"} \cup Numbers : Reply(r, t)
              \/ Refuse(r, "-222")
          BY <4>1, <4>3 DEF DeviceExecutes
        <5>2. "No error" \notin {"0", "ThinkRF,WSA5000"} \cup Numbers
          BY DEF Numbers
        <5> QED BY <5>1, <5>2 DEF Reply, Refuse
      <4> QED BY <4>2, <4>3
    <3> QED BY <3>2, <3>3, <3>4, <3>5
  <2>2. CASE ~IsQuery(r)
    <3>1. /\ toCli' = <<>>
          /\ \/ r.kind = "SET" /\ applied' = applied \cup {r.id} /\ errq' = errq
             \/ applied' = applied /\ errq' = errq /\ r.kind # "SET"
             \/ \E t : applied' = applied
                       /\ errq' = Append(errq, [id |-> r.id, text |-> t])
      BY <2>0, <2>2 DEF DeviceExecutes, Refuse, IsQuery, QueryKinds
    <3>2. QueryIsLast'
      <4>1. ASSUME NEW k \in 1 .. Len(toDev'), IsQuery(toDev'[k])
            PROVE  k = Len(toDev') /\ toDev'[k].id = cur /\ pc = "recv"
        BY <1>2, <2>0, <4>1 DEF QueryIsLast
      <4> QED BY <1>1, <3>1, <4>1 DEF QueryIsLast, IsQuery, client
    <3>3. OneAnswer'
      BY <3>1 DEF OneAnswer
    <3>4. Accounted(cmd) => Accounted(cmd)'
      <4>1. CASE \E k \in 1 .. Len(toDev) :
                    toDev[k].id = cmd /\ toDev[k].kind = "SET" /\ k # 1
        <5>1. PICK k \in 1 .. Len(toDev) :
                 toDev[k].id = cmd /\ toDev[k].kind = "SET" /\ k # 1
          BY <4>1
        <5>2. k - 1 \in 1 .. Len(toDev') /\ toDev'[k - 1] = toDev[k]
          BY <1>2, <5>1
        <5> QED BY <1>1, <5>1, <5>2 DEF Accounted, client
      <4>2. CASE r.id = cmd /\ r.kind = "SET"
        <5>1. CASE applied' = applied \cup {r.id}
          BY <1>1, <4>2, <5>1 DEF Accounted, client
        <5>2. ASSUME NEW t, errq' = Append(errq, [id |-> r.id, text |-> t])
              PROVE  Accounted(cmd)'
          <6>1. \E k \in 1 .. Len(errq') : errq'[k].id = r.id
            BY <5>2, AppendedError
          <6> QED BY <1>1, <4>2, <6>1 DEF Accounted, client
        <5> QED BY <3>1, <4>2, <5>1, <5>2
      <4>3. CASE cmd \in applied
        BY <1>1, <1>3, <4>3 DEF Accounted, client
      <4>4. CASE \E k \in 1 .. Len(errq) : errq[k].id = cmd
        <5>1. CASE errq' = errq
          BY <1>1, <4>4, <5>1 DEF Accounted, client
        <5>2. ASSUME NEW t, errq' = Append(errq, [id |-> r.id, text |-> t])
              PROVE  Accounted(cmd)'
          <6>1. \A k \in 1 .. Len(errq) :
                   k \in 1 .. Len(errq') /\ errq'[k] = errq[k]
            BY <5>2, AppendedError
          <6> QED BY <1>1, <4>4, <6>1 DEF Accounted, client
        <5> QED BY <3>1, <5>1, <5>2
      <4> QED BY <1>2, <4>1, <4>2, <4>3, <4>4 DEF Accounted
    <3>5. CommandAccounted'
      BY <1>1, <2>0, <3>1, <3>4 DEF CommandAccounted, client
    <3> QED BY <3>2, <3>3, <3>5
  <2> QED BY <2>1, <2>2
<1> QED BY <1>4, <1>5 DEF AnswersInv

(***************************************************************************)
(* Losing the connection takes requests and answers away; with the          *)
(* connection gone, an answer is still needed to conclude anything.         *)
(***************************************************************************)
LEMMA LinkDownChannel ==
    ASSUME TypeInv, AnswersInv, LinkDown PROVE AnswersInv'
<1>1. /\ link' = "down" /\ toDev' = <<>>
      /\ UNCHANGED <<errq, applied, lates, orphans, client>>
  BY DEF LinkDown
<1>2. PICK n \in 0 .. Len(toCli) : toCli' = SubSeq(toCli, 1, n)
  BY DEF LinkDown
<1>3. toCli \in Seq(Answers) /\ Len(toCli) \in Nat
  BY DEF TypeInv, TypeOK
<1>4. toCli' # <<>> => toCli # <<>> /\ Len(toCli') = n /\ toCli'[1] = toCli[1]
  <2>1. CASE n = 0
    <3>1. SubSeq(toCli, 1, 0) = <<>>
      BY SubSeqEmpty
    <3> QED BY <1>2, <2>1, <3>1
  <2>2. CASE n # 0
    <3>1. Len(toCli') = n /\ toCli'[1] = toCli[1]
      BY <1>2, <1>3, <2>2
    <3>2. toCli # <<>>
      BY <1>3, <2>2
    <3> QED BY <3>1, <3>2
  <2> QED BY <2>1, <2>2
<1>5. OwnAnswers' /\ DoneMeansApplied'
  BY <1>1 DEF AnswersInv, OwnAnswers, DoneMeansApplied, client
<1>6. ASSUME lates' = 0
      PROVE  QueryIsLast' /\ OneAnswer' /\ CommandAccounted'
  <2>1. OneAnswer /\ CommandAccounted
    BY <1>1, <1>6 DEF AnswersInv
  <2>2. QueryIsLast'
    BY <1>1 DEF QueryIsLast
  <2>3. OneAnswer'
    <3>1. ASSUME toCli' # <<>>
          PROVE  Len(toCli') = 1 /\ toCli'[1].id = cur /\ pc = "recv"
      <4>1. Len(toCli) = 1 /\ toCli[1].id = cur /\ pc = "recv"
        BY <1>4, <2>1, <3>1 DEF OneAnswer
      <4>2. n = 1
        <5>1. n # 0
          <6>1. SubSeq(toCli, 1, 0) = <<>>
            BY SubSeqEmpty
          <6> QED BY <1>2, <3>1, <6>1
        <5> QED BY <4>1, <5>1
      <4> QED BY <1>4, <3>1, <4>1, <4>2
    <3> QED BY <1>1, <3>1 DEF OneAnswer, client
  <2>4. CommandAccounted'
    BY <1>1, <1>4, <2>1 DEF CommandAccounted, client
  <2> QED BY <2>2, <2>3, <2>4
<1> QED BY <1>5, <1>6 DEF AnswersInv

LEMMA IdleChannel ==
    ASSUME AnswersInv, UNCHANGED vars PROVE AnswersInv'
  BY DEF AnswersInv, QueryIsLast, OneAnswer, CommandAccounted, Accounted,
         OwnAnswers, DoneMeansApplied, IsQuery, vars, world, client

LEMMA StepChannel ==
    ASSUME TypeInv, LinkLost, AnswersInv, [Next]_vars PROVE AnswersInv'
<1>1. CASE Application
  BY <1>1, ApplicationChannel
<1>2. CASE Library
  BY <1>2, SendCommandChannel, SendQueryChannel, SendRefusedChannel,
     RecvChannel, RecvFailsChannel DEF Library
<1>3. CASE DeviceExecutes
  BY <1>3, DeviceChannel
<1>4. CASE LinkDown
  BY <1>4, LinkDownChannel
<1>5. CASE UNCHANGED vars
  BY <1>5, IdleChannel
<1> QED BY <1>1, <1>2, <1>3, <1>4, <1>5 DEF Next

\* The matching of answers and the account of the command being verified are
\* kept by every step, for every length of session, queue and command file.
THEOREM AnswersKept == Spec => []AnswersInv
<1>1. Init => AnswersInv
  BY InitChannel
<1>2. Init => LinkLost
  BY DEF Init, LinkLost
<1>3. TypeInv /\ LinkLost /\ [Next]_vars => LinkLost'
  BY LinkLostStep
<1>4. TypeInv /\ LinkLost /\ AnswersInv /\ [Next]_vars => AnswersInv'
  BY StepChannel
<1> QED BY <1>1, <1>2, <1>3, <1>4, TypeCorrect, PTL DEF Spec

\* wsa_send_query returns the one answer to the query it sent, unless an
\* earlier query was abandoned with its answer still to come.
THEOREM AnswersAreOwn == Spec => []OwnAnswers
<1>1. AnswersInv => OwnAnswers
  BY DEF AnswersInv
<1> QED BY <1>1, AnswersKept, PTL

\* A set command for which wsa_send_command returns the number of bytes has
\* been executed by the device, under the same condition.
THEOREM DoneIsApplied == Spec => []DoneMeansApplied
<1>1. AnswersInv => DoneMeansApplied
  BY DEF AnswersInv
<1> QED BY <1>1, AnswersKept, PTL

\* Every variable of the channel keeps its type.
THEOREM TypesKept == Spec => []TypeOK
<1>1. TypeInv => TypeOK
  BY DEF TypeInv
<1> QED BY <1>1, TypeCorrect, PTL

=============================================================================
