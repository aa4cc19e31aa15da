--------------------------- MODULE ScpiErrorsProofs ---------------------------
(***************************************************************************)
(* Proofs about the command channel's losses and errors: how many answers   *)
(* can be late, and what becomes of the errors the device logs, for every   *)
(* bound and every set of command files.                                    *)
(***************************************************************************)
EXTENDS ScpiChannelProofs, FiniteSetTheorems, FunctionTheorems

(***************************************************************************)
(* Counting the queries among the requests.                                 *)
(***************************************************************************)
LEMMA QueriesFinite ==
    ASSUME NEW S, NEW s \in Seq(S)
    PROVE  IsFiniteSet(Queries(s)) /\ Cardinality(Queries(s)) \in Nat
<1>1. IsFiniteSet(1 .. Len(s))
  BY FS_Interval
<1>2. Queries(s) \in SUBSET (1 .. Len(s))
  BY DEF Queries
<1>3. IsFiniteSet(Queries(s))
  BY <1>1, <1>2, FS_Subset
<1> QED BY <1>3, FS_CardinalityType

LEMMA NoQueries == Cardinality(Queries(<<>>)) = 0
<1>1. Queries(<<>>) = {}
  BY DEF Queries
<1> QED BY <1>1, FS_EmptySet

LEMMA QueriesAppend ==
    ASSUME NEW S, NEW s \in Seq(S), NEW r \in S
    PROVE  /\ IsQuery(r) =>
                 Cardinality(Queries(Append(s, r))) = Cardinality(Queries(s)) + 1
           /\ ~IsQuery(r) =>
                 Cardinality(Queries(Append(s, r))) = Cardinality(Queries(s))
<1> DEFINE t == Append(s, r)
<1>1. /\ Len(t) = Len(s) + 1 /\ Len(s) \in Nat
      /\ \A k \in 1 .. Len(s) : t[k] = s[k]
      /\ t[Len(s) + 1] = r
  BY Appended
<1> HIDE DEF t
<1>2. \A k \in 1 .. Len(s) : k \in Queries(t) <=> k \in Queries(s)
  <2> TAKE k \in 1 .. Len(s)
  <2>1. t[k] = s[k] /\ k \in 1 .. Len(t)
    BY <1>1
  <2> QED BY <2>1 DEF Queries
<1>3. Len(s) + 1 \in Queries(t) <=> IsQuery(r)
  <2>1. Len(s) + 1 \in 1 .. Len(t)
    BY <1>1
  <2> QED BY <1>1, <2>1 DEF Queries
<1>4. \A k \in Queries(t) : k \in 1 .. Len(s) \/ k = Len(s) + 1
  BY <1>1 DEF Queries
<1>5. Queries(s) \subseteq 1 .. Len(s) /\ Len(s) + 1 \notin Queries(s)
  BY <1>1 DEF Queries
<1>6. CASE IsQuery(r)
  <2>1. Queries(t) = Queries(s) \cup {Len(s) + 1}
    BY <1>2, <1>3, <1>4, <1>5, <1>6
  <2>2. Cardinality(Queries(s) \cup {Len(s) + 1}) = Cardinality(Queries(s)) + 1
    BY <1>5, QueriesFinite, FS_AddElement
  <2> QED BY <1>6, <2>1, <2>2 DEF t
<1>7. CASE ~IsQuery(r)
  <2>1. Queries(t) = Queries(s)
    BY <1>2, <1>3, <1>4, <1>5, <1>7
  <2> QED BY <1>7, <2>1 DEF t
<1> QED BY <1>6, <1>7

LEMMA QueriesTail ==
    ASSUME NEW S, NEW s \in Seq(S), s # <<>>
    PROVE  Cardinality(Queries(s)) =
               Cardinality(Queries(Tail(s))) + (IF IsQuery(Head(s)) THEN 1 ELSE 0)
<1> DEFINE t == Tail(s)
           later == Queries(s) \ {1}
           f == [k \in later |-> k - 1]
<1>1. /\ Len(s) \in Nat /\ Len(s) >= 1 /\ Head(s) = s[1] /\ t \in Seq(S)
      /\ Len(t) = Len(s) - 1
      /\ \A i \in 1 .. Len(s) - 1 : t[i] = s[i + 1]
  BY NonEmpty
<1> HIDE DEF t
<1>2. IsFiniteSet(later) /\ Cardinality(Queries(t)) = Cardinality(later)
  <2>1. IsFiniteSet(later)
    BY QueriesFinite, FS_RemoveElement
  <2>2. \A k \in later : k \in Int /\ k - 1 \in Queries(t)
    <3> TAKE k \in later
    <3>1. k \in 2 .. Len(s) /\ IsQuery(s[k])
      BY <1>1 DEF Queries
    <3>2. k - 1 \in 1 .. Len(s) - 1 /\ (k - 1) + 1 = k
      BY <1>1, <3>1
    <3>3. t[k - 1] = s[k] /\ k - 1 \in 1 .. Len(t)
      BY <1>1, <3>2
    <3> QED BY <3>1, <3>3 DEF Queries
  <2>3. \A j \in Queries(t) : j + 1 \in later /\ f[j + 1] = j
    <3> TAKE j \in Queries(t)
    <3>1. j \in 1 .. Len(s) - 1 /\ IsQuery(t[j])
      BY <1>1 DEF Queries
    <3>2. j + 1 \in 1 .. Len(s) /\ j + 1 # 1 /\ (j + 1) - 1 = j
      BY <1>1, <3>1
    <3>3. s[j + 1] = t[j]
      BY <1>1, <3>1
    <3>4. j + 1 \in later
      BY <3>1, <3>2, <3>3 DEF Queries
    <3> QED BY <3>2, <3>4
  <2>4. f \in [later -> Queries(t)]
    BY <2>2
  <2>5. \A a, b \in later : f[a] = f[b] => a = b
    BY <2>2
  <2>6. \A j \in Queries(t) : \E k \in later : f[k] = j
    BY <2>3
  <2> HIDE DEF f, later
  <2>7. f \in Bijection(later, Queries(t))
    BY <2>4, <2>5, <2>6, Fun_IsBij
  <2>8. ExistsBijection(later, Queries(t))
    BY <2>7, Fun_ExistsBij
  <2> QED BY <2>1, <2>8, FS_Bijection
<1>3. 1 \in Queries(s) <=> IsQuery(Head(s))
  <2>1. 1 \in 1 .. Len(s)
    BY <1>1
  <2> QED BY <1>1, <2>1 DEF Queries
<1>4. Cardinality(later) \in Nat
  BY <1>2, FS_CardinalityType
<1>5. CASE IsQuery(Head(s))
  <2>1. Cardinality(later) = Cardinality(Queries(s)) - 1
    BY <1>3, <1>5, QueriesFinite, FS_RemoveElement
  <2>2. Cardinality(Queries(s)) \in Nat
    BY QueriesFinite
  <2> HIDE DEF later
  <2> QED BY <1>2, <1>4, <1>5, <2>1, <2>2 DEF t
<1>6. CASE ~IsQuery(Head(s))
  <2>1. later = Queries(s)
    BY <1>3, <1>6
  <2>2. Cardinality(Queries(s)) \in Nat
    BY QueriesFinite
  <2> HIDE DEF later
  <2> QED BY <1>2, <1>6, <2>1, <2>2 DEF t
<1> QED BY <1>5, <1>6

(***************************************************************************)
(* Late answers.  A query adds one to what the device owes when it is sent, *)
(* and takes at least one away when it is answered; giving it up is counted *)
(* if anything is still owed.                                               *)
(***************************************************************************)
LEMMA OwedIsCounted ==
    ASSUME TypeInv
    PROVE  /\ Cardinality(Queries(toDev)) \in Nat /\ Len(toCli) \in Nat
           /\ Owed \in Nat /\ lates \in Nat
  BY QueriesFinite DEF Owed, TypeInv, TypeOK

LEMMA SameOwed ==
    ASSUME TypeInv, StaleAnswersBounded, UNCHANGED <<toDev, toCli, lates>>,
           pc' = pc \/ pc # "recv"
    PROVE  StaleAnswersBounded'
<1>1. Owed' = Owed
  BY DEF Owed
<1> QED BY <1>1, OwedIsCounted DEF StaleAnswersBounded

LEMMA SendOwes ==
    ASSUME TypeInv, NEW k \in Kinds, wsa_sock_send(k)
    PROVE  /\ Cardinality(Queries(toDev')) <= Cardinality(Queries(toDev)) + 1
           /\ k \notin QueryKinds =>
                 Cardinality(Queries(toDev')) = Cardinality(Queries(toDev))
           /\ Cardinality(Queries(toDev')) \in Nat
<1> DEFINE r == [id |-> nextId, kind |-> k]
<1>1. toDev' = IF link = "up" THEN Append(toDev, r) ELSE toDev
  BY DEF wsa_sock_send
<1>2. toDev \in Seq(Requests) /\ r \in Requests /\ r.kind = k
  BY DEF TypeInv, TypeOK, Requests
<1>3. Cardinality(Queries(toDev)) \in Nat
  BY OwedIsCounted
<1>4. IsQuery(r) <=> k \in QueryKinds
  BY <1>2 DEF IsQuery
<1> HIDE DEF r
<1> QED BY <1>1, <1>2, <1>3, <1>4, QueriesAppend

LEMMA SendCommandOwes ==
    ASSUME TypeInv, StaleAnswersBounded, wsa_send_command
    PROVE  StaleAnswersBounded'
<1>1. /\ pc = "send" /\ stage = "cmd" /\ script # <<>> /\ script[1] # "QRY"
      /\ script \in Seq(LineKinds)
  BY DEF wsa_send_command, TypeInv, ScriptOK, TypeOK
<1>2. Head(script) \in {"SET", "DATA"}
  <2>1. Head(script) = script[1] /\ script[1] \in LineKinds
    BY <1>1, NonEmpty
  <2> QED BY <1>1, <2>1 DEF LineKinds
<1>3. Head(script) \in Kinds /\ Head(script) \notin QueryKinds
  BY <1>2 DEF Kinds, QueryKinds
<1>4. wsa_sock_send(Head(script)) /\ UNCHANGED <<toCli, lates>>
  BY DEF wsa_send_command
<1>5. Owed' = Owed
  BY <1>3, <1>4, SendOwes DEF Owed
<1> QED BY <1>1, <1>4, <1>5, OwedIsCounted DEF StaleAnswersBounded

LEMMA SendQueryOwes ==
    ASSUME TypeInv, StaleAnswersBounded, wsa_send_query
    PROVE  StaleAnswersBounded'
<1>1. pc = "send" /\ stage # "cmd" /\ pc' = "recv" /\ UNCHANGED <<toCli, lates>>
  BY DEF wsa_send_query
<1>2. QueryKind \in Kinds /\ wsa_sock_send(QueryKind)
  BY <1>1, QueryKindType DEF wsa_send_query, TypeInv, ScriptOK
<1>3. Owed' <= Owed + 1 /\ Owed' \in Nat
  BY <1>1, <1>2, SendOwes, OwedIsCounted DEF Owed
<1> QED BY <1>1, <1>3, OwedIsCounted DEF StaleAnswersBounded

LEMMA AnsweredLeaves == ASSUME NEW b, Answered(b) PROVE pc' # "recv"
  BY AnsweredSettles DEF Settled

LEMMA UnansweredLeaves == ASSUME NEW s, Unanswered(s) PROVE pc' # "recv"
  BY UnansweredSettles DEF Settled

LEMMA RecvOwes ==
    ASSUME TypeInv, StaleAnswersBounded,
           NEW n \in 1 .. Len(toCli), wsa_sock_recv(n)
    PROVE  StaleAnswersBounded'
<1>1. /\ toCli' = SubSeq(toCli, n + 1, Len(toCli)) /\ pc = "recv"
      /\ UNCHANGED <<toDev, lates>>
  BY DEF wsa_sock_recv
<1>2. pc' # "recv"
  BY AnsweredLeaves DEF wsa_sock_recv
<1>3. toCli \in Seq(Answers) /\ Len(toCli) \in Nat /\ n \in Nat
      /\ 1 <= n /\ n <= Len(toCli)
  BY DEF TypeInv, TypeOK
<1>4. Len(toCli') = Len(toCli) - n
  BY <1>1, <1>3
<1>5. Owed' = Owed - n /\ Owed' \in Nat
  BY <1>1, <1>3, <1>4, OwedIsCounted DEF Owed
<1> QED BY <1>1, <1>2, <1>3, <1>5, OwedIsCounted DEF StaleAnswersBounded

LEMMA RecvFailsOwes ==
    ASSUME TypeInv, StaleAnswersBounded, RecvFails
    PROVE  StaleAnswersBounded'
<1>1. pc = "recv" /\ UNCHANGED <<toDev, toCli>>
  BY DEF RecvFails
<1>2. CASE tries + 1 < RecvLimit
  BY <1>1, <1>2, SameOwed DEF RecvFails
<1>3. CASE ~(tries + 1 < RecvLimit)
  <2>1. /\ lates' = IF UnderWay THEN lates + 1 ELSE lates
        /\ Unanswered("noresponse")
    BY <1>3 DEF RecvFails
  <2>2. pc' # "recv"
    BY <2>1, UnansweredLeaves
  <2>3. Owed' = Owed
    BY <1>1 DEF Owed
  <2>4. ~UnderWay => Owed = 0
    <3> SUFFICES ASSUME ~UnderWay PROVE Owed = 0
      OBVIOUS
    <3>1. toDev = <<>> /\ toCli = <<>>
      BY DEF UnderWay
    <3>2. Len(toCli) = 0
      BY <3>1
    <3> QED BY <3>1, <3>2, NoQueries DEF Owed
  <2>5. CASE UnderWay
    BY <1>1, <2>1, <2>2, <2>3, <2>5, OwedIsCounted DEF StaleAnswersBounded
  <2>6. CASE ~UnderWay
    BY <1>1, <2>1, <2>2, <2>3, <2>4, <2>6, OwedIsCounted DEF StaleAnswersBounded
  <2> QED BY <2>5, <2>6
<1> QED BY <1>2, <1>3

\* What one request does to the answers: a query is answered once or not at
\* all, and nothing else is.
LEMMA OneAnswerEach ==
    ASSUME TypeInv, DeviceExecutes
    PROVE  \/ toCli' = toCli
           \/ IsQuery(Head(toDev)) /\ \E t : toCli' = Append(toCli,
                                         [id |-> Head(toDev).id, text |-> t])
  BY DEF DeviceExecutes, Refuse, Reply, IsQuery, QueryKinds

LEMMA DeviceOwes ==
    ASSUME TypeInv, StaleAnswersBounded, DeviceExecutes
    PROVE  StaleAnswersBounded'
<1>1. toDev # <<>> /\ toDev' = Tail(toDev) /\ UNCHANGED <<lates, pc>>
  BY DEF DeviceExecutes, client
<1>2. toDev \in Seq(Requests)
  BY DEF TypeInv, TypeOK
<1>3. Cardinality(Queries(toDev)) =
        Cardinality(Queries(toDev')) + (IF IsQuery(Head(toDev)) THEN 1 ELSE 0)
  BY <1>1, <1>2, QueriesTail
<1>4. Cardinality(Queries(toDev')) \in Nat
  BY <1>1, <1>2, QueriesFinite, NonEmpty
<1>5. /\ Len(toCli') \in Nat
      /\ Len(toCli') <= Len(toCli) + (IF IsQuery(Head(toDev)) THEN 1 ELSE 0)
  <2>1. toCli \in Seq(Answers) /\ Len(toCli) \in Nat
    BY DEF TypeInv, TypeOK
  <2>2. \A e : Len(Append(toCli, e)) = Len(toCli) + 1
    BY <2>1
  <2>3. \/ toCli' = toCli
        \/ IsQuery(Head(toDev)) /\ \E e : toCli' = Append(toCli, e)
    BY OneAnswerEach
  <2>4. \/ Len(toCli') = Len(toCli)
        \/ IsQuery(Head(toDev)) /\ Len(toCli') = Len(toCli) + 1
    BY <2>2, <2>3
  <2> QED BY <2>1, <2>4
<1>6. Owed' <= Owed /\ Owed' \in Nat
  BY <1>3, <1>4, <1>5, OwedIsCounted DEF Owed
<1> QED BY <1>1, <1>6, OwedIsCounted DEF StaleAnswersBounded

LEMMA LinkDownOwes ==
    ASSUME TypeInv, StaleAnswersBounded, LinkDown
    PROVE  StaleAnswersBounded'
<1>1. toDev' = <<>> /\ UNCHANGED <<lates, pc>>
  BY DEF LinkDown, client
<1>2. PICK n \in 0 .. Len(toCli) : toCli' = SubSeq(toCli, 1, n)
  BY DEF LinkDown
<1>3. toCli \in Seq(Answers) /\ Len(toCli) \in Nat
  BY DEF TypeInv, TypeOK
<1>4. Len(toCli') = n /\ n \in Nat /\ n <= Len(toCli)
  <2>1. n = 0 => SubSeq(toCli, 1, n) = <<>>
    BY SubSeqEmpty
  <2> QED BY <1>2, <1>3, <2>1
<1>5. Owed' <= Owed /\ Owed' \in Nat
  BY <1>1, <1>4, NoQueries, OwedIsCounted DEF Owed
<1> QED BY <1>1, <1>5, OwedIsCounted DEF StaleAnswersBounded

LEMMA StepOwes ==
    ASSUME TypeInv, StaleAnswersBounded, [Next]_vars
    PROVE  StaleAnswersBounded'
<1>1. CASE Application
  <2>1. pc = "idle" /\ UNCHANGED world
    BY <1>1 DEF Application, wsa_send_scpi, wsa_query_scpi, wsa_open, Call,
                wsa_do_scpi_command_file
  <2> QED BY <2>1, SameOwed DEF world
<1>2. CASE SendRefused
  <2>1. pc = "send" /\ UNCHANGED world
    BY <1>2 DEF SendRefused
  <2> QED BY <2>1, SameOwed DEF world
<1>3. CASE Library
  BY <1>2, <1>3, SendCommandOwes, SendQueryOwes, RecvOwes, RecvFailsOwes DEF Library
<1>4. CASE UNCHANGED vars
  BY <1>4, SameOwed DEF vars, world, client
<1> QED BY <1>1, <1>3, <1>4, DeviceOwes, LinkDownOwes DEF Next

\* However many queries are abandoned, and however late the device is, every
\* one of them leaves at most one answer that a later query can take for its
\* own: what the device owes never exceeds them by more than the answer to
\* the query in progress.
THEOREM StaleAnswersAreBounded == Spec => []StaleAnswersBounded
<1>1. Init => StaleAnswersBounded
  <2> SUFFICES ASSUME Init PROVE StaleAnswersBounded
    OBVIOUS
  <2>1. toDev = <<>> /\ Len(toCli) = 0 /\ lates = 0 /\ pc = "idle"
    BY DEF Init
  <2> QED BY <2>1, NoQueries DEF StaleAnswersBounded, Owed
<1>2. TypeInv /\ StaleAnswersBounded /\ [Next]_vars => StaleAnswersBounded'
  BY StepOwes
<1> QED BY <1>1, <1>2, TypeCorrect, PTL DEF Spec

(***************************************************************************)
(* What the steps of the client look like from the connection.              *)
(***************************************************************************)
LEMMA CallShape ==
    ASSUME Application
    PROVE  /\ pc = "idle" /\ pc' = "send"
           /\ stage' \in {"cmd", "query", "stb"}
           /\ api' = "open" <=> stage' = "stb"
           /\ UNCHANGED <<world, cmd, nextId, verdict>>
<1>1. ASSUME NEW a \in {"scpi", "file"}, NEW s, NEW st \in {"query", "cmd"},
             Call(a, s, st)
      PROVE  /\ pc = "idle" /\ pc' = "send"
             /\ stage' \in {"cmd", "query"} /\ api' # "open"
             /\ UNCHANGED <<world, cmd, nextId, verdict>>
  BY <1>1 DEF Call
<1>2. CASE \E k \in {"SET", "DATA"} : wsa_send_scpi(k)
  <2>1. PICK k \in {"SET", "DATA"} : Call("scpi", <<k>>, LineStage(FALSE, k))
    BY <1>2 DEF wsa_send_scpi
  <2> QED BY <1>1, <2>1, LineStageIs
<1>3. CASE wsa_do_scpi_command_file
  <2>1. PICK s \in Scripts : Call("file", s, LineStage(TRUE, Head(s)))
    BY <1>3 DEF wsa_do_scpi_command_file
  <2> QED BY <1>1, <2>1, LineStageIs
<1>4. CASE wsa_query_scpi \/ wsa_open
  BY <1>4 DEF wsa_query_scpi, wsa_open, Call
<1> QED BY <1>2, <1>3, <1>4 DEF Application

LEMMA CommandShape ==
    ASSUME TypeInv, wsa_send_command
    PROVE  /\ pc = "send" /\ stage = "cmd" /\ Head(script) \in {"SET", "DATA"}
           /\ wsa_sock_send(Head(script)) /\ cmd' = nextId
           /\ UNCHANGED <<link, toCli, errq, applied, lates, orphans, api, verdict>>
           /\ \/ /\ Head(script) = "SET" /\ pc' = "send" /\ stage' = "verify"
                 /\ UNCHANGED report
              \/ Head(script) = "DATA" /\ LineDone("bytes")
<1>1. /\ pc = "send" /\ stage = "cmd" /\ script # <<>> /\ script[1] # "QRY"
      /\ script \in Seq(LineKinds)
  BY DEF wsa_send_command, TypeInv, ScriptOK, TypeOK
<1>2. Head(script) \in {"SET", "DATA"}
  <2>1. Head(script) = script[1] /\ script[1] \in LineKinds
    BY <1>1, NonEmpty
  <2> QED BY <1>1, <2>1 DEF LineKinds
<1> QED BY <1>1, <1>2 DEF wsa_send_command, NeedsVerify, GoOn

LEMMA QueryShape ==
    ASSUME TypeInv, wsa_send_query
    PROVE  /\ pc = "send" /\ pc' = "recv" /\ stage # "cmd"
           /\ QueryKind \in QueryKinds \cup {"DATA"}
           /\ stage # "query" => QueryKind \in QueryKinds
           /\ wsa_sock_send(QueryKind) /\ QueryKind' = QueryKind
           /\ UNCHANGED <<link, toCli, errq, applied, lates, orphans, api, stage,
                          cmd, verdict, report>>
<1>1. pc = "send" /\ stage # "cmd" /\ wsa_sock_send(QueryKind)
  BY DEF wsa_send_query
<1>2. CASE stage = "query"
  <2>1. script # <<>> /\ script[1] # "SET" /\ script \in Seq(LineKinds)
    BY <1>1, <1>2 DEF TypeInv, ScriptOK, TypeOK
  <2>2. Head(script) = script[1] /\ script[1] \in LineKinds
    BY <2>1, NonEmpty
  <2>3. Head(script) \in QueryKinds \cup {"DATA"}
    BY <2>1, <2>2 DEF LineKinds, QueryKinds
  <2> QED BY <1>1, <1>2, <2>3 DEF wsa_send_query, QueryKind
<1>3. CASE stage # "query"
  BY <1>1, <1>3 DEF wsa_send_query, QueryKind, QueryKinds
<1> QED BY <1>2, <1>3

\* A line of a call other than wsa_open leads to another line or to the end.
LEMMA LineDoneShape ==
    ASSUME NEW s, LineDone(s)
    PROVE  \/ /\ pc' = "send" /\ stage' \in {"query", "cmd"} /\ UNCHANGED report
           \/ pc' = "idle" /\ \E t : report' = [api |-> api, status |-> t]
<1>1. CASE api = "file" /\ s \notin Failures /\ Len(script) > 1
  <2>1. pc' = "send" /\ stage' = LineStage(TRUE, script[2]) /\ UNCHANGED report
    BY <1>1 DEF LineDone
  <2> QED BY <2>1, LineStageIs
<1>2. CASE ~(api = "file" /\ s \notin Failures /\ Len(script) > 1)
  BY <1>2 DEF LineDone, Return
<1> QED BY <1>1, <1>2

\* What an answer, or its absence, leads to.
Led ==
    /\ pc' \in {"idle", "send", "crashed"}
    /\ pc' = "send" => /\ stage' # "verify"
                       /\ stage' \in OpenStages <=> stage \in OpenStages
    /\ verdict' = verdict \/ (stage = "verify" /\ verdict'.cmd = cmd)

LEMMA AnsweredLeads ==
    ASSUME NEW buf, Answered(buf)
    PROVE  /\ Led
           /\ pc' = "send" /\ stage' \in {"esr", "idn"} =>
                 \/ stage = "stb" /\ IsInteger(buf) /\ ~EvtAvl(buf[1].text)
                 \/ stage = "drain" /\ Has(buf, "No error")
                 \/ stage = "esr"
           /\ pc' = "idle" /\ report' = [api |-> "open", status |-> "ok"] =>
                 stage = "idn" \/ (api = "open" /\ stage \in {"query", "verify"})
<1>1. CASE stage = "query" /\ LineDone("ok") /\ UNCHANGED <<esr, verdict>>
  BY <1>1, LineDoneShape DEF Led, OpenStages
<1>2. CASE stage = "verify" /\ Verified(Verdict(buf))
  BY <1>2, LineDoneShape DEF Verified, Led, OpenStages
<1>3. CASE stage = "stb" /\ StbRead(buf)
  BY <1>3 DEF StbRead, Return, GoOn, Led, OpenStages
<1>4. CASE stage = "drain" /\ ErrorRead(Has(buf, "No error"))
  BY <1>4 DEF ErrorRead, GoOn, Led, OpenStages
<1>5. CASE stage = "esr" /\ EsrRead(buf)
  BY <1>5 DEF EsrRead, GoOn, Return, Led, OpenStages
<1>6. CASE stage = "idn" /\ IdnRead(buf)
  BY <1>6 DEF IdnRead, Return, Led
<1> QED BY <1>1, <1>2, <1>3, <1>4, <1>5, <1>6 DEF Answered

LEMMA UnansweredLeads ==
    ASSUME NEW s \in {"noresponse", "sockerr"}, Unanswered(s)
    PROVE  /\ Led
           /\ pc' = "send" => stage' \notin {"esr", "idn"}
           /\ pc' = "idle" /\ report' = [api |-> "open", status |-> "ok"] =>
                 api = "open" /\ stage \in {"query", "verify"}
<1>1. CASE stage = "query" /\ LineDone(s) /\ UNCHANGED <<esr, verdict>>
  BY <1>1, LineDoneShape DEF Led, OpenStages
<1>2. CASE stage = "verify" /\ Verified(VerdictOfFailure(s))
  BY <1>2, LineDoneShape DEF Verified, Led, OpenStages
<1>3. CASE /\ stage \in {"stb", "esr"} /\ Return(s)
           /\ UNCHANGED <<esr, verdict>>
  BY <1>3 DEF Return, Led
<1>4. CASE stage = "drain" /\ ErrorRead(FALSE)
  BY <1>4 DEF ErrorRead, GoOn, Led, OpenStages
<1>5. CASE stage = "idn" /\ IdnRead(<<>>)
  <2>1. ~Has(<<>>, "ThinkRF,WSA5000")
    BY DEF Has
  <2> QED BY <1>5, <2>1 DEF IdnRead, Led
<1> QED BY <1>1, <1>2, <1>3, <1>4, <1>5 DEF Unanswered

(***************************************************************************)
(* wsa_open's exchanges belong to wsa_open.                                 *)
(***************************************************************************)
LEMMA RecvFailsShape ==
    ASSUME RecvFails
    PROVE  /\ pc = "recv"
           /\ UNCHANGED <<link, toDev, toCli, errq, applied, orphans, api,
                          cmd, nextId>>
           /\ \/ UNCHANGED <<lates, pc, stage, script, verdict, report>>
              \/ /\ lates' = IF UnderWay THEN lates + 1 ELSE lates
                 /\ Unanswered("noresponse")
  BY DEF RecvFails

LEMMA RefusedShape ==
    ASSUME SendRefused
    PROVE  /\ pc = "send" /\ link = "down"
           /\ UNCHANGED <<world, api, cmd, nextId>>
           /\ \/ /\ stage = "cmd" /\ LineDone("sockerr") /\ UNCHANGED verdict
              \/ stage # "cmd" /\ Unanswered("sockerr")
  BY DEF SendRefused

LEMMA OpeningStep ==
    ASSUME TypeInv, OpenIsOpening, [Next]_vars PROVE OpenIsOpening'
<1>1. CASE Application
  BY <1>1, CallShape DEF OpenIsOpening, Active, OpenStages
<1>2. CASE wsa_send_command
  BY <1>2, CommandShape, LineDoneShape DEF OpenIsOpening, Active, OpenStages
<1>3. CASE wsa_send_query
  BY <1>3, QueryShape DEF OpenIsOpening, Active
<1>4. CASE SendRefused
  <2>1. CASE stage = "cmd"
    BY <1>4, <2>1, RefusedShape, LineDoneShape DEF OpenIsOpening, Active, OpenStages
  <2>2. CASE stage # "cmd"
    BY <1>4, <2>2, RefusedShape, UnansweredLeads DEF OpenIsOpening, Active, Led
  <2> QED BY <2>1, <2>2
<1>5. ASSUME NEW n \in 1 .. Len(toCli), wsa_sock_recv(n) PROVE OpenIsOpening'
  BY <1>5, AnsweredLeads DEF wsa_sock_recv, OpenIsOpening, Active, Led
<1>6. CASE RecvFails
  <2>1. CASE UNCHANGED <<lates, pc, stage, script, verdict, report>>
    BY <1>6, <2>1, RecvFailsShape DEF OpenIsOpening, Active
  <2>2. CASE Unanswered("noresponse")
    BY <1>6, <2>2, RecvFailsShape, UnansweredLeads DEF OpenIsOpening, Active, Led
  <2> QED BY <1>6, <2>1, <2>2, RecvFailsShape
<1>7. CASE DeviceExecutes \/ LinkDown \/ UNCHANGED vars
  BY <1>7 DEF DeviceExecutes, LinkDown, vars, client, OpenIsOpening, Active
<1> QED BY <1>1, <1>2, <1>3, <1>4, <1>5, <1>6, <1>7 DEF Next, Library

(***************************************************************************)
(* The numbering of the requests.                                           *)
(***************************************************************************)
LEMMA SendNumbers ==
    ASSUME TypeInv, Numbered, NEW k \in Kinds, wsa_sock_send(k)
    PROVE  /\ \A j \in 1 .. Len(toDev') : toDev'[j].id < nextId'
           /\ \A i \in applied : i < nextId'
           /\ nextId \in Nat /\ nextId' >= nextId
           /\ link = "up" => nextId' = nextId + 1
<1> DEFINE r == [id |-> nextId, kind |-> k]
<1>1. /\ toDev' = IF link = "up" THEN Append(toDev, r) ELSE toDev
      /\ nextId' = IF link = "up" THEN nextId + 1 ELSE nextId
  BY DEF wsa_sock_send
<1>2. /\ toDev \in Seq(Requests) /\ r \in Requests /\ r.id = nextId
      /\ nextId \in Nat /\ applied \subseteq Nat
  BY DEF TypeInv, TypeOK, Requests
<1> HIDE DEF r
<1>3. \A j \in 1 .. Len(toDev) : toDev[j].id \in Nat /\ toDev[j].id < nextId
  <2>1. \A j \in 1 .. Len(toDev) : toDev[j] \in Requests
    BY <1>2, ElementOfSeq
  <2> QED BY <2>1 DEF Numbered, Requests
<1>4. CASE link = "up"
  <2>1. /\ Len(toDev') = Len(toDev) + 1 /\ Len(toDev) \in Nat
        /\ \A j \in 1 .. Len(toDev) : toDev'[j] = toDev[j]
        /\ toDev'[Len(toDev) + 1] = r
    BY <1>1, <1>2, <1>4, Appended
  <2>2. \A j \in 1 .. Len(toDev') : j \in 1 .. Len(toDev) \/ j = Len(toDev) + 1
    BY <2>1
  <2>3. \A j \in 1 .. Len(toDev') : toDev'[j].id < nextId + 1
    BY <1>2, <1>3, <2>1, <2>2
  <2>4. \A i \in applied : i < nextId + 1
    BY <1>2 DEF Numbered
  <2> QED BY <1>1, <1>2, <1>4, <2>3, <2>4
<1>5. CASE link # "up"
  BY <1>1, <1>2, <1>5 DEF Numbered
<1> QED BY <1>4, <1>5

\* After an exchange the verdict is about the last command, at most.
LEMMA LedNumbers ==
    ASSUME TypeInv, Numbered, Led,
           UNCHANGED <<link, toDev, applied, cmd, nextId>>
    PROVE  Numbered'
<1>1. ~Verifying'
  BY DEF Led, Verifying, Active
<1>2. link = "up" => verdict'.cmd <= cmd
  <2>1. verdict.cmd \in Nat /\ cmd \in Nat
    BY DEF TypeInv, TypeOK
  <2> QED BY <2>1 DEF Led, Numbered
<1> QED BY <1>1, <1>2 DEF Numbered

LEMMA DeviceNumbers ==
    ASSUME TypeInv, Numbered, DeviceExecutes PROVE Numbered'
<1>1. /\ toDev # <<>> /\ toDev' = Tail(toDev)
      /\ UNCHANGED <<link, client>>
      /\ applied' = applied \/ applied' = applied \cup {Head(toDev).id}
  BY DEF DeviceExecutes, Refuse, Reply
<1>2. /\ toDev \in Seq(Requests) /\ Head(toDev) = toDev[1]
      /\ Len(toDev) \in Nat /\ Len(toDev) >= 1 /\ Len(toDev') = Len(toDev) - 1
      /\ \A k \in 1 .. Len(toDev) - 1 : toDev'[k] = toDev[k + 1]
  BY <1>1, NonEmpty DEF TypeInv, TypeOK
<1>3. Head(toDev).id < nextId
  BY <1>2 DEF Numbered
<1>4. \A k \in 1 .. Len(toDev') : toDev'[k].id < nextId
  <2>1. \A k \in 1 .. Len(toDev') :
           k + 1 \in 1 .. Len(toDev) /\ toDev'[k] = toDev[k + 1]
    BY <1>2
  <2> QED BY <2>1 DEF Numbered
<1>5. \A i \in applied' : i < nextId
  BY <1>1, <1>3 DEF Numbered
<1> QED BY <1>1, <1>4, <1>5 DEF Numbered, Verifying, Active, client

LEMMA NumberedStep ==
    ASSUME TypeInv, Numbered, [Next]_vars PROVE Numbered'
<1>0. /\ nextId \in Nat /\ cmd \in Nat /\ verdict.cmd \in Nat
  BY DEF TypeInv, TypeOK
<1>1. CASE Application
  BY <1>1, CallShape DEF Numbered, Verifying, Active, world
<1>2. CASE wsa_send_command
  <2>1. /\ wsa_sock_send(Head(script)) /\ Head(script) \in Kinds
        /\ cmd' = nextId /\ UNCHANGED <<link, applied, verdict>>
    BY <1>2, CommandShape DEF Kinds
  <2>2. link = "up" => verdict.cmd < nextId
    BY <1>0 DEF Numbered
  <2> QED BY <1>0, <2>1, <2>2, SendNumbers DEF Numbered
<1>3. CASE wsa_send_query
  <2>1. /\ wsa_sock_send(QueryKind) /\ QueryKind \in Kinds /\ pc = "send"
        /\ UNCHANGED <<link, applied, verdict, cmd, stage>>
    BY <1>3, QueryShape DEF Kinds
  <2>2. Verifying' => Verifying
    BY <2>1 DEF Verifying, Active
  <2> QED BY <1>0, <2>1, <2>2, SendNumbers DEF Numbered
<1>4. CASE SendRefused
  BY <1>4, RefusedShape DEF Numbered, world
<1>5. ASSUME NEW n \in 1 .. Len(toCli), wsa_sock_recv(n) PROVE Numbered'
  BY <1>5, AnsweredLeads, LedNumbers DEF wsa_sock_recv
<1>6. CASE RecvFails
  <2>1. CASE UNCHANGED <<lates, pc, stage, script, verdict, report>>
    BY <1>6, <2>1, RecvFailsShape DEF Numbered, Verifying, Active
  <2>2. CASE Unanswered("noresponse")
    BY <1>6, <2>2, RecvFailsShape, UnansweredLeads, LedNumbers
  <2> QED BY <1>6, <2>1, <2>2, RecvFailsShape
<1>7. CASE LinkDown
  <2>1. toDev' = <<>> /\ link' = "down" /\ UNCHANGED <<applied, nextId>>
    BY <1>7 DEF LinkDown, client
  <2> QED BY <2>1 DEF Numbered
<1>8. CASE UNCHANGED vars
  BY <1>8 DEF vars, world, client, Numbered, Verifying, Active
<1> QED BY <1>1, <1>2, <1>3, <1>4, <1>5, <1>6, <1>7, <1>8, DeviceNumbers
        DEF Next, Library

(***************************************************************************)
(* The requests under way while no query has been abandoned.                *)
(***************************************************************************)
\* Nothing is under way any more: how an exchange ends, and how the library
\* learns that the connection is lost.
NothingUnderWay ==
    /\ toDev' = <<>> /\ toCli' = <<>>
    /\ pc' \in {"idle", "send", "crashed"}
    /\ pc' = "send" => stage' # "verify"

LEMMA LatesGrow == ASSUME TypeInv, Next PROVE lates' = 0 => lates = 0
<1>1. lates \in Nat
  BY DEF TypeInv, TypeOK
<1>2. lates' = lates \/ lates' = lates + 1
  BY DEF Next, Application, wsa_send_scpi, wsa_query_scpi, wsa_open, Call,
         wsa_do_scpi_command_file, Library, wsa_send_command, wsa_send_query,
         SendRefused, wsa_sock_recv, RecvFails, DeviceExecutes, LinkDown, world
<1> QED BY <1>1, <1>2

LEMMA NotReceiving ==
    ASSUME AnswersInv, lates = 0, pc # "recv"
    PROVE  toCli = <<>> /\ \A k \in 1 .. Len(toDev) : ~IsQuery(toDev[k])
  BY DEF AnswersInv, QueryIsLast, OneAnswer

LEMMA RecvConcludes ==
    ASSUME TypeInv, AnswersInv, lates = 0,
           NEW n \in 1 .. Len(toCli), wsa_sock_recv(n)
    PROVE  /\ NothingUnderWay /\ toCli # <<>> /\ pc = "recv"
           /\ Len(SubSeq(toCli, 1, n)) = 1
           /\ SubSeq(toCli, 1, n)[1] = toCli[1]
           /\ Answered(SubSeq(toCli, 1, n))
           /\ UNCHANGED <<link, errq, applied, lates, orphans, api, cmd, nextId>>
<1>1. /\ Answered(SubSeq(toCli, 1, n)) /\ pc = "recv"
      /\ toCli' = SubSeq(toCli, n + 1, Len(toCli))
      /\ UNCHANGED <<link, toDev, errq, applied, lates, orphans, api, cmd, nextId>>
  BY DEF wsa_sock_recv
<1>2. toCli \in Seq(Answers) /\ Len(toCli) \in Nat /\ toCli # <<>>
  BY DEF TypeInv, TypeOK
<1>3. Len(toCli) = 1 /\ toDev = <<>> /\ n = 1
  <2>1. Len(toCli) = 1 /\ toDev = <<>>
    BY <1>2 DEF AnswersInv, OneAnswer
  <2> QED BY <2>1
<1>4. toCli' = <<>>
  <2>1. SubSeq(toCli, 2, 1) = <<>>
    BY SubSeqEmpty
  <2> QED BY <1>1, <1>3, <2>1
<1>5. Len(SubSeq(toCli, 1, n)) = 1 /\ SubSeq(toCli, 1, n)[1] = toCli[1]
  BY <1>2, <1>3
<1>6. Led
  BY <1>1, AnsweredLeads
<1> QED BY <1>1, <1>2, <1>3, <1>4, <1>5, <1>6 DEF NothingUnderWay, Led

LEMMA GivingUpConcludes ==
    ASSUME TypeInv, RecvFails, Unanswered("noresponse"), lates' = 0,
           lates' = IF UnderWay THEN lates + 1 ELSE lates
    PROVE  NothingUnderWay /\ toDev = <<>> /\ toCli = <<>>
<1>1. ~UnderWay
  BY DEF TypeInv, TypeOK
<1>2. Led
  BY UnansweredLeads
<1> QED BY <1>1, <1>2, RecvFailsShape DEF NothingUnderWay, UnderWay, Led

LEMMA RefusalConcludes ==
    ASSUME TypeInv, LinkLost, AnswersInv, lates = 0, SendRefused
    PROVE  NothingUnderWay
<1>1. toCli = <<>> /\ toDev = <<>> /\ UNCHANGED world
  BY NotReceiving, RefusedShape DEF LinkLost
<1>2. CASE stage = "cmd"
  BY <1>1, <1>2, RefusedShape, LineDoneShape DEF NothingUnderWay, world
<1>3. CASE stage # "cmd"
  BY <1>1, <1>3, RefusedShape, UnansweredLeads DEF NothingUnderWay, world, Led
<1> QED BY <1>2, <1>3

LEMMA NothingLeftToDo ==
    ASSUME NothingUnderWay
    PROVE  SetIsVerified' /\ QueryIsAsked' /\ RefusalAnswered' /\ ~Verifying'
  BY DEF NothingUnderWay, SetIsVerified, QueryIsAsked, RefusalAnswered,
         Verifying, Active

\* What sending a request adds to those under way.
LEMMA SentShape ==
    ASSUME TypeInv, NEW k \in Kinds, wsa_sock_send(k)
    PROVE  /\ \A j \in 1 .. Len(toDev) : j \in 1 .. Len(toDev') /\ toDev'[j] = toDev[j]
           /\ \A j \in 1 .. Len(toDev') :
                 \/ j \in 1 .. Len(toDev) /\ toDev'[j] = toDev[j]
                 \/ /\ j = Len(toDev) + 1
                    /\ toDev'[j].id = nextId /\ toDev'[j].kind = k
           /\ link = "up" => \E j \in 1 .. Len(toDev') : toDev'[j].kind = k
<1> DEFINE r == [id |-> nextId, kind |-> k]
<1>1. toDev' = IF link = "up" THEN Append(toDev, r) ELSE toDev
  BY DEF wsa_sock_send
<1>2. /\ toDev \in Seq(Requests) /\ r \in Requests
      /\ r.id = nextId /\ r.kind = k
  BY DEF TypeInv, TypeOK, Requests
<1> HIDE DEF r
<1>3. CASE link = "up"
  <2>1. /\ Len(toDev') = Len(toDev) + 1 /\ Len(toDev) \in Nat
        /\ \A j \in 1 .. Len(toDev) : toDev'[j] = toDev[j]
        /\ toDev'[Len(toDev) + 1] = r
    BY <1>1, <1>2, <1>3, Appended
  <2>2. \A j \in 1 .. Len(toDev') : j \in 1 .. Len(toDev) \/ j = Len(toDev) + 1
    BY <2>1
  <2>3. \A j \in 1 .. Len(toDev) : j \in 1 .. Len(toDev')
    BY <2>1
  <2>4. Len(toDev) + 1 \in 1 .. Len(toDev')
    BY <2>1
  <2> QED BY <1>2, <1>3, <2>1, <2>2, <2>3, <2>4
<1>4. CASE link # "up"
  BY <1>1, <1>4
<1> QED BY <1>3, <1>4

LEMMA TakenShape ==
    ASSUME TypeInv, DeviceExecutes
    PROVE  /\ toDev \in Seq(Requests) /\ toDev # <<>> /\ toDev' = Tail(toDev)
           /\ Head(toDev) = toDev[1] /\ 1 \in 1 .. Len(toDev)
           /\ \A k \in 1 .. Len(toDev') :
                 k + 1 \in 1 .. Len(toDev) /\ toDev'[k] = toDev[k + 1]
           /\ \A k \in 1 .. Len(toDev) :
                 k # 1 => k - 1 \in 1 .. Len(toDev') /\ toDev'[k - 1] = toDev[k]
           /\ UNCHANGED <<link, lates, client>>
<1>1. toDev # <<>> /\ toDev' = Tail(toDev) /\ UNCHANGED <<link, lates, client>>
  BY DEF DeviceExecutes
<1>2. /\ toDev \in Seq(Requests) /\ Head(toDev) = toDev[1]
      /\ Len(toDev) \in Nat /\ Len(toDev) >= 1 /\ Len(toDev') = Len(toDev) - 1
      /\ \A k \in 1 .. Len(toDev) - 1 : toDev'[k] = toDev[k + 1]
  BY <1>1, NonEmpty DEF TypeInv, TypeOK
<1>3. \A k \in 1 .. Len(toDev') :
         k + 1 \in 1 .. Len(toDev) /\ toDev'[k] = toDev[k + 1]
  BY <1>2
<1>4. \A k \in 1 .. Len(toDev) :
         k # 1 => k - 1 \in 1 .. Len(toDev') /\ toDev'[k - 1] = toDev[k]
  BY <1>2
<1> QED BY <1>1, <1>2, <1>3, <1>4

LEMMA SetStep ==
    ASSUME TypeInv, LinkLost, AnswersInv, Numbered, SetIsVerified,
           [Next]_vars, lates = 0, lates' = 0
    PROVE  SetIsVerified'
<1>1. CASE Application
  BY <1>1, CallShape DEF SetIsVerified, Verifying, Active, world
<1>2. CASE wsa_send_command
  <2>1. /\ Head(script) \in Kinds /\ wsa_sock_send(Head(script)) /\ cmd' = nextId
        /\ stage = "cmd" /\ pc = "send" /\ UNCHANGED applied
        /\ Head(script) = "SET" => pc' = "send" /\ stage' = "verify"
    BY <1>2, CommandShape DEF Kinds
  <2>2. \A k \in 1 .. Len(toDev) : toDev[k].kind # "SET"
    BY <2>1 DEF SetIsVerified, Verifying
  <2>3. nextId \notin applied
    BY DEF Numbered, TypeInv, TypeOK
  <2>4. \A j \in 1 .. Len(toDev') :
           toDev'[j].kind = "SET" =>
             /\ j = Len(toDev) + 1 /\ Head(script) = "SET"
             /\ toDev'[j].id = nextId
    BY <2>1, <2>2, SentShape
  <2> QED BY <2>1, <2>3, <2>4 DEF SetIsVerified, Verifying, Active
<1>3. CASE wsa_send_query
  <2>1. /\ QueryKind \in Kinds /\ wsa_sock_send(QueryKind) /\ QueryKind # "SET"
        /\ pc' = "recv" /\ UNCHANGED <<applied, cmd, stage>>
    BY <1>3, QueryShape DEF Kinds, QueryKinds
  <2>2. \A j \in 1 .. Len(toDev') :
           toDev'[j].kind = "SET" => j \in 1 .. Len(toDev) /\ toDev'[j] = toDev[j]
    BY <2>1, SentShape
  <2> QED BY <2>1, <2>2 DEF SetIsVerified, Verifying, Active
<1>4. CASE SendRefused
  BY <1>4, RefusalConcludes, NothingLeftToDo
<1>5. ASSUME NEW n \in 1 .. Len(toCli), wsa_sock_recv(n) PROVE SetIsVerified'
  BY <1>5, RecvConcludes, NothingLeftToDo
<1>6. CASE RecvFails
  <2>1. CASE UNCHANGED <<lates, pc, stage, script, verdict, report>>
    BY <1>6, <2>1, RecvFailsShape DEF SetIsVerified, Verifying, Active
  <2> QED BY <1>6, <2>1, RecvFailsShape, GivingUpConcludes, NothingLeftToDo
<1>7. CASE DeviceExecutes
  <2> SUFFICES ASSUME NEW k \in 1 .. Len(toDev'), toDev'[k].kind = "SET"
               PROVE  /\ Verifying' /\ toDev'[k].id = cmd' /\ cmd' \notin applied'
                      /\ \A j \in 1 .. Len(toDev') :
                            toDev'[j].kind = "SET" => j = k
    BY DEF SetIsVerified
  <2>1. k \in Nat /\ k + 1 \in 1 .. Len(toDev) /\ toDev[k + 1].kind = "SET"
        /\ toDev'[k] = toDev[k + 1] /\ 1 \in 1 .. Len(toDev) /\ 1 # k + 1
    BY <1>7, TakenShape
  <2>2. /\ Verifying /\ toDev[k + 1].id = cmd /\ cmd \notin applied
        /\ \A j \in 1 .. Len(toDev) : toDev[j].kind = "SET" => j = k + 1
    BY <2>1 DEF SetIsVerified
  <2>3. toDev[1].kind # "SET" /\ Head(toDev) = toDev[1]
    BY <1>7, <2>1, <2>2, TakenShape
  <2>4. applied' = applied /\ UNCHANGED client
    BY <1>7, <2>3 DEF DeviceExecutes, Refuse, Reply
  <2>5. \A j \in 1 .. Len(toDev') : toDev'[j].kind = "SET" => j = k
    <3> TAKE j \in 1 .. Len(toDev')
    <3>1. j + 1 \in 1 .. Len(toDev) /\ toDev'[j] = toDev[j + 1] /\ j \in Nat
      BY <1>7, TakenShape
    <3> QED BY <2>1, <2>2, <3>1
  <2> QED BY <2>1, <2>2, <2>4, <2>5 DEF Verifying, Active, client
<1>8. CASE LinkDown
  <2>1. toDev' = <<>>
    BY <1>8 DEF LinkDown
  <2> QED BY <2>1 DEF SetIsVerified
<1>9. CASE UNCHANGED vars
  BY <1>9 DEF vars, world, client, SetIsVerified, Verifying, Active
<1> QED BY <1>1, <1>2, <1>3, <1>4, <1>5, <1>6, <1>7, <1>8, <1>9 DEF Next, Library

\* A request that is answered is the query in progress.
LEMMA AskedKind ==
    ASSUME TypeInv, AnswersInv, QueryIsAsked, lates = 0, DeviceExecutes,
           IsQuery(Head(toDev))
    PROVE  /\ Head(toDev).kind = QueryKind /\ pc = "recv" /\ toCli = <<>>
           /\ Len(toDev) = 1
<1>1. Head(toDev) = toDev[1] /\ 1 \in 1 .. Len(toDev)
  BY TakenShape
<1> QED BY <1>1 DEF AnswersInv, QueryIsLast, QueryIsAsked

LEMMA AppendedAnswer ==
    ASSUME NEW a PROVE Append(<<>>, a) # <<>> /\ Append(<<>>, a)[1] = a
<1>1. Append(<<>>, a) = <<a>> /\ Len(<<a>>) = 1 /\ <<a>>[1] = a
  OBVIOUS
<1> QED BY <1>1, NotEmpty

LEMMA AskedStep ==
    ASSUME TypeInv, LinkLost, AnswersInv, QueryIsAsked,
           [Next]_vars, lates = 0, lates' = 0
    PROVE  QueryIsAsked'
<1>1. CASE Application
  <2>1. pc = "idle" /\ pc' = "send" /\ UNCHANGED toDev
    BY <1>1, CallShape DEF world
  <2> QED BY <2>1, NotReceiving DEF QueryIsAsked, IsQuery
<1>2. CASE wsa_send_command
  <2>1. /\ Head(script) \in Kinds /\ wsa_sock_send(Head(script)) /\ pc = "send"
        /\ Head(script) \notin QueryKinds /\ pc' # "recv"
    BY <1>2, CommandShape, LineDoneShape DEF Kinds, QueryKinds
  <2>2. \A j \in 1 .. Len(toDev') : ~IsQuery(toDev'[j])
    BY <2>1, SentShape, NotReceiving DEF IsQuery
  <2> QED BY <2>1, <2>2 DEF QueryIsAsked, IsQuery
<1>3. CASE wsa_send_query
  <2>1. /\ QueryKind \in Kinds /\ wsa_sock_send(QueryKind) /\ pc = "send"
        /\ QueryKind' = QueryKind /\ UNCHANGED <<link, stage>>
        /\ stage # "query" => QueryKind \in QueryKinds
    BY <1>3, QueryShape DEF Kinds
  <2>2. \A j \in 1 .. Len(toDev') :
           IsQuery(toDev'[j]) => toDev'[j].kind = QueryKind
    BY <2>1, SentShape, NotReceiving DEF IsQuery
  <2>3. link = "up" /\ stage # "query" =>
           \E j \in 1 .. Len(toDev') : IsQuery(toDev'[j])
    BY <2>1, SentShape DEF IsQuery
  <2> QED BY <2>1, <2>2, <2>3 DEF QueryIsAsked, IsQuery
<1>4. CASE SendRefused
  BY <1>4, RefusalConcludes, NothingLeftToDo
<1>5. ASSUME NEW n \in 1 .. Len(toCli), wsa_sock_recv(n) PROVE QueryIsAsked'
  BY <1>5, RecvConcludes, NothingLeftToDo
<1>6. CASE RecvFails
  <2>1. CASE UNCHANGED <<lates, pc, stage, script, verdict, report>>
    BY <1>6, <2>1, RecvFailsShape DEF QueryIsAsked, IsQuery, QueryKind
  <2> QED BY <1>6, <2>1, RecvFailsShape, GivingUpConcludes, NothingLeftToDo
<1>7. CASE DeviceExecutes
  <2>1. UNCHANGED <<link, pc, stage>> /\ QueryKind' = QueryKind
    BY <1>7, TakenShape DEF client, QueryKind
  <2>2. \A k \in 1 .. Len(toDev') :
           IsQuery(toDev'[k]) => toDev'[k].kind = QueryKind
    BY <1>7, TakenShape DEF QueryIsAsked, IsQuery
  <2>3. ASSUME link = "up", pc = "recv", stage # "query", toCli' = <<>>
        PROVE  \E k \in 1 .. Len(toDev') : IsQuery(toDev'[k])
    <3>1. toCli = <<>>
      BY <1>7, TakenShape DEF AnswersInv, OneAnswer
    <3>2. PICK k \in 1 .. Len(toDev) : IsQuery(toDev[k])
      BY <2>3, <3>1 DEF QueryIsAsked
    <3>3. CASE k # 1
      BY <1>7, <3>2, <3>3, TakenShape DEF IsQuery
    <3>4. CASE k = 1
      <4>1. IsQuery(Head(toDev)) /\ Head(toDev).kind = QueryKind
        BY <1>7, <3>2, <3>4, TakenShape, AskedKind
      <4>2. Head(toDev).kind \in {"ERR", "STB", "ESR", "IDN"}
        BY <2>3, <4>1 DEF QueryKind
      <4>3. \E t : toCli' = Append(<<>>, [id |-> Head(toDev).id, text |-> t])
        BY <1>7, <3>1, <4>2 DEF DeviceExecutes, Reply
      <4> QED BY <2>3, <4>3, AppendedAnswer
    <3> QED BY <3>3, <3>4
  <2> QED BY <2>1, <2>2, <2>3 DEF QueryIsAsked, IsQuery
<1>8. CASE LinkDown
  <2>1. toDev' = <<>> /\ link' = "down"
    BY <1>8 DEF LinkDown
  <2> QED BY <2>1 DEF QueryIsAsked
<1>9. CASE UNCHANGED vars
  BY <1>9 DEF vars, world, client, QueryIsAsked, IsQuery, QueryKind
<1> QED BY <1>1, <1>2, <1>3, <1>4, <1>5, <1>6, <1>7, <1>8, <1>9 DEF Next, Library

(***************************************************************************)
(* The device's error queue.                                                *)
(***************************************************************************)
Errors == [id : Nat, text : ErrorTexts]

LEMMA QueueLength ==
    ASSUME TypeInv
    PROVE  /\ errq \in Seq(Errors) /\ Len(errq) \in Nat /\ orphans \in Nat
           /\ \A e : Len(Append(errq, e)) = Len(errq) + 1
           /\ errq = <<>> => Len(errq) = 0
           /\ errq # <<>> => Len(Pop(errq)) = Len(errq) - 1 /\ Len(errq) >= 1
           /\ errq = <<>> => Pop(errq) = <<>>
<1>1. errq \in Seq(Errors) /\ Len(errq) \in Nat /\ orphans \in Nat
  BY DEF TypeInv, TypeOK, Errors
<1>2. \A e : Len(Append(errq, e)) = Len(errq) + 1
  BY <1>1
<1>3. errq = <<>> => Len(errq) = 0
  <2>1. Len(<<>>) = 0
    OBVIOUS
  <2> QED BY <2>1
<1>4. errq # <<>> => Len(Pop(errq)) = Len(errq) - 1 /\ Len(errq) >= 1
  BY <1>1, NonEmpty DEF Pop
<1> QED BY <1>1, <1>2, <1>3, <1>4 DEF Pop

\* Outside a verification no error is the library's to read.
LEMMA BacklogOutside ==
    ASSUME Backlog, link = "up", ~Verifying \/ Unexecuted \/ toCli # <<>>
    PROVE  Len(errq) <= orphans
  BY DEF Backlog

\* What executing a request does to the errors: a request that is not
\* verified is charged to orphans, and SYST:ERR? takes one.
LEMMA DeviceErrors ==
    ASSUME TypeInv, DeviceExecutes
    PROVE  LET r == Head(toDev) IN
           \/ /\ r.kind = "SET" /\ applied' = applied \cup {r.id}
              /\ UNCHANGED <<toCli, errq, orphans>>
           \/ /\ r.kind = "SET" /\ Len(errq') = Len(errq) + 1
              /\ UNCHANGED <<toCli, applied, orphans>>
           \/ /\ r.kind \in {"DATA", "QRY"} /\ Len(errq') = Len(errq) + 1
              /\ orphans' = orphans + 1 /\ UNCHANGED <<toCli, applied>>
           \/ r.kind = "DATA" /\ UNCHANGED <<toCli, errq, applied, orphans>>
           \/ /\ r.kind \in {"QRY", "STB", "ESR", "IDN"}
              /\ UNCHANGED <<errq, applied, orphans>>
           \/ /\ r.kind = "ERR" /\ errq' = Pop(errq) /\ UNCHANGED <<applied, orphans>>
<1> DEFINE r == Head(toDev)
<1>1. \A e : Len(Append(errq, e)) = Len(errq) + 1
  BY QueueLength
<1>2. ASSUME NEW t, Refuse(r, t)
      PROVE  /\ Len(errq') = Len(errq) + 1 /\ UNCHANGED <<toCli, applied>>
             /\ orphans' = IF r.kind = "SET" THEN orphans ELSE orphans + 1
  BY <1>1, <1>2 DEF Refuse
<1> QED BY <1>2 DEF DeviceExecutes, Reply

LEMMA BacklogStep ==
    ASSUME TypeInv, LinkLost, AnswersInv, SetIsVerified, QueryIsAsked, Backlog,
           [Next]_vars, lates = 0, lates' = 0
    PROVE  Backlog'
<1>1. CASE Application
  <2>1. Backlog' <=> (link = "up" => Len(errq) <= orphans)
    BY <1>1, CallShape DEF Backlog, Verifying, Active, world
  <2> QED BY <1>1, <2>1, CallShape, BacklogOutside DEF Verifying, Active
<1>2. CASE wsa_send_command
  BY <1>2, CommandShape, BacklogOutside DEF Backlog, Verifying
<1>3. CASE wsa_send_query
  <2>1. /\ QueryKind \in Kinds /\ wsa_sock_send(QueryKind) /\ QueryKind # "SET"
        /\ pc = "send" /\ pc' = "recv"
        /\ UNCHANGED <<link, toCli, errq, applied, orphans, cmd, stage>>
    BY <1>3, QueryShape DEF Kinds, QueryKinds
  <2>2. Unexecuted' => Unexecuted
    BY <2>1, SentShape DEF Unexecuted
  <2> QED BY <2>1, <2>2 DEF Backlog, Verifying, Active
<1>4. CASE SendRefused
  BY <1>4, RefusedShape DEF Backlog, world
<1>5. ASSUME NEW n \in 1 .. Len(toCli), wsa_sock_recv(n) PROVE Backlog'
  BY <1>5, RecvConcludes, BacklogOutside DEF Backlog
<1>6. CASE RecvFails
  <2>1. CASE UNCHANGED <<lates, pc, stage, script, verdict, report>>
    BY <1>6, <2>1, RecvFailsShape DEF Backlog, Verifying, Active, Unexecuted
  <2>2. CASE /\ lates' = IF UnderWay THEN lates + 1 ELSE lates
             /\ Unanswered("noresponse")
    <3>1. toDev = <<>> /\ toCli = <<>> /\ pc = "recv"
      BY <1>6, <2>2, GivingUpConcludes, RecvFailsShape
    <3>2. link = "up" => ~Verifying
      <4>1. ~\E k \in 1 .. Len(toDev) : IsQuery(toDev[k])
        BY <3>1
      <4> QED BY <3>1, <4>1 DEF QueryIsAsked, Verifying
    <3> QED BY <1>6, <3>2, RecvFailsShape, BacklogOutside DEF Backlog
  <2> QED BY <1>6, <2>1, <2>2, RecvFailsShape
<1>7. CASE DeviceExecutes
  <2> DEFINE r == Head(toDev)
  <2> SUFFICES ASSUME link = "up"
               PROVE  \/ Len(errq') <= orphans'
                      \/ /\ Verifying /\ ~Unexecuted' /\ toCli' = <<>>
                         /\ cmd \notin applied' /\ Len(errq') <= orphans' + 1
    BY <1>7, TakenShape DEF Backlog, Verifying, Active, client
  <2>1. /\ Len(errq) \in Nat /\ orphans \in Nat /\ toCli = <<>>
        /\ errq = <<>> => Len(errq) = 0
    BY <1>7, QueueLength, TakenShape DEF AnswersInv, OneAnswer
  <2>2. r = toDev[1] /\ 1 \in 1 .. Len(toDev)
    BY <1>7, TakenShape
  <2>3. Unexecuted' => Unexecuted
    BY <1>7, TakenShape DEF Unexecuted
  <2>4. CASE r.kind = "SET"
    <3>1. Unexecuted /\ Verifying /\ cmd \notin applied
      BY <2>2, <2>4 DEF Unexecuted, SetIsVerified
    <3>2. ~Unexecuted'
      <4>1. \A j \in 1 .. Len(toDev) : toDev[j].kind = "SET" => j = 1
        BY <2>2, <2>4 DEF SetIsVerified
      <4>2. \A k \in 1 .. Len(toDev') : k \in Nat /\ k + 1 \in 1 .. Len(toDev)
                                        /\ toDev'[k] = toDev[k + 1]
        BY <1>7, TakenShape
      <4> QED BY <4>1, <4>2 DEF Unexecuted
    <3>3. Len(errq) <= orphans
      BY <3>1, BacklogOutside
    <3> QED BY <1>7, <2>1, <2>4, <3>1, <3>2, <3>3, DeviceErrors
  <2>5. CASE r.kind = "DATA"
    <3>1. /\ toCli' = <<>> /\ applied' = applied
          /\ \/ Len(errq') = Len(errq) + 1 /\ orphans' = orphans + 1
             \/ errq' = errq /\ orphans' = orphans
      BY <1>7, <2>1, <2>5, DeviceErrors
    <3> QED BY <2>1, <2>3, <3>1 DEF Backlog
  <2>6. CASE r.kind = "ERR"
    <3>1. errq' = Pop(errq) /\ orphans' = orphans
      BY <1>7, <2>6, DeviceErrors
    <3>2. Len(errq) <= orphans + 1
      BY <2>1 DEF Backlog
    <3>3. Len(errq') <= orphans
      <4>1. CASE errq = <<>>
        BY <2>1, <3>1, <4>1, QueueLength
      <4>2. CASE errq # <<>>
        BY <2>1, <3>1, <3>2, <4>2, QueueLength
      <4> QED BY <4>1, <4>2
    <3> QED BY <3>1, <3>3
  <2>7. CASE r.kind \in {"QRY", "STB", "ESR", "IDN"}
    <3>1. QueryKind = r.kind
      BY <1>7, <2>7, AskedKind DEF IsQuery, QueryKinds
    <3>2. ~Verifying
      BY <2>7, <3>1 DEF QueryKind, Verifying
    <3>3. Len(errq) <= orphans
      BY <3>2, BacklogOutside
    <3>4. \/ Len(errq') = Len(errq) + 1 /\ orphans' = orphans + 1
          \/ errq' = errq /\ orphans' = orphans
      BY <1>7, <2>7, DeviceErrors
    <3> QED BY <2>1, <3>3, <3>4
  <2> QED BY <1>7, <2>4, <2>5, <2>6, <2>7, DeviceErrors
<1>8. CASE LinkDown
  BY <1>8 DEF LinkDown, Backlog
<1>9. CASE UNCHANGED vars
  BY <1>9 DEF vars, world, client, Backlog, Verifying, Active, Unexecuted
<1> QED BY <1>1, <1>2, <1>3, <1>4, <1>5, <1>6, <1>7, <1>8, <1>9 DEF Next, Library

\* The answer that ends a query, and the error queue it was read from.
LEMMA DeviceAnswers ==
    ASSUME TypeInv, AnswersInv, QueryIsAsked, lates = 0, DeviceExecutes,
           toCli' # <<>>
    PROVE  /\ pc = "recv" /\ applied' = applied /\ orphans' = orphans
           /\ toCli' # <<>>
           /\ stage \in {"verify", "drain"} =>
                 /\ errq = <<>> <=> toCli'[1].text = "No error"
                 /\ errq' = Pop(errq)
           /\ stage = "stb" =>
                 errq' = errq /\ (EvtAvl(toCli'[1].text) <=> errq # <<>>)
<1> DEFINE r == Head(toDev)
<1>1. toCli = <<>>
  BY TakenShape DEF AnswersInv, OneAnswer
<1>2. IsQuery(r) /\ toCli' # toCli
  BY <1>1, OneAnswerEach
<1>3. r.kind = QueryKind /\ pc = "recv"
  BY <1>2, AskedKind
<1>4. ASSUME NEW t, Reply(r, t)
      PROVE  toCli'[1].text = t /\ applied' = applied /\ orphans' = orphans
  <2>1. toCli' = Append(<<>>, [id |-> r.id, text |-> t])
    BY <1>1, <1>4 DEF Reply
  <2>2. toCli'[1] = [id |-> r.id, text |-> t]
    BY <2>1, AppendedAnswer
  <2> QED BY <1>4, <2>2 DEF Reply
<1>5. r.kind # "SET" /\ r.kind # "DATA"
  BY <1>2 DEF IsQuery, QueryKinds
<1>6. applied' = applied /\ orphans' = orphans
  <2>1. \A t : ~Refuse(r, t)
    BY <1>2 DEF Refuse
  <2> QED BY <1>5, <2>1 DEF DeviceExecutes, Reply
<1>7. ASSUME stage \in {"verify", "drain"}
      PROVE  /\ errq = <<>> <=> toCli'[1].text = "No error"
             /\ errq' = Pop(errq)
  <2>1. r.kind = "ERR"
    BY <1>3, <1>7 DEF QueryKind
  <2>2. /\ Reply(r, IF errq = <<>> THEN "No error" ELSE errq[1].text)
        /\ errq' = Pop(errq)
    BY <2>1 DEF DeviceExecutes
  <2>3. errq # <<>> => errq[1].text # "No error"
    <3>1. errq # <<>> => errq[1] \in Errors
      BY QueueLength, NonEmpty
    <3> QED BY <3>1 DEF Errors, ErrorTexts
  <2> QED BY <1>4, <2>2, <2>3
<1>8. ASSUME stage = "stb"
      PROVE  errq' = errq /\ (EvtAvl(toCli'[1].text) <=> errq # <<>>)
  <2>1. r.kind = "STB"
    BY <1>3, <1>8 DEF QueryKind
  <2>2. PICK t \in Numbers : EvtAvl(t) = (errq # <<>>) /\ Reply(r, t)
    BY <2>1 DEF DeviceExecutes
  <2>3. toCli'[1].text = t
    BY <1>4, <2>2
  <2>4. errq' = errq
    BY <2>1 DEF DeviceExecutes
  <2> QED BY <2>2, <2>3, <2>4 DEF EvtAvl
<1> QED BY <1>3, <1>6, <1>7, <1>8

LEMMA ArrivedPrefix ==
    ASSUME TypeInv, LinkDown, toCli' # <<>>
    PROVE  toCli # <<>> /\ toCli'[1] = toCli[1]
<1>1. PICK n \in 0 .. Len(toCli) : toCli' = SubSeq(toCli, 1, n)
  BY DEF LinkDown
<1>2. toCli \in Seq(Answers) /\ Len(toCli) \in Nat
  BY DEF TypeInv, TypeOK
<1>3. n # 0
  <2>1. SubSeq(toCli, 1, 0) = <<>>
    BY SubSeqEmpty
  <2> QED BY <1>1, <2>1
<1>4. toCli'[1] = toCli[1] /\ Len(toCli) # 0
  BY <1>1, <1>2, <1>3
<1> QED BY <1>4, NotEmpty

\* Where only verified requests fail, an error in the queue is that of the
\* command being verified.
LEMMA ErrorIsOwn ==
    ASSUME TypeInv, Backlog, link = "up", orphans = 0, errq # <<>>
    PROVE  cmd \notin applied
<1>1. Len(errq) \in Nat /\ Len(errq) >= 1
  BY QueueLength
<1>2. ~(Len(errq) <= orphans)
  BY <1>1
<1> QED BY <1>2 DEF Backlog

LEMMA RefusalStep ==
    ASSUME TypeInv, LinkLost, AnswersInv, QueryIsAsked, Backlog,
           RefusalAnswered, [Next]_vars, lates = 0, lates' = 0
    PROVE  RefusalAnswered'
<1>1. CASE Application \/ wsa_send_command \/ wsa_send_query
  <2>1. Application => pc # "recv" /\ toCli' = toCli
    BY CallShape DEF world
  <2>2. wsa_send_command \/ wsa_send_query => pc # "recv" /\ toCli' = toCli
    BY CommandShape, QueryShape
  <2>3. toCli' = <<>>
    BY <1>1, <2>1, <2>2, NotReceiving
  <2> QED BY <2>3, Zenon DEF RefusalAnswered
<1>2. CASE SendRefused
  BY <1>2, RefusalConcludes, NothingLeftToDo
<1>3. ASSUME NEW n \in 1 .. Len(toCli), wsa_sock_recv(n) PROVE RefusalAnswered'
  BY <1>3, RecvConcludes, NothingLeftToDo
<1>4. CASE RecvFails
  <2>1. CASE UNCHANGED <<lates, pc, stage, script, verdict, report>>
    <3>1. UNCHANGED <<link, orphans, toCli, cmd, applied, pc, stage>>
      BY <1>4, <2>1, RecvFailsShape
    <3> QED BY <3>1 DEF RefusalAnswered, Verifying, Active
  <2> QED BY <1>4, <2>1, RecvFailsShape, GivingUpConcludes, NothingLeftToDo
<1>5. CASE DeviceExecutes
  <2> SUFFICES ASSUME link = "up", orphans' = 0, Verifying, toCli' # <<>>,
                      toCli'[1].text # "No error"
               PROVE  cmd \notin applied'
    BY <1>5, TakenShape DEF RefusalAnswered, Verifying, Active, client
  <2>1. applied' = applied /\ orphans = 0 /\ errq # <<>>
    BY <1>5, DeviceAnswers DEF Verifying
  <2> QED BY <2>1, ErrorIsOwn
<1>6. CASE LinkDown
  BY <1>6 DEF LinkDown, RefusalAnswered
<1>7. CASE UNCHANGED vars
  BY <1>7 DEF vars, world, client, RefusalAnswered, Verifying, Active
<1> QED BY <1>1, <1>2, <1>3, <1>4, <1>5, <1>6, <1>7 DEF Next, Library

(***************************************************************************)
(* wsa_open empties the queue: it goes on from the status byte, or from a   *)
(* "No error", only when there is nothing left, and then nothing that could *)
(* fail is under way.                                                       *)
(***************************************************************************)
OpenedOk == [api |-> "open", status |-> "ok"]

LEMMA CommandDrain ==
    ASSUME TypeInv, AnswersInv, OpenIsOpening, lates = 0, wsa_send_command
    PROVE  Drained'
<1>1. pc = "send" /\ stage = "cmd" /\ toCli' = toCli
  BY CommandShape
<1>2. toCli' = <<>>
  BY <1>1, NotReceiving
<1>3. api # "open"
  BY <1>1 DEF OpenIsOpening, Active, OpenStages
<1>4. \/ pc' = "send" /\ stage' \in {"verify", "query", "cmd"}
      \/ pc' = "idle" /\ \E t : report' = [api |-> api, status |-> t]
  BY CommandShape, LineDoneShape
<1>5. ~(pc' = "idle" /\ report' = OpenedOk)
  BY <1>3, <1>4 DEF OpenedOk
<1> QED BY <1>2, <1>4, <1>5 DEF Drained, Active, OpenedOk

LEMMA QueryDrain ==
    ASSUME TypeInv, AnswersInv, Drained, lates = 0, wsa_send_query
    PROVE  Drained'
<1>1. /\ QueryKind \in Kinds /\ wsa_sock_send(QueryKind) /\ pc = "send"
      /\ stage # "query" => QueryKind \in QueryKinds
      /\ pc' = "recv" /\ UNCHANGED <<toCli, errq, stage>>
  BY QueryShape DEF Kinds
<1>2. toCli' = <<>>
  BY <1>1, NotReceiving
<1>3. ASSUME stage \in {"esr", "idn"}
      PROVE  errq = <<>> /\ \A j \in 1 .. Len(toDev') : IsQuery(toDev'[j])
  <2>1. errq = <<>> /\ \A k \in 1 .. Len(toDev) : IsQuery(toDev[k])
    BY <1>1, <1>3 DEF Drained, Active
  <2>2. QueryKind \in QueryKinds
    BY <1>1, <1>3
  <2> QED BY <1>1, <2>1, <2>2, SentShape DEF IsQuery
<1> QED BY <1>1, <1>2, <1>3 DEF Drained, Active, IsQuery

\* An exchange that leaves nothing under way need only show the queue empty.
LEMMA ConcludedDrain ==
    ASSUME NothingUnderWay,
           pc' = "send" /\ stage' \in {"esr", "idn"} => errq' = <<>>,
           pc' = "idle" /\ report' = OpenedOk => errq' = <<>>
    PROVE  Drained'
  BY DEF NothingUnderWay, Drained, Active, OpenedOk

LEMMA TextOfOne ==
    ASSUME NEW buf, Len(buf) = 1, NEW t, Has(buf, t) PROVE buf[1].text = t
<1>1. PICK i \in 1 .. Len(buf) : buf[i].text = t
  BY DEF Has
<1>2. i = 1
  OBVIOUS
<1> QED BY <1>1, <1>2

LEMMA RecvDrain ==
    ASSUME TypeInv, AnswersInv, OpenIsOpening, Drained, lates = 0,
           NEW n \in 1 .. Len(toCli), wsa_sock_recv(n)
    PROVE  Drained'
<1> DEFINE buf == SubSeq(toCli, 1, n)
<1>1. /\ NothingUnderWay /\ toCli # <<>> /\ pc = "recv" /\ Answered(buf)
      /\ Len(buf) = 1 /\ buf[1] = toCli[1] /\ errq' = errq /\ api' = api
  BY RecvConcludes
<1> HIDE DEF buf
<1>2. Has(buf, "No error") => toCli[1].text = "No error"
  BY <1>1, TextOfOne
<1>3. ASSUME pc' = "send", stage' \in {"esr", "idn"} PROVE errq = <<>>
  <2>1. \/ stage = "stb" /\ ~EvtAvl(buf[1].text)
        \/ stage = "drain" /\ Has(buf, "No error")
        \/ stage = "esr"
    BY <1>1, <1>3, AnsweredLeads
  <2> QED BY <1>1, <1>2, <2>1 DEF Drained, Active
<1>4. ASSUME pc' = "idle", report' = OpenedOk PROVE errq = <<>>
  <2>1. stage = "idn" \/ (api = "open" /\ stage \in {"query", "verify"})
    BY <1>1, <1>4, AnsweredLeads DEF OpenedOk
  <2>2. stage = "idn"
    BY <1>1, <2>1 DEF OpenIsOpening, Active, OpenStages
  <2> QED BY <1>1, <2>2 DEF Drained, Active
<1> QED BY <1>1, <1>3, <1>4, ConcludedDrain

LEMMA UnansweredDrain ==
    ASSUME NothingUnderWay, OpenIsOpening, Active,
           NEW s \in {"noresponse", "sockerr"}, Unanswered(s)
    PROVE  Drained'
<1>1. pc' = "send" => stage' \notin {"esr", "idn"}
  BY UnansweredLeads
<1>2. ~(pc' = "idle" /\ report' = OpenedOk)
  BY UnansweredLeads DEF OpenIsOpening, OpenStages, OpenedOk
<1> QED BY <1>1, <1>2, ConcludedDrain

LEMMA RefusedDrain ==
    ASSUME TypeInv, LinkLost, AnswersInv, OpenIsOpening, lates = 0, SendRefused
    PROVE  Drained'
<1>1. NothingUnderWay /\ Active
  BY RefusalConcludes, RefusedShape DEF Active
<1>2. CASE stage = "cmd"
  <2>1. api # "open"
    BY <1>1, <1>2 DEF OpenIsOpening, OpenStages
  <2>2. LineDone("sockerr")
    BY <1>2, RefusedShape
  <2>3. \/ pc' = "send" /\ stage' \in {"query", "cmd"}
        \/ pc' = "idle" /\ \E t : report' = [api |-> api, status |-> t]
    BY <2>2, LineDoneShape
  <2>4. ~(pc' = "idle" /\ report' = OpenedOk)
    BY <2>1, <2>3 DEF OpenedOk
  <2> QED BY <1>1, <2>3, <2>4, ConcludedDrain
<1>3. CASE stage # "cmd"
  <2>1. Unanswered("sockerr")
    BY <1>3, RefusedShape
  <2> QED BY <1>1, <2>1, UnansweredDrain
<1> QED BY <1>2, <1>3

LEMMA DeviceDrain ==
    ASSUME TypeInv, AnswersInv, QueryIsAsked, Drained, lates = 0, DeviceExecutes
    PROVE  Drained'
<1>1. UNCHANGED <<pc, stage, report>>
  BY TakenShape DEF client
<1>2. ASSUME Active, stage = "stb", toCli' # <<>>
      PROVE  EvtAvl(toCli'[1].text) <=> errq' # <<>>
  BY <1>2, DeviceAnswers
<1>3. ASSUME Active, stage = "drain", toCli' # <<>>, toCli'[1].text = "No error"
      PROVE  errq' = <<>>
  <2>1. errq = <<>> /\ errq' = Pop(errq)
    BY <1>3, DeviceAnswers
  <2> QED BY <2>1 DEF Pop
<1>4. ASSUME Active, stage \in {"esr", "idn"}
      PROVE  errq' = <<>> /\ \A k \in 1 .. Len(toDev') : IsQuery(toDev'[k])
  <2>1. errq = <<>> /\ \A k \in 1 .. Len(toDev) : IsQuery(toDev[k])
    BY <1>4 DEF Drained
  <2>2. IsQuery(Head(toDev))
    BY <2>1, TakenShape
  <2>3. Head(toDev).kind = QueryKind
    BY <2>2, AskedKind
  <2>4. Head(toDev).kind \in {"ESR", "IDN"}
    BY <1>4, <2>3 DEF QueryKind
  <2>5. errq' = errq
    BY <2>4 DEF DeviceExecutes
  <2>6. \A k \in 1 .. Len(toDev') : IsQuery(toDev'[k])
    BY <2>1, TakenShape
  <2> QED BY <2>1, <2>5, <2>6
<1>5. ~(pc = "idle" /\ report = OpenedOk)
  BY TakenShape DEF Drained, OpenedOk
<1> QED BY <1>1, <1>2, <1>3, <1>4, <1>5 DEF Drained, Active, OpenedOk, IsQuery

LEMMA DrainedStep ==
    ASSUME TypeInv, LinkLost, AnswersInv, OpenIsOpening, QueryIsAsked, Drained,
           [Next]_vars, lates = 0, lates' = 0
    PROVE  Drained'
<1>1. CASE Application
  <2>1. /\ pc = "idle" /\ pc' = "send" /\ stage' \notin {"esr", "idn"}
        /\ toCli' = toCli
    BY <1>1, CallShape DEF world
  <2>2. toCli' = <<>>
    BY <2>1, NotReceiving
  <2> QED BY <2>1, <2>2 DEF Drained, Active
<1>2. CASE RecvFails
  <2>1. CASE UNCHANGED <<lates, pc, stage, script, verdict, report>>
    <3>1. UNCHANGED <<toDev, toCli, errq, pc, stage, report>>
      BY <1>2, <2>1, RecvFailsShape
    <3> QED BY <3>1 DEF Drained, Active, IsQuery
  <2>2. CASE /\ lates' = IF UnderWay THEN lates + 1 ELSE lates
             /\ Unanswered("noresponse")
    <3>1. NothingUnderWay /\ Active
      BY <1>2, <2>2, GivingUpConcludes, RecvFailsShape DEF Active
    <3> QED BY <2>2, <3>1, UnansweredDrain
  <2> QED BY <1>2, <2>1, <2>2, RecvFailsShape
<1>3. CASE LinkDown
  <2>1. toDev' = <<>> /\ UNCHANGED <<errq, pc, stage, report>>
    BY <1>3 DEF LinkDown, client
  <2>2. toCli' # <<>> => toCli # <<>> /\ toCli'[1] = toCli[1]
    BY <1>3, ArrivedPrefix
  <2>3. ASSUME Active, stage = "stb", toCli' # <<>>
        PROVE  EvtAvl(toCli'[1].text) <=> errq # <<>>
    BY <2>2, <2>3 DEF Drained
  <2>4. ASSUME Active, stage = "drain", toCli' # <<>>, toCli'[1].text = "No error"
        PROVE  errq = <<>>
    BY <2>2, <2>4 DEF Drained
  <2>5. /\ Active /\ stage \in {"esr", "idn"} => errq = <<>>
        /\ pc = "idle" /\ report = OpenedOk => errq = <<>>
    BY DEF Drained, OpenedOk
  <2>6. \A k \in 1 .. Len(toDev') : IsQuery(toDev'[k])
    BY <2>1
  <2>7. Active' = Active
    BY <2>1 DEF Active
  <2> QED BY <2>1, <2>3, <2>4, <2>5, <2>6, <2>7 DEF Drained, OpenedOk, IsQuery
<1>4. CASE UNCHANGED vars
  BY <1>4 DEF vars, world, client, Drained, Active, IsQuery
<1> QED BY <1>1, <1>2, <1>3, <1>4, CommandDrain, QueryDrain, RefusedDrain,
           RecvDrain, DeviceDrain DEF Next, Library

(***************************************************************************)
(* A reported failure.  The verdict is about an earlier command than the    *)
(* one under way, so that nothing applies the command it is about later.    *)
(***************************************************************************)
Failed(v) == v.status \in {"setfailed", "conflict"}

LEMMA FailedStep ==
    ASSUME TypeInv, AnswersInv, Numbered, SetIsVerified, RefusalAnswered,
           FailedMeansRefused, [Next]_vars, lates = 0, lates' = 0
    PROVE  FailedMeansRefused'
<1> SUFFICES ASSUME orphans' = 0, link' = "up", Failed(verdict')
             PROVE  verdict'.cmd \notin applied'
  BY DEF FailedMeansRefused, Failed
<1>1. CASE UNCHANGED <<verdict, applied, orphans, link>>
  BY <1>1 DEF FailedMeansRefused, Failed
<1>2. CASE Application \/ UNCHANGED vars
  <2>1. UNCHANGED <<verdict, applied, orphans, link>>
    BY <1>2, CallShape DEF vars, world, client
  <2> QED BY <1>1, <2>1
<1>3. CASE wsa_send_command \/ wsa_send_query
  <2>1. UNCHANGED <<verdict, applied, orphans, link>>
    BY <1>3, CommandShape, QueryShape
  <2> QED BY <1>1, <2>1
<1>4. CASE SendRefused \/ LinkDown
  BY <1>4, RefusedShape DEF LinkDown, world
<1>5. ASSUME NEW n \in 1 .. Len(toCli), wsa_sock_recv(n)
      PROVE  verdict'.cmd \notin applied'
  <2> DEFINE buf == SubSeq(toCli, 1, n)
  <2>1. /\ Answered(buf) /\ toCli # <<>> /\ pc = "recv"
        /\ Len(buf) = 1 /\ buf[1] = toCli[1]
        /\ UNCHANGED <<link, applied, orphans, cmd>>
    BY <1>5, RecvConcludes
  <2> HIDE DEF buf
  <2>2. CASE verdict' = verdict
    BY <1>1, <2>1, <2>2
  <2>3. CASE /\ stage = "verify"
             /\ verdict' = [cmd |-> cmd, status |-> Verdict(buf)]
    <3>1. ~Has(buf, "No error")
      BY <2>3 DEF Failed, Verdict
    <3>2. toCli[1].text # "No error"
      <4>1. 1 \in 1 .. Len(buf) /\ buf[1] = toCli[1]
        BY <2>1
      <4> QED BY <3>1, <4>1 DEF Has
    <3>3. link = "up" /\ orphans = 0 /\ Verifying /\ toCli # <<>>
      BY <2>1, <2>3 DEF Verifying, Active
    <3>4. cmd \notin applied
      BY <3>2, <3>3 DEF RefusalAnswered
    <3> QED BY <2>1, <2>3, <3>4
  <2> QED BY <2>1, <2>2, <2>3, AnsweredSettles DEF Settled
<1>6. CASE RecvFails
  <2>1. UNCHANGED <<applied, orphans, link>>
    BY <1>6, RecvFailsShape
  <2>2. CASE verdict' = verdict
    BY <1>1, <2>1, <2>2
  <2>3. CASE verdict' = [cmd |-> cmd, status |-> VerdictOfFailure("noresponse")]
    BY <2>3 DEF Failed, VerdictOfFailure
  <2> QED BY <1>6, <2>2, <2>3, RecvFailsShape, UnansweredSettles DEF Settled
<1>7. CASE DeviceExecutes
  <2>1. /\ UNCHANGED <<link, verdict>> /\ orphans = 0
        /\ \/ applied' = applied
           \/ applied' = applied \cup {Head(toDev).id} /\ Head(toDev).kind = "SET"
    <3>1. UNCHANGED <<link, verdict>>
      BY <1>7, TakenShape DEF client
    <3>2. orphans' = orphans \/ orphans' = orphans + 1
      BY <1>7 DEF DeviceExecutes, Refuse, Reply
    <3>3. orphans = 0
      BY <3>2 DEF TypeInv, TypeOK
    <3>4. \/ applied' = applied
          \/ applied' = applied \cup {Head(toDev).id} /\ Head(toDev).kind = "SET"
      BY <1>7 DEF DeviceExecutes, Refuse, Reply
    <3> QED BY <3>1, <3>3, <3>4
  <2>2. verdict.cmd \notin applied
    BY <2>1 DEF FailedMeansRefused, Failed
  <2>3. Head(toDev).kind = "SET" => verdict.cmd # Head(toDev).id
    <3> SUFFICES ASSUME Head(toDev).kind = "SET"
                 PROVE  verdict.cmd # Head(toDev).id
      OBVIOUS
    <3>1. Verifying /\ Head(toDev).id = cmd
      BY <1>7, TakenShape DEF SetIsVerified
    <3>2. verdict.cmd < cmd /\ verdict.cmd \in Nat /\ cmd \in Nat
      BY <2>1, <3>1 DEF Numbered, TypeInv, TypeOK
    <3> QED BY <3>1, <3>2
  <2> QED BY <2>1, <2>2, <2>3
<1> QED BY <1>2, <1>3, <1>4, <1>5, <1>6, <1>7 DEF Next, Library

-----------------------------------------------------------------------------
(***************************************************************************)
(* The theorems.                                                            *)
(***************************************************************************)
LEMMA InitErrors == Init => ErrorsInv
<1> SUFFICES ASSUME Init PROVE ErrorsInv
  OBVIOUS
<1>1. /\ toDev = <<>> /\ toCli = <<>> /\ pc = "idle" /\ applied = {}
      /\ verdict = [cmd |-> 0, status |-> "none"] /\ cmd = 0 /\ nextId = 1
      /\ report = [api |-> "none", status |-> "none"]
  BY DEF Init
<1>2. OpenIsOpening /\ Numbered
  BY <1>1 DEF OpenIsOpening, Numbered, Verifying, Active
<1>3. SetIsVerified /\ QueryIsAsked /\ RefusalAnswered
  BY <1>1 DEF SetIsVerified, QueryIsAsked, RefusalAnswered, Verifying, Active
<1>4. Backlog
  <2>1. PICK n \in 0 .. MaxErrors :
           /\ errq = [i \in 1 .. n |-> [id |-> 0, text |-> "-222"]]
           /\ orphans = n
    BY DEF Init
  <2>2. n \in Nat
    BY ChannelAssumption
  <2>3. Len(errq) = n
    BY <2>1, <2>2
  <2> QED BY <2>1, <2>2, <2>3 DEF Backlog
<1>5. Drained /\ FailedMeansRefused
  BY <1>1 DEF Drained, Active, FailedMeansRefused
<1> QED BY <1>2, <1>3, <1>4, <1>5 DEF ErrorsInv

LEMMA ErrorsStep ==
    ASSUME TypeInv, LinkLost, AnswersInv, ErrorsInv, [Next]_vars
    PROVE  ErrorsInv'
<1>1. OpenIsOpening' /\ Numbered'
  BY OpeningStep, NumberedStep DEF ErrorsInv
<1>2. lates' = 0 => lates = 0
  BY LatesGrow DEF vars, world
<1>3. ASSUME lates' = 0
      PROVE  /\ SetIsVerified' /\ QueryIsAsked' /\ Backlog'
             /\ RefusalAnswered' /\ Drained' /\ FailedMeansRefused'
  <2>1. /\ lates = 0 /\ OpenIsOpening /\ Numbered /\ SetIsVerified
        /\ QueryIsAsked /\ Backlog /\ RefusalAnswered /\ Drained
        /\ FailedMeansRefused
    BY <1>2, <1>3 DEF ErrorsInv
  <2>2. SetIsVerified' /\ QueryIsAsked'
    BY <1>3, <2>1, SetStep, AskedStep
  <2>3. Backlog' /\ RefusalAnswered'
    BY <1>3, <2>1, BacklogStep, RefusalStep
  <2>4. Drained' /\ FailedMeansRefused'
    BY <1>3, <2>1, DrainedStep, FailedStep
  <2> QED BY <2>2, <2>3, <2>4
<1>4. lates' # 0 => FailedMeansRefused'
  BY DEF FailedMeansRefused
<1> QED BY <1>1, <1>3, <1>4 DEF ErrorsInv

\* The whole invariant of the channel is kept by every step: the matching of
\* the answers, the account of the command being verified, and the whereabouts
\* of every error in the device's queue.
THEOREM ChannelKept == Spec => []ChannelInv
<1>1. Init => LinkLost /\ AnswersInv /\ ErrorsInv
  BY InitChannel, InitErrors DEF Init, LinkLost
<1>2. TypeInv /\ LinkLost /\ AnswersInv /\ ErrorsInv /\ [Next]_vars =>
          LinkLost' /\ AnswersInv' /\ ErrorsInv'
  BY LinkLostStep, StepChannel, ErrorsStep
<1>3. AnswersInv /\ ErrorsInv => ChannelInv
  BY DEF ChannelInv
<1> QED BY <1>1, <1>2, <1>3, TypeCorrect, PTL DEF Spec

\* A set command wsa_send_command reports as failed has not been executed,
\* when no query was abandoned and no unverified request ever failed.
THEOREM FailedIsRefused == Spec => []FailedMeansRefused
<1>1. ChannelInv => FailedMeansRefused
  BY DEF ChannelInv, ErrorsInv
<1> QED BY <1>1, ChannelKept, PTL

\* Between calls the device's error queue holds no more than the errors of
\* requests the library never verifies.
THEOREM BacklogIsBounded == Spec => []ErrorBacklogBounded
<1>1. ChannelInv => ErrorBacklogBounded
  BY DEF ChannelInv, ErrorsInv, ErrorBacklogBounded, Backlog, Verifying, Active
<1> QED BY <1>1, ChannelKept, PTL

\* wsa_open that succeeds leaves the device's error queue empty.
THEOREM OpenDrains == Spec => []OpenDrainsErrors
<1>1. ChannelInv => OpenDrainsErrors
  BY DEF ChannelInv, ErrorsInv, OpenDrainsErrors, Drained
<1> QED BY <1>1, ChannelKept, PTL

\* The device's settings change only while a call is in progress, as long as
\* no query was abandoned.
THEOREM NoEffectIsLate == Spec => NoLateEffect
<1>1. ASSUME ChannelInv, TypeInv, [Next]_vars
      PROVE  [lates = 0 /\ pc = "idle" => applied' = applied]_vars
  <2> SUFFICES ASSUME Next, lates = 0, pc = "idle" PROVE applied' = applied
    BY <1>1
  <2>1. CASE DeviceExecutes
    <3>1. toDev[1].kind # "SET" \/ 1 \notin 1 .. Len(toDev)
      BY <1>1 DEF ChannelInv, ErrorsInv, SetIsVerified, Verifying, Active
    <3>2. Head(toDev).kind # "SET"
      BY <1>1, <2>1, <3>1, TakenShape
    <3> QED BY <2>1, <3>2 DEF DeviceExecutes, Refuse, Reply
  <2>2. CASE Application
    BY <1>1, <2>2, CallShape DEF world
  <2>3. CASE Library
    BY <1>1, <2>3 DEF Library, wsa_send_command, wsa_send_query, SendRefused,
                      wsa_sock_recv, RecvFails
  <2>4. CASE LinkDown
    BY <2>4 DEF LinkDown
  <2> QED BY <2>1, <2>2, <2>3, <2>4 DEF Next
<1> QED BY <1>1, ChannelKept, TypeCorrect, PTL DEF Spec, NoLateEffect

=============================================================================
