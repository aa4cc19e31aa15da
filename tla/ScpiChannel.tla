---------------------------- MODULE ScpiChannel ----------------------------
(***************************************************************************)
(* The SCPI command socket of the C API (api/src/wsa_lib.c): what           *)
(* wsa_send_command, wsa_send_query, wsa_send_command_file and the queries  *)
(* made by wsa_connect put on the TCP connection, and how they match what   *)
(* comes back.                                                              *)
(*                                                                          *)
(* The socket is a byte stream without framing or request numbers.  A query *)
(* is sent once and the client then makes RecvLimit attempts of TIMEOUT     *)
(* milliseconds to receive something; whatever is in the socket when an     *)
(* attempt succeeds is taken as the answer, several late answers in one     *)
(* read included.  Nothing is drained when a query is abandoned.  Every set *)
(* command is followed by a SYST:ERR? query, whose answer decides what the  *)
(* caller is told.                                                          *)
(*                                                                          *)
(* The request numbers below are a history: the program has none.           *)
(***************************************************************************)
EXTENDS Integers, Sequences, FiniteSets

CONSTANTS
    MaxCalls,   \* API calls made in a session (a bound of the model)
    MaxLate,    \* answers that may come after their query was abandoned
    MaxErrors,  \* errors the device's error queue holds (a bound of the model)
    Scripts     \* contents of the command files: sequences of line kinds

(***************************************************************************)
(* The kinds of request: a set command, a command whose text contains       *)
(* "DATA?", an application query, and the four queries of the library.      *)
(***************************************************************************)
LineKinds == {"SET", "DATA", "QRY"}
QueryKinds == {"QRY", "ERR", "STB", "ESR", "IDN"}
Kinds == {"SET", "DATA"} \cup QueryKinds

ASSUME ChannelAssumption ==
    /\ MaxCalls \in Nat /\ MaxLate \in Nat /\ MaxErrors \in Nat
    /\ Scripts \subseteq Seq(LineKinds)

(***************************************************************************)
(* Texts the device answers with.  The numbers are status bytes: bit 0x04   *)
(* (error/event available) is set in "4" and "36", bit 0x20 (event status)  *)
(* in "32" and "36".  An application query answers a number here, so that a *)
(* misplaced answer can pass for a status byte.                             *)
(***************************************************************************)
ErrorTexts == {"-221", "-222"}
Numbers == {"0", "4", "32", "36"}
Texts == ErrorTexts \cup Numbers \cup {"No error", "ThinkRF,WSA5000"}

EvtAvl(t) == t \in {"4", "36"}
EsrBit(t) == t \in {"32", "36"}

RecvLimit == 5

VARIABLES
    link,     \* "up", or "down" once the connection is lost
    toDev,    \* requests on their way to the device
    toCli,    \* answers on their way to the client, or in its socket buffer
    errq,     \* the device's error queue: numbers of the requests that failed
    applied,  \* numbers of the set commands the device has executed
    lates,    \* exchanges abandoned while their answer was still to come
    orphans,  \* errors logged by requests the client does not verify
    pc,       \* "idle", "send", "recv", or "crashed"
    api,      \* the call in progress: "scpi", "query", "file", "open"
    stage,    \* the request being made
    script,   \* the command file's lines that are left
    esr,      \* bit 0x20 of the status byte _wsa_query_stb has read
    tries,    \* receive attempts made for the query in progress
    cur,      \* number of the query in progress
    cmd,      \* number of the last set command
    nextId,   \* number of the next request
    calls,    \* calls made
    answer,   \* the last answer accepted: to which query, from which requests
    verdict,  \* what the last verification said of which command
    report    \* what the last call returned

world == <<link, toDev, toCli, errq, applied, lates, orphans>>
client == <<pc, api, stage, script, esr, tries, cur, cmd, nextId, calls,
            answer, verdict, report>>
vars == <<world, client>>

Stages == {"cmd", "verify", "query", "stb", "drain", "esr", "idn"}
Statuses == {"none", "bytes", "lines", "ok", "conflict", "setfailed",
             "noresponse", "sockerr", "unknown"}

Requests == [id : Nat, kind : Kinds]
Answers == [id : Nat, text : Texts]

TypeOK ==
    /\ link \in {"up", "down"}
    /\ toDev \in Seq(Requests) /\ toCli \in Seq(Answers)
    /\ errq \in Seq([id : Nat, text : ErrorTexts])
    /\ applied \subseteq Nat
    /\ lates \in Nat /\ orphans \in Nat
    /\ pc \in {"idle", "send", "recv", "crashed"}
    /\ api \in {"scpi", "query", "file", "open"}
    /\ stage \in Stages
    /\ script \in Seq(LineKinds)
    /\ esr \in BOOLEAN
    /\ tries \in 0 .. RecvLimit
    /\ cur \in Nat /\ cmd \in Nat /\ nextId \in Nat /\ calls \in Nat
    /\ answer \in [to : Nat, from : Seq(Nat)]
    /\ verdict \in [cmd : Nat, status : Statuses]
    /\ report \in [api : {"none", "scpi", "query", "file", "open"},
                   status : Statuses]

(***************************************************************************)
(* The device may hold errors of an earlier session when the client         *)
(* connects: their request number is 0.                                     *)
(***************************************************************************)
Init ==
    /\ link = "up" /\ toDev = <<>> /\ toCli = <<>>
    /\ \E n \in 0 .. MaxErrors :
          /\ errq = [i \in 1 .. n |-> [id |-> 0, text |-> "-222"]]
          /\ orphans = n
    /\ applied = {} /\ lates = 0
    /\ pc = "idle" /\ api = "scpi" /\ stage = "cmd" /\ script = <<>>
    /\ esr = FALSE /\ tries = 0 /\ cur = 0 /\ cmd = 0 /\ nextId = 1
    /\ calls = 0
    /\ answer = [to |-> 0, from |-> <<>>]
    /\ verdict = [cmd |-> 0, status |-> "none"]
    /\ report = [api |-> "none", status |-> "none"]

-----------------------------------------------------------------------------
(***************************************************************************)
(* The calls of the application.                                            *)
(***************************************************************************)
LineStage(inFile, kind) ==
    IF kind = "QRY" \/ (inFile /\ kind = "DATA") THEN "query" ELSE "cmd"

Call(a, lines, st) ==
    /\ pc = "idle" /\ calls < MaxCalls
    /\ calls' = calls + 1
    /\ pc' = "send" /\ api' = a /\ script' = lines /\ stage' = st
    /\ UNCHANGED <<world, esr, tries, cur, cmd, nextId, answer, verdict, report>>

wsa_send_scpi(kind) == Call("scpi", <<kind>>, LineStage(FALSE, kind))
wsa_query_scpi == Call("query", <<"QRY">>, "query")
wsa_do_scpi_command_file ==
    \E s \in Scripts :
        s # <<>> /\ Call("file", s, LineStage(TRUE, Head(s)))
wsa_open == Call("open", <<>>, "stb")

-----------------------------------------------------------------------------
(***************************************************************************)
(* How a procedure ends: it returns, or goes on with its next request.      *)
(***************************************************************************)
Return(status) ==
    /\ pc' = "idle"
    /\ report' = [api |-> api, status |-> status]
    /\ UNCHANGED <<stage, script>>

GoOn(st) ==
    /\ pc' = "send" /\ stage' = st
    /\ UNCHANGED <<script, report>>

Failures == {"setfailed", "conflict", "noresponse", "sockerr", "unknown"}

(***************************************************************************)
(* A line of a command file is done: wsa_send_command_file stops at the     *)
(* first negative result and returns the number of lines when the last line *)
(* was a query, but what wsa_send_command returned when it was a command.   *)
(***************************************************************************)
MutRetryLine(status) ==
    IF status \in Failures
      THEN pc' = "send" /\ UNCHANGED <<stage, script, report>>
      ELSE Return(status)
LineDone(status) ==
    IF api = "file" /\ status \notin Failures
      THEN IF Len(script) > 1
             THEN /\ pc' = "send" /\ script' = Tail(script)
                  /\ stage' = LineStage(TRUE, script[2])
                  /\ UNCHANGED report
             ELSE Return(IF status = "ok" THEN "lines" ELSE status)
      ELSE Return(status)

Has(buf, t) == \E i \in 1 .. Len(buf) : buf[i].text = t

(***************************************************************************)
(* What wsa_query_error and wsa_send_command make of the text read for      *)
(* SYST:ERR?: "No error" anywhere in it means there is none.                *)
(***************************************************************************)
MutConflictIsSuccess(buf) ==
    IF Has(buf, "No error") \/ Has(buf, "-221") THEN "bytes" ELSE "setfailed"
MutNoErrorIsAnError(buf) ==
    IF Has(buf, "-221") THEN "conflict" ELSE "setfailed"
MutVerdictUnset(buf) ==
    IF Has(buf, "No error") THEN "bytes"
    ELSE IF Has(buf, "-221") THEN "conflict" ELSE "unset"
Verdict(buf) ==
    IF Has(buf, "No error") THEN "bytes"
    ELSE IF Has(buf, "-221") THEN "conflict" ELSE "setfailed"

(***************************************************************************)
(* wsa_query_error failed: its text is the message of the error, "Query     *)
(* returns no response" for a timeout.                                      *)
(***************************************************************************)
VerdictOfFailure(status) ==
    IF status = "noresponse" THEN "noresponse" ELSE "setfailed"

Verified(v) ==
    /\ verdict' = [cmd |-> cmd, status |-> v]
    /\ LineDone(v)
    /\ UNCHANGED esr

(***************************************************************************)
(* _wsa_query_stb: a status byte that is not one integer is refused.        *)
(***************************************************************************)
IsInteger(buf) == Len(buf) = 1 /\ buf[1].text \in Numbers

StbRead(buf) ==
    /\ IF ~IsInteger(buf)
         THEN Return("unknown") /\ UNCHANGED esr
         ELSE /\ esr' = EsrBit(buf[1].text)
              /\ GoOn(IF EvtAvl(buf[1].text) THEN "drain"
                      ELSE IF EsrBit(buf[1].text) THEN "esr" ELSE "idn")
    /\ UNCHANGED verdict

(***************************************************************************)
(* The loop that empties the device's error queue ends only on an empty     *)
(* text.                                                                    *)
(***************************************************************************)
MutDrainOnce(clear) ==
    GoOn(IF esr THEN "esr" ELSE "idn") /\ UNCHANGED <<esr, verdict>>
MutDrainWithoutAsking(clear) ==
    /\ IF clear THEN GoOn(IF esr THEN "esr" ELSE "idn")
                ELSE pc' = "recv" /\ UNCHANGED <<stage, script, report>>
    /\ UNCHANGED <<esr, verdict>>
ErrorRead(clear) ==
    /\ GoOn(IF ~clear THEN "drain" ELSE IF esr THEN "esr" ELSE "idn")
    /\ UNCHANGED <<esr, verdict>>

EsrRead(buf) ==
    /\ IF IsInteger(buf) THEN GoOn("idn") ELSE Return("unknown")
    /\ UNCHANGED <<esr, verdict>>

(***************************************************************************)
(* _wsa_dev_init splits the answer at commas without looking at the status  *)
(* of the query: with anything but an identification, strtok_r returns NULL *)
(* and strstr or strcpy dereferences it.                                    *)
(***************************************************************************)
IdnRead(buf) ==
    /\ IF Has(buf, "ThinkRF,WSA5000")
         THEN Return("ok")
         ELSE pc' = "crashed" /\ UNCHANGED <<stage, script, report>>
    /\ UNCHANGED <<esr, verdict>>

Answered(buf) ==
    \/ stage = "query" /\ LineDone("ok") /\ UNCHANGED <<esr, verdict>>
    \/ stage = "verify" /\ Verified(Verdict(buf))
    \/ stage = "stb" /\ StbRead(buf)
    \/ stage = "drain" /\ ErrorRead(Has(buf, "No error"))
    \/ stage = "esr" /\ EsrRead(buf)
    \/ stage = "idn" /\ IdnRead(buf)

Unanswered(status) ==
    \/ stage = "query" /\ LineDone(status) /\ UNCHANGED <<esr, verdict>>
    \/ stage = "verify" /\ Verified(VerdictOfFailure(status))
    \/ stage \in {"stb", "esr"} /\ Return(status) /\ UNCHANGED <<esr, verdict>>
    \/ stage = "drain" /\ ErrorRead(FALSE)
    \/ stage = "idn" /\ IdnRead(<<>>)

-----------------------------------------------------------------------------
(***************************************************************************)
(* Sending.  wsa_sock_send hands the whole text to the socket; over a lost  *)
(* connection the kernel may still take it, or refuse it.                   *)
(***************************************************************************)
MutSendTwice(kind) ==
    /\ toDev' = IF link = "up"
                  THEN toDev \o <<[id |-> nextId, kind |-> kind],
                                  [id |-> nextId, kind |-> kind]>>
                  ELSE toDev
    /\ nextId' = nextId + 1
wsa_sock_send(kind) ==
    /\ toDev' = IF link = "up"
                  THEN Append(toDev, [id |-> nextId, kind |-> kind]) ELSE toDev
    /\ nextId' = IF link = "up" THEN nextId + 1 ELSE nextId

MutVerifiesNothing(kind) == FALSE
NeedsVerify(kind) == kind # "DATA"

(***************************************************************************)
(* wsa_send_command: the text is sent, and unless it asks for data it is    *)
(* followed by SYST:ERR?.                                                   *)
(***************************************************************************)
wsa_send_command ==
    /\ pc = "send" /\ stage = "cmd"
    /\ wsa_sock_send(Head(script))
    /\ cmd' = nextId
    /\ IF NeedsVerify(Head(script)) THEN GoOn("verify") ELSE LineDone("bytes")
    /\ UNCHANGED <<link, toCli, errq, applied, lates, orphans,
                   api, esr, tries, cur, calls, answer, verdict>>

QueryKind ==
    IF stage = "query" THEN Head(script)
    ELSE IF stage = "stb" THEN "STB"
    ELSE IF stage = "esr" THEN "ESR"
    ELSE IF stage = "idn" THEN "IDN"
    ELSE "ERR"

wsa_send_query ==
    /\ pc = "send" /\ stage # "cmd"
    /\ wsa_sock_send(QueryKind)
    /\ cur' = nextId
    /\ pc' = "recv" /\ tries' = 0
    /\ UNCHANGED <<link, toCli, errq, applied, lates, orphans,
                   api, stage, script, esr, cmd, calls, answer, verdict, report>>

SendRefused ==
    /\ pc = "send" /\ link = "down"
    /\ IF stage = "cmd"
         THEN LineDone("sockerr") /\ UNCHANGED <<esr, verdict>>
         ELSE Unanswered("sockerr")
    /\ UNCHANGED <<world, api, tries, cur, cmd, nextId, calls, answer>>

-----------------------------------------------------------------------------
(***************************************************************************)
(* Receiving.  One recv call takes all that has arrived: a non-empty prefix *)
(* of the answers on their way.  An answer arrives whole: it is a line that  *)
(* the device sends at once and that fits a segment, but nothing in the code *)
(* waits for its end.                                                       *)
(***************************************************************************)
wsa_sock_recv(n) ==
    /\ pc = "recv" /\ n <= Len(toCli)
    /\ toCli' = SubSeq(toCli, n + 1, Len(toCli))
    /\ answer' = [to |-> cur, from |-> [i \in 1 .. n |-> toCli[i].id]]
    /\ Answered(SubSeq(toCli, 1, n))
    /\ UNCHANGED <<link, toDev, errq, applied, lates, orphans,
                   api, tries, cur, cmd, nextId, calls>>

(***************************************************************************)
(* An attempt ends without data: select timed out, or the connection is     *)
(* gone and there is nothing left to read.  The last attempt abandons the   *)
(* query.  It is counted in lates when requests or answers are still under  *)
(* way; MaxLate bounds how often that happens.                              *)
(***************************************************************************)
UnderWay == toDev # <<>> \/ toCli # <<>>

RecvFails ==
    /\ pc = "recv"
    /\ link = "down" => toCli = <<>>
    /\ IF tries + 1 < RecvLimit
         THEN /\ tries' = tries + 1
              /\ UNCHANGED <<lates, pc, stage, script, esr, verdict, report>>
         ELSE /\ UnderWay => lates < MaxLate
              /\ lates' = IF UnderWay THEN lates + 1 ELSE lates
              /\ tries' = 0
              /\ Unanswered("noresponse")
    /\ UNCHANGED <<link, toDev, toCli, errq, applied, orphans,
                   api, cur, cmd, nextId, calls, answer>>

-----------------------------------------------------------------------------
(***************************************************************************)
(* The device, as the client's code uses it: it executes requests in the    *)
(* order they arrive.  SYST:ERR? answers and removes the oldest error; a    *)
(* request it refuses logs an error and is not answered.                    *)
(***************************************************************************)
Pop(s) == IF s = <<>> THEN s ELSE Tail(s)

Refuse(r, t) ==
    /\ Len(errq) < MaxErrors
    /\ errq' = Append(errq, [id |-> r.id, text |-> t])
    /\ orphans' = IF r.kind = "SET" THEN orphans ELSE orphans + 1
    /\ UNCHANGED <<toCli, applied>>

Reply(r, t) ==
    /\ toCli' = Append(toCli, [id |-> r.id, text |-> t])
    /\ UNCHANGED <<applied, orphans>>

DeviceExecutes ==
    /\ toDev # <<>>
    /\ toDev' = Tail(toDev)
    /\ LET r == Head(toDev) IN
         \/ /\ r.kind = "SET" /\ applied' = applied \cup {r.id}
            /\ UNCHANGED <<toCli, errq, orphans>>
         \/ r.kind = "SET" /\ \E t \in ErrorTexts : Refuse(r, t)
         \/ r.kind = "DATA" /\ UNCHANGED <<toCli, errq, applied, orphans>>
         \/ r.kind \in {"DATA", "QRY"} /\ Refuse(r, "-222")
         \/ r.kind = "QRY" /\ Reply(r, "0") /\ UNCHANGED errq
         \/ /\ r.kind = "ERR"
            /\ Reply(r, IF errq = <<>> THEN "No error" ELSE errq[1].text)
            /\ errq' = Pop(errq)
         \/ /\ r.kind = "STB"
            /\ \E t \in Numbers : EvtAvl(t) = (errq # <<>>) /\ Reply(r, t)
            /\ UNCHANGED errq
         \/ r.kind = "ESR" /\ Reply(r, "0") /\ UNCHANGED errq
         \/ r.kind = "IDN" /\ Reply(r, "ThinkRF,WSA5000") /\ UNCHANGED errq
    /\ UNCHANGED <<link, lates, client>>

(***************************************************************************)
(* The connection is lost: what has not reached the device never will, and  *)
(* of the answers only a prefix has arrived.                                *)
(***************************************************************************)
LinkDown ==
    /\ link = "up" /\ link' = "down"
    /\ toDev' = <<>>
    /\ \E n \in 0 .. Len(toCli) : toCli' = SubSeq(toCli, 1, n)
    /\ UNCHANGED <<errq, applied, lates, orphans, client>>

-----------------------------------------------------------------------------
Application ==
    \/ \E k \in {"SET", "DATA"} : wsa_send_scpi(k)
    \/ wsa_query_scpi
    \/ wsa_do_scpi_command_file
    \/ wsa_open

Library ==
    \/ wsa_send_command \/ wsa_send_query \/ SendRefused
    \/ \E n \in 1 .. Len(toCli) : wsa_sock_recv(n)
    \/ RecvFails

Next == Application \/ Library \/ DeviceExecutes \/ LinkDown

Spec == Init /\ [][Next]_vars

(***************************************************************************)
(* A call in progress goes on: select returns after at most TIMEOUT.  The   *)
(* application need not make calls, and nothing is assumed of the device.   *)
(***************************************************************************)
FairSpec == Spec /\ WF_vars(Library)

-----------------------------------------------------------------------------
(***************************************************************************)
(* Properties                                                               *)
(***************************************************************************)
IsQuery(r) == r.kind \in QueryKinds

\* Answers the device still owes the client: one per query on its way, and
\* those on their way back.
Queries(requests) == {k \in 1 .. Len(requests) : IsQuery(requests[k])}
Owed == Cardinality(Queries(toDev)) + Len(toCli)

\* As long as no query was abandoned while its answer was under way, what
\* wsa_send_query takes as the answer is one answer, that to the query it
\* has just sent, although nothing on the wire says so.
OwnAnswers == lates = 0 /\ answer.to # 0 => answer.from = <<answer.to>>

\* Every abandoned query leaves at most one answer behind: the number of
\* answers that can be mistaken for others never exceeds lates.
StaleAnswersBounded == Owed <= lates + (IF pc = "recv" THEN 1 ELSE 0)

\* When no query was abandoned, a set command for which wsa_send_command
\* returns the number of bytes sent has been executed by the device.
DoneMeansApplied ==
    lates = 0 /\ verdict.status = "bytes" => verdict.cmd \in applied

\* Why these two hold, as an inductive invariant (AnswersInv, proved in
\* ScpiChannelProofs).  A query is the last request on its way and no answer
\* is under way when it is sent, so that there is one answer at most; and the
\* command being verified is still to be executed, has been, or has its error
\* in the queue, so that "No error" can only be read once it is applied.
QueryIsLast ==
    \A k \in 1 .. Len(toDev) :
        IsQuery(toDev[k]) =>
            k = Len(toDev) /\ toDev[k].id = cur /\ pc = "recv" /\ toCli = <<>>

OneAnswer ==
    toCli # <<>> =>
        Len(toCli) = 1 /\ toDev = <<>> /\ toCli[1].id = cur /\ pc = "recv"

Accounted(i) ==
    \/ \E k \in 1 .. Len(toDev) : toDev[k].id = i /\ toDev[k].kind = "SET"
    \/ i \in applied
    \/ \E k \in 1 .. Len(errq) : errq[k].id = i

CommandAccounted ==
    stage = "verify" /\ pc \in {"send", "recv"} =>
        /\ link = "up" /\ toCli = <<>> => Accounted(cmd)
        /\ toCli # <<>> /\ toCli[1].text = "No error" => cmd \in applied

AnswersInv ==
    /\ lates = 0 => QueryIsLast /\ OneAnswer /\ CommandAccounted
    /\ OwnAnswers /\ DoneMeansApplied

\* When moreover no unverified request ever failed and the connection
\* stands, a set command reported to have failed has not been executed:
\* the error is its own and not one left in the device's queue.
FailedMeansRefused ==
    lates = 0 /\ orphans = 0 /\ link = "up"
    /\ verdict.status \in {"setfailed", "conflict"}
        => verdict.cmd \notin applied

\* The verification after each command pops what the command logged: between
\* calls the device's queue holds no more errors than were logged by
\* requests the library does not verify.
ErrorBacklogBounded ==
    lates = 0 /\ pc = "idle" /\ link = "up" => Len(errq) <= orphans

\* wsa_open returns with the device's error queue emptied.
OpenDrainsErrors ==
    lates = 0 /\ pc = "idle" /\ report = [api |-> "open", status |-> "ok"]
        => errq = <<>>

\* Unless a query was abandoned, the device's settings do not change between
\* two calls: a command that returned has been executed or refused.
NoLateEffect ==
    [][lates = 0 /\ pc = "idle" => applied' = applied]_vars

\* Why these four hold, as an inductive invariant (ErrorsInv, proved with
\* AnswersInv in ScpiErrorsProofs).  A set command on its way is the one being
\* verified; it may hold one error more in the device's queue than the
\* unverified requests logged, from the moment it is refused until SYST:ERR?
\* is answered; and wsa_open goes on to *ESR? and *IDN? only with an empty
\* queue and no request on its way that could fail.
Active == pc \in {"send", "recv"}
Verifying == Active /\ stage = "verify"
Unexecuted == \E k \in 1 .. Len(toDev) : toDev[k].kind = "SET"

OpenStages == {"stb", "drain", "esr", "idn"}
OpenIsOpening == Active => (api = "open" <=> stage \in OpenStages)

Numbered ==
    /\ \A k \in 1 .. Len(toDev) : toDev[k].id < nextId
    /\ \A i \in applied : i < nextId
    /\ link = "up" =>
          /\ verdict.cmd <= cmd /\ cmd < nextId
          /\ Verifying => verdict.cmd < cmd

SetIsVerified ==
    \A k \in 1 .. Len(toDev) :
        toDev[k].kind = "SET" =>
            /\ Verifying /\ toDev[k].id = cmd /\ cmd \notin applied
            /\ \A j \in 1 .. Len(toDev) : toDev[j].kind = "SET" => j = k

QueryIsAsked ==
    /\ \A k \in 1 .. Len(toDev) :
          IsQuery(toDev[k]) => toDev[k].kind = QueryKind
    /\ link = "up" /\ pc = "recv" /\ stage # "query" /\ toCli = <<>> =>
          \E k \in 1 .. Len(toDev) : IsQuery(toDev[k])

Backlog ==
    link = "up" =>
        \/ Len(errq) <= orphans
        \/ /\ Verifying /\ ~Unexecuted /\ toCli = <<>> /\ cmd \notin applied
           /\ Len(errq) <= orphans + 1

RefusalAnswered ==
    link = "up" /\ orphans = 0 /\ Verifying /\ toCli # <<>> =>
        (toCli[1].text # "No error" => cmd \notin applied)

Drained ==
    /\ Active /\ stage = "stb" /\ toCli # <<>> =>
          (EvtAvl(toCli[1].text) <=> errq # <<>>)
    /\ Active /\ stage = "drain" /\ toCli # <<>> =>
          (toCli[1].text = "No error" => errq = <<>>)
    /\ Active /\ stage \in {"esr", "idn"} =>
          errq = <<>> /\ \A k \in 1 .. Len(toDev) : IsQuery(toDev[k])
    /\ pc = "idle" /\ report = [api |-> "open", status |-> "ok"] =>
          errq = <<>> /\ toDev = <<>>

ErrorsInv ==
    /\ OpenIsOpening /\ Numbered
    /\ lates = 0 => /\ SetIsVerified /\ QueryIsAsked /\ Backlog
                   /\ RefusalAnswered /\ Drained
    /\ FailedMeansRefused

\* The two together: what the proofs about the channel rest on.
ChannelInv == AnswersInv /\ ErrorsInv

\* Every call but wsa_open returns, whatever the device does.
CallsReturn ==
    (pc \in {"send", "recv"} /\ api # "open") ~> (pc = "idle")

\* wsa_open returns (or crashes on a missing identification) if the device
\* executes what it is sent and the connection stands: the loop that empties
\* the error queue ends.
OpenReturns ==
    WF_vars(DeviceExecutes) =>
        ((pc \in {"send", "recv"} /\ api = "open")
            ~> (pc \in {"idle", "crashed"} \/ link = "down"))

\* What the comment in wsa_send_command says of the query it makes: a set
\* command that returns success was done without any error.
SetVerified == verdict.status = "bytes" => verdict.cmd \in applied

\* What wsa_send_command_file documents: the number of lines at success.
FileReturnsLines ==
    report.api = "file" /\ report.status \notin Failures
        => report.status = "lines"

\* What wsa_open documents: 0 or a negative number is returned.
OpenNeverCrashes == pc # "crashed"

=============================================================================
