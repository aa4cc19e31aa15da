----------------------------- MODULE Instrument -----------------------------
(***************************************************************************)
(* The calls of api/src/wsa_api.c that get and set what the instrument holds:*)
(* its settings, the sweep list, and whether it captures, sweeps or streams. *)
(* A call is one or several exchanges on the command socket; ScpiChannel     *)
(* has that socket in detail, here an exchange is a request, the             *)
(* instrument's step and the receipt.  The answers are only told apart by    *)
(* their order, and an exchange may be abandoned while its answer is to come.*)
(*                                                                          *)
(* told, before and ret are histories: what the application may believe of   *)
(* the settings from what the calls returned to it, the state when the call  *)
(* in progress began, and what the last call returned.                       *)
(***************************************************************************)
EXTENDS SweepList, FiniteSets

CONSTANTS
    Sessions,   \* what a session is about: the settings "focus", the calls "ops",
                \* the product "model", and sizes of the sweep list at first
    Candidates, \* for each setting, values the application asks for
    Holds,      \* for each setting, values the instrument may hold at first:
                \* the one of a reset, and others
    Ids,        \* identifiers of sweep entries asked for
    StartIds,   \* identifiers of sweeps and streams asked for
    UIntMax,    \* the largest of them
    MaxCalls,   \* calls made in a session (a bound of the model)
    MaxLate,    \* answers that may come after their query was abandoned
    MaxEntries  \* length of the sweep list (a bound of the model)

ASSUME InstrumentAssumption ==
    /\ Ids \subseteq Int /\ MaxEntries \in Nat /\ MaxLate \in Nat
    /\ \A S \in Sessions : S.sizes \subseteq 0 .. MaxEntries

LanSettings == {"lan_config", "lan_ip", "lan_netmask", "lan_gateway", "lan_dns"}
ReadOnly == {"acq_access", "acq_status", "spec_inv", "lock_ref_pll", "lock_rf",
             "temperature", "sweep_entry_size", "sweep_status"}

Rows(d) ==
    [lan_config |-> wsa_lan_config, lan_ip |-> wsa_lan_ip,
     lan_netmask |-> wsa_lan_netmask, lan_gateway |-> wsa_lan_gateway,
     lan_dns |-> wsa_lan_dns,
     acq_access |-> wsa_system_request_acq_access,
     acq_status |-> wsa_system_acq_status,
     samples_per_packet |-> wsa_samples_per_packet,
     packets_per_block |-> wsa_packets_per_block,
     decimation |-> wsa_decimation,
     freq |-> wsa_freq(d), freq_shift |-> wsa_freq_shift,
     spec_inv |-> wsa_spec_inv,
     attenuation |-> wsa_attenuation(d),
     rfe_input_mode |-> wsa_rfe_input_mode,
     iq_output_mode |-> wsa_iq_output_mode,
     trigger_level |-> wsa_trigger_level(d), trigger_type |-> wsa_trigger_type,
     trigger_sync_delay |-> wsa_trigger_sync_delay,
     trigger_sync_state |-> wsa_trigger_sync_state,
     reference_pll |-> wsa_reference_pll,
     lock_ref_pll |-> wsa_lock_ref_pll, lock_rf |-> wsa_lock_rf,
     temperature |-> wsa_temperature,
     sweep_attenuation |-> wsa_sweep_attenuation,
     sweep_rfe_input_mode |-> wsa_sweep_rfe_input_mode,
     sweep_samples_per_packet |-> wsa_sweep_samples_per_packet,
     sweep_packets_per_block |-> wsa_sweep_packets_per_block,
     sweep_decimation |-> wsa_sweep_decimation,
     sweep_freq |-> wsa_sweep_freq(d),
     sweep_freq_shift |-> wsa_sweep_freq_shift,
     sweep_freq_step |-> wsa_sweep_freq_step(d),
     sweep_dwell |-> wsa_sweep_dwell,
     sweep_trigger_level |-> wsa_sweep_trigger_level(d),
     sweep_trigger_type |-> wsa_sweep_trigger_type,
     sweep_trigger_sync_delay |-> wsa_sweep_trigger_sync_delay,
     sweep_iteration |-> wsa_sweep_iteration,
     sweep_entry_size |-> wsa_get_sweep_entry_size,
     sweep_status |-> wsa_get_sweep_status]

\* The set functions of two settings do not send the value they are given:
\* that of the synchronisation state writes the pointer, that of the name
\* servers leaves the second out.
APointer == <<Num(123456)>>
Written(s, v) ==
    IF s = "trigger_sync_state" THEN APointer
    ELSE IF s = "lan_dns" THEN <<v[1]>> ELSE v

\* A text of a setting: as many fields as its get function reads.
Fits(d, s, text) == text \in Seq(Anything) /\ Len(text) = Len(Rows(d)[s].gives)

\* What the instrument holds at first, and what it is sent, are such texts.
ASSUME TextsAssumption ==
    \A S \in Sessions :
        LET d == wsa_dev_init(S.model) IN
        /\ S.focus \subseteq DOMAIN Rows(d) /\ DOMAIN Holds = DOMAIN Rows(d)
        /\ \A s \in DOMAIN Holds :
              /\ 1 \in DOMAIN Holds[s]
              /\ \A i \in DOMAIN Holds[s] : Fits(d, s, Holds[s][i])
        /\ \A s \in S.focus \ ReadOnly : \A v \in Candidates[s] :
              Fits(d, s, Written(s, v))

\* The parameters of a set function whose get function reads numbers are
\* integers, those it reads as an int no wider than that.
ASSUME ParametersAssumption ==
    \A S \in Sessions :
        LET d == wsa_dev_init(S.model) IN
        \A s \in S.focus \ ReadOnly : \A v \in Candidates[s] :
            LET gives == Rows(d)[s].gives IN
            \A k \in DOMAIN gives :
                /\ gives[k].as = "double" => v[k] \in Numbers(Int)
                /\ gives[k].as = "int" => v[k] \in Numbers(-IntMax - 1 .. IntMax)

VARIABLES
    session,  \* the product and the settings and calls this session is about
    link,     \* "up", or "down" once the connection is lost
    toDev,    \* requests on their way to the instrument
    toCli,    \* answers on their way to the client
    values,   \* what the instrument holds, by setting
    current,  \* the LAN configuration in force
    list,     \* the sweep list: entries, by setting of the template
    running,  \* what the instrument does: "BLOCK", "SWEEPING" or "STREAMING"
    errs,     \* errors in the instrument's queue
    lates,    \* exchanges abandoned while their answer was still to come
    orphans,  \* errors logged by requests that are not verified
    pc,       \* "idle", "send", "recv" or "crashed"
    call,     \* the call in progress: [op, s, v]
    stage,    \* the exchange of it that is being made
    told, before, ret,
    calls     \* calls made

device == <<values, current, list, running, errs, orphans>>
wires == <<link, toDev, toCli, lates>>
client == <<pc, call, stage, told, before, ret, calls>>
vars == <<session, device, wires, client>>

Descr == wsa_dev_init(session.model)
RowOf(s) == Rows(Descr)[s]
Settable == session.focus \ ReadOnly

Unknown == <<>>
Request(op, s, v) == [op |-> op, s |-> s, v |-> v]
NoRet == [op |-> "none", s |-> "none", v |-> <<>>, status |-> "none", out |-> <<>>]

Template == [t \in TemplateSettings |->
                IF t \in session.focus THEN values[t] ELSE Holds[t][1]]

Init ==
    /\ session \in Sessions
    /\ link = "up" /\ toDev = <<>> /\ toCli = <<>>
    /\ \E i \in UNION {DOMAIN Holds[s] : s \in DOMAIN Holds} :
          values = [s \in session.focus |->
                        Holds[s][IF i \in DOMAIN Holds[s] THEN i ELSE 1]]
    /\ current = [s \in LanSettings |-> Holds[s][1]]
    /\ \E n \in session.sizes : list = [i \in 1 .. n |-> Template]
    /\ running = "BLOCK" /\ errs = 0 /\ lates = 0 /\ orphans = 0
    /\ pc = "idle" /\ call = Request("none", "none", <<>>) /\ stage = "none"
    /\ told = [s \in session.focus |-> Unknown]
    /\ before = [values |-> values, list |-> list, running |-> running, told |-> told]
    /\ ret = NoRet /\ calls = 0

-----------------------------------------------------------------------------
(***************************************************************************)
(* How a call begins and returns.                                           *)
(***************************************************************************)
Answer(c, status, out) ==
    [op |-> c.op, s |-> c.s, v |-> c.v, status |-> status, out |-> out]

Begin(op, s, v) ==
    /\ pc = "idle" /\ calls < MaxCalls /\ op \in session.ops
    /\ calls' = calls + 1
    /\ call' = Request(op, s, v)
    /\ before' = [values |-> values, list |-> list, running |-> running,
                  told |-> told]
    /\ UNCHANGED <<session, device, wires>>

GoOn(st) ==
    /\ pc' = "send" /\ stage' = st
    /\ UNCHANGED <<told, ret>>

AtOnce(status, out) ==
    /\ ret' = Answer(call', status, out)
    /\ UNCHANGED <<pc, stage, told>>

\* What the application may believe of a setting afterwards.  A command that
\* was sent and not answered leaves it in doubt; a copied or new template
\* leaves all of it in doubt.
Lost == {"noresponse", "sockerr"}

ToldAfter(status, out) ==
    [s \in session.focus |->
        IF call.op = "set" /\ call.s = s
          THEN IF status = "bytes" THEN call.v
               ELSE IF status \in Lost THEN Unknown ELSE told[s]
        ELSE IF call.op = "get" /\ call.s = s /\ status = "ok"
                /\ call.v = <<>> /\ \A k \in DOMAIN out : out[k] # Unwritten
          THEN out
        ELSE IF \/ call.op \in {"entry_copy", "entry_new"}
                      /\ s \in TemplateSettings /\ status \in Lost \cup {"bytes"}
                \/ call.op = "reset_pll" /\ s = "reference_pll"
                      /\ status \in Lost \cup {"bytes"}
          THEN Unknown
        ELSE told[s]]

Return(status, out) ==
    /\ pc' = "idle"
    /\ ret' = Answer(call, status, out)
    /\ told' = ToldAfter(status, out)
    /\ UNCHANGED stage

-----------------------------------------------------------------------------
(***************************************************************************)
(* The calls.                                                               *)
(***************************************************************************)
Set(s, v) ==
    /\ Begin("set", s, v)
    /\ LET refusal == Refusal(RowOf(s), v) IN
         IF refusal = "ok" THEN GoOn("set") ELSE AtOnce(refusal, <<>>)

\* The attenuation of an R5500 is not asked for.
NotAsked(s) == s = "attenuation" /\ Descr.prod_model = "R5500"

Get(s) ==
    /\ Begin("get", s, <<>>)
    /\ IF NotAsked(s) THEN AtOnce("ok", <<Unwritten>>) ELSE GoOn("get")

\* The LAN settings are asked for as they are in force, or as they are set.
GetLan(s, config) ==
    /\ s \in LanSettings
    /\ Begin("get", s, <<Word(config)>>)
    /\ IF config = "CURRENT" THEN GoOn("get")
       ELSE AtOnce("INVRFEINPUTMODE", <<>>)

wsa_sweep_entry_delete(id) == Begin("entry_delete", "none", <<Num(id)>>)
                                  /\ GoOn("count")
wsa_sweep_entry_copy(id) == Begin("entry_copy", "none", <<Num(id)>>)
                                  /\ GoOn("count")
wsa_sweep_entry_save(id) == Begin("entry_save", "none", <<Num(id)>>)
                                  /\ GoOn("count")
ReadEntry(id) == Begin("entry_read", "none", <<Num(id)>>) /\ GoOn("count")

wsa_sweep_start_id(id) == Begin("sweep_start_id", "none", <<Num(id)>>)
                                  /\ GoOn("mode")
wsa_stream_start_id(id) == Begin("stream_start_id", "none", <<Num(id)>>)
                                  /\ GoOn("mode")
wsa_sweep_stop == Begin("sweep_stop", "none", <<>>) /\ GoOn("mode")
wsa_stream_stop == Begin("stream_stop", "none", <<>>) /\ GoOn("mode")
wsa_flush_data == Begin("flush", "none", <<>>) /\ GoOn("status")

\* Calls that are one command.
PlainCommands == {"entry_delete_all", "entry_new", "sweep_start", "stream_start",
                  "abort", "lan_apply", "reset_pll", "capture_block"}
Command(op) ==
    op \in PlainCommands /\ Begin(op, "none", <<>>) /\ GoOn("command")

-----------------------------------------------------------------------------
(***************************************************************************)
(* Sending.  A command is sent with the SYST:ERR? that verifies it, but for  *)
(* the capture of a block, whose text contains "DATA?".                      *)
(***************************************************************************)
Asks ==
    IF stage \in {"count", "count2"} THEN Request("GET", "sweep_entry_size", <<>>)
    ELSE IF stage = "status" THEN Request("GET", "sweep_status", <<>>)
    ELSE IF stage = "mode" THEN Request("GET", "capture_mode", <<>>)
    ELSE IF stage = "entry" THEN Request("GET", "entry", call.v)
    ELSE IF stage = "get" THEN Request("GET", call.s, call.v)
    ELSE IF stage = "set" THEN Request("SET", call.s, Written(call.s, call.v))
    ELSE Request("CMD", call.op, call.v)

Verification == Request("ERR", "none", <<>>)

MutVerifiesFirst ==
    IF stage \in {"set", "command"} THEN <<Verification, Asks>> ELSE <<Asks>>
MutVerifiesTwice ==
    IF stage \in {"set", "command"} THEN <<Asks, Verification, Verification>>
    ELSE <<Asks>>
Sends ==
    IF stage \notin {"set", "command"} THEN <<Asks>>
    ELSE IF call.op = "capture_block" THEN <<Asks>>
    ELSE <<Asks, Verification>>

Send ==
    /\ pc = "send"
    /\ toDev' = IF link = "up" THEN toDev \o Sends ELSE toDev
    /\ IF call.op = "capture_block" THEN Return("bytes", <<>>)
       ELSE pc' = "recv" /\ UNCHANGED <<stage, told, ret>>
    /\ UNCHANGED <<session, device, link, toCli, lates, call, before, calls>>

-----------------------------------------------------------------------------
(***************************************************************************)
(* What a call does with the outcome of its query: status "answered" and the *)
(* fields of the text, or how the query failed.                              *)
(***************************************************************************)
Outcome(row, q) ==
    IF q.status = "answered" THEN ReadOut(row, q.text)
    ELSE [status |-> q.status, out |-> <<>>]

Id == call.v[1].n

Says(q, w) == Word(w) \in {q.text[k] : k \in DOMAIN q.text}

MutAnyAnswer(q) == "bytes"
Verdict(q) ==
    IF q.status = "noresponse" THEN "noresponse"
    ELSE IF q.status = "sockerr" THEN "setfailed"
    ELSE IF Says(q, "No error") THEN "bytes" ELSE "setfailed"

\* Both stops return 0 when their command went through.  wsa_sweep_stop cleans
\* the data socket before that, which fails for want of memory only.
Verified(q) ==
    Return(IF Verdict(q) = "bytes" /\ call.op \in {"sweep_stop", "stream_stop"}
             THEN "ok" ELSE Verdict(q), <<>>)

\* The size of the list, asked for first by the functions on entries.
SizeKnown(r, size) ==
    \/ /\ call.op = "entry_delete"
       /\ IF r.status # "ok" THEN Return("SWEEPENTRYDELETEFAIL", <<>>)
          ELSE IF OutOfList(Id, size) THEN Return("SWEEPIDOOB", <<>>)
          ELSE GoOn("command")
    \/ /\ call.op = "entry_save"
       /\ IF r.status # "ok" THEN Return(r.status, <<>>)
          ELSE IF OutOfSave(Id, size) THEN Return("SWEEPIDOOB", <<>>)
          ELSE GoOn("command")
    \/ /\ call.op = "entry_read"
       /\ IF r.status # "ok" THEN Return(r.status, <<>>)
          ELSE IF OutOfList(Id, size) THEN Return("SWEEPIDOOB", <<>>)
          ELSE GoOn("entry")
    \/ /\ call.op = "sweep_start_id"
       /\ IF r.status # "ok" THEN Return(r.status, <<>>)
          ELSE IF size <= 0 THEN Return("SWEEPLISTEMPTY", <<>>)
          ELSE IF Id \notin 0 .. UIntMax THEN Return("INVSWEEPSTARTID", <<>>)
          ELSE GoOn("command")
    \* wsa_sweep_entry_copy compares before it looks at the result.
    \/ /\ call.op = "entry_copy"
       /\ IF OutOfList(Id, size) THEN Return("SWEEPIDOOB", <<>>)
          ELSE GoOn("count2")

SizeRead(q) ==
    LET r == Outcome(wsa_get_sweep_entry_size, q)
    IN  SizeKnown(r, IF r.status = "ok" THEN r.out[1].n ELSE 0)

\* wsa_sweep_entry_copy asks again.
SizeReadAgain(q) ==
    LET r == Outcome(wsa_get_sweep_entry_size, q)
    IN  IF r.status # "ok" THEN Return(r.status, <<>>)
        ELSE IF r.out[1].n = 0 THEN Return("SWEEPLISTEMPTY", <<>>)
        ELSE GoOn("command")

\* wsa_get_capture_mode succeeds whatever is answered, and assigns nothing: its
\* callers compare what their variable happens to hold.
wsa_get_capture_mode(q) == {"SWEEPING", "STREAMING", "something else"}

ModeCompared(mode) ==
    \/ /\ call.op = "sweep_start_id"
       /\ IF mode = "SWEEPING" THEN Return("SWEEPALREADYRUNNING", <<>>)
          ELSE IF mode = "STREAMING" THEN Return("SWEEPWHILESTREAMING", <<>>)
          ELSE GoOn("count")
    \/ /\ call.op = "stream_start_id"
       /\ IF mode = "STREAMING" THEN Return("STREAMALREADYRUNNING", <<>>)
          ELSE IF mode = "SWEEPING" THEN Return("STREAMWHILESWEEPING", <<>>)
          ELSE IF Id \notin 0 .. UIntMax THEN Return("INVSTREAMSTARTID", <<>>)
          ELSE GoOn("command")
    \/ /\ call.op = "sweep_stop"
       /\ IF mode # "SWEEPING" THEN Return("SWEEPNOTRUNNING", <<>>)
          ELSE GoOn("command")
    \/ /\ call.op = "stream_stop"
       /\ IF mode # "STREAMING" THEN Return("STREAMNOTRUNNING", <<>>)
          ELSE GoOn("command")

MutFlushesAnyway(q) ==
    LET r == Outcome(wsa_get_sweep_status, q)
    IN  IF r.status # "ok" THEN Return(r.status, <<>>) ELSE GoOn("command")
StatusKnown(q) ==
    LET r == Outcome(wsa_get_sweep_status, q)
    IN  IF r.status # "ok" THEN Return(r.status, <<>>)
        ELSE IF r.out = <<Word("RUNNING")>>
               THEN Return("SWEEPALREADYRUNNING", <<>>)
        ELSE GoOn("command")

EntryAnswered(q) ==
    IF q.status # "answered" THEN Return(q.status, <<>>)
    ELSE LET r == wsa_sweep_entry_read(q.text)
         IN  IF r.status = "crash"
               THEN pc' = "crashed" /\ UNCHANGED <<stage, told, ret>>
               ELSE Return(r.status, r.out)

Concluded(q) ==
    \/ stage \in {"set", "command"} /\ Verified(q)
    \/ /\ stage = "get"
       /\ LET r == Outcome(RowOf(call.s), q) IN Return(r.status, r.out)
    \/ stage = "count" /\ SizeRead(q)
    \/ stage = "count2" /\ SizeReadAgain(q)
    \/ stage = "mode" /\ \E m \in wsa_get_capture_mode(q) : ModeCompared(m)
    \/ stage = "status" /\ StatusKnown(q)
    \/ stage = "entry" /\ EntryAnswered(q)

\* Answers that are received together are one text, with line ends in the
\* middle of it.
Together(answers) ==
    IF Len(answers) = 1 THEN answers[1]
    ELSE SubSeq(answers[1], 1, Len(answers[1]) - 1) \o <<Word("several lines")>>

Receive(n) ==
    /\ pc = "recv" /\ n <= Len(toCli)
    /\ toCli' = SubSeq(toCli, n + 1, Len(toCli))
    /\ Concluded([status |-> "answered", text |-> Together(SubSeq(toCli, 1, n))])
    /\ UNCHANGED <<session, device, link, toDev, lates, call, before, calls>>

\* Five attempts in vain.
UnderWay == toDev # <<>> \/ toCli # <<>>
GiveUp ==
    /\ pc = "recv"
    /\ link = "down" => toCli = <<>>
    /\ UnderWay => lates < MaxLate
    /\ lates' = IF UnderWay THEN lates + 1 ELSE lates
    /\ Concluded([status |-> "noresponse", text |-> <<>>])
    /\ UNCHANGED <<session, device, link, toDev, toCli, call, before, calls>>

\* A command or its verification is refused by the socket; both are failures
\* of the call, the former as they are.
SendRefused ==
    /\ pc \in {"send", "recv"} /\ link = "down" /\ toCli = <<>>
    /\ pc = "recv" => stage \in {"set", "command"}
    /\ IF pc = "send" /\ (stage \in {"set", "command"})
         THEN Return("sockerr", <<>>)
         ELSE Concluded([status |-> "sockerr", text |-> <<>>])
    /\ UNCHANGED <<session, device, wires, call, before, calls>>

-----------------------------------------------------------------------------
(***************************************************************************)
(* The instrument, as the client's code uses it.  It executes requests in    *)
(* the order they arrive, and may refuse a command, which it logs.           *)
(***************************************************************************)
EntryAt(id) == id \in 1 .. Len(list)

Executes(r) ==
    CASE r.op = "SET" ->
            /\ values' = [values EXCEPT ![r.s] = r.v]
            /\ UNCHANGED <<current, list, running>>
      [] r.op = "CMD" /\ r.s = "lan_apply" ->
            /\ current' = [s \in LanSettings |->
                            IF s \in session.focus THEN values[s] ELSE current[s]]
            /\ UNCHANGED <<values, list, running>>
      [] r.op = "CMD" /\ r.s = "reset_pll" ->
            /\ values' = [s \in session.focus |->
                            IF s = "reference_pll" THEN Holds[s][1] ELSE values[s]]
            /\ UNCHANGED <<current, list, running>>
      [] r.op = "CMD" /\ r.s = "entry_new" ->
            /\ values' = [s \in session.focus |->
                            IF s \in TemplateSettings THEN Holds[s][1] ELSE values[s]]
            /\ UNCHANGED <<current, list, running>>
      [] r.op = "CMD" /\ r.s = "entry_copy" ->
            /\ EntryAt(r.v[1].n)
            /\ values' = [s \in session.focus |->
                            IF s \in TemplateSettings THEN list[r.v[1].n][s]
                            ELSE values[s]]
            /\ UNCHANGED <<current, list, running>>
      [] r.op = "CMD" /\ r.s = "entry_save" ->
            /\ Len(list) < MaxEntries
            /\ LET id == IF r.v[1].n = 0 THEN Len(list) + 1 ELSE r.v[1].n IN
                 /\ id \in 1 .. Len(list) + 1
                 /\ list' = SubSeq(list, 1, id - 1) \o <<Template>>
                                \o SubSeq(list, id, Len(list))
            /\ UNCHANGED <<values, current, running>>
      [] r.op = "CMD" /\ r.s = "entry_delete" ->
            /\ EntryAt(r.v[1].n)
            /\ list' = SubSeq(list, 1, r.v[1].n - 1)
                            \o SubSeq(list, r.v[1].n + 1, Len(list))
            /\ UNCHANGED <<values, current, running>>
      [] r.op = "CMD" /\ r.s = "entry_delete_all" ->
            list' = <<>> /\ UNCHANGED <<values, current, running>>
      [] r.op = "CMD" /\ r.s \in {"sweep_start", "sweep_start_id"} ->
            /\ running = "BLOCK" /\ list # <<>> /\ running' = "SWEEPING"
            /\ UNCHANGED <<values, current, list>>
      [] r.op = "CMD" /\ r.s \in {"stream_start", "stream_start_id"} ->
            /\ running = "BLOCK" /\ running' = "STREAMING"
            /\ UNCHANGED <<values, current, list>>
      [] r.op = "CMD" /\ r.s = "sweep_stop" ->
            /\ running = "SWEEPING" /\ running' = "BLOCK"
            /\ UNCHANGED <<values, current, list>>
      [] r.op = "CMD" /\ r.s = "stream_stop" ->
            /\ running = "STREAMING" /\ running' = "BLOCK"
            /\ UNCHANGED <<values, current, list>>
      [] r.op = "CMD" /\ r.s = "abort" ->
            running' = "BLOCK" /\ UNCHANGED <<values, current, list>>
      [] OTHER -> UNCHANGED <<values, current, list, running>>

\* What it answers to a query.
Holding(r) ==
    CASE r.s = "sweep_entry_size" -> <<Num(Len(list))>>
      [] r.s = "sweep_status" ->
            <<Word(IF running = "SWEEPING" THEN "RUNNING" ELSE "STOPPED")>>
      [] r.s = "capture_mode" -> <<Word(running)>>
      [] r.s = "entry" -> EntryText(list[r.v[1].n])
      [] r.s \in LanSettings /\ r.v # <<>> -> current[r.s]
      [] OTHER -> values[r.s]

Answerable(r) == r.s = "entry" => EntryAt(r.v[1].n)

DeviceExecutes ==
    /\ toDev # <<>>
    /\ toDev' = Tail(toDev)
    /\ LET r == Head(toDev) IN
         \/ /\ r.op \in {"SET", "CMD"}
            /\ Executes(r)
            /\ UNCHANGED <<toCli, errs, orphans>>
         \/ /\ r.op \in {"SET", "CMD"}
            /\ errs' = errs + 1
            /\ orphans' = IF r.s = "capture_block" THEN orphans + 1 ELSE orphans
            /\ UNCHANGED <<toCli, values, current, list, running>>
         \/ /\ r.op = "GET" /\ Answerable(r)
            /\ toCli' = Append(toCli, Holding(r))
            /\ UNCHANGED device
         \/ /\ r.op = "GET" /\ ~Answerable(r)
            /\ errs' = errs + 1 /\ orphans' = orphans + 1
            /\ UNCHANGED <<toCli, values, current, list, running>>
         \/ /\ r.op = "ERR"
            /\ toCli' = Append(toCli, <<Word(IF errs = 0 THEN "No error"
                                             ELSE "-222")>>)
            /\ errs' = IF errs = 0 THEN 0 ELSE errs - 1
            /\ UNCHANGED <<values, current, list, running, orphans>>
    /\ UNCHANGED <<session, link, lates, client>>

\* A sweep comes to its end.
SweepEnds ==
    /\ running = "SWEEPING" /\ running' = "BLOCK"
    /\ UNCHANGED <<session, values, current, list, errs, orphans, wires, client>>

LinkDown ==
    /\ link = "up" /\ link' = "down"
    /\ toDev' = <<>>
    /\ \E n \in 0 .. Len(toCli) : toCli' = SubSeq(toCli, 1, n)
    /\ UNCHANGED <<session, device, lates, client>>

-----------------------------------------------------------------------------
SettingCalls ==
    \/ \E s \in Settable : \E v \in Candidates[s] : Set(s, v)
    \/ \E s \in session.focus : Get(s)
    \/ \E s \in session.focus, config \in {"CURRENT", "OTHER"} : GetLan(s, config)

EntryCalls ==
    \E id \in Ids :
        \/ wsa_sweep_entry_delete(id) \/ wsa_sweep_entry_copy(id)
        \/ wsa_sweep_entry_save(id) \/ ReadEntry(id)

CaptureCalls ==
    \/ \E id \in StartIds : wsa_sweep_start_id(id) \/ wsa_stream_start_id(id)
    \/ wsa_sweep_stop \/ wsa_stream_stop \/ wsa_flush_data

Application ==
    \/ SettingCalls \/ EntryCalls \/ CaptureCalls
    \/ \E op \in PlainCommands : Command(op)

Library == Send \/ SendRefused \/ (\E n \in 1 .. Len(toCli) : Receive(n)) \/ GiveUp

Next == Application \/ Library \/ DeviceExecutes \/ SweepEnds \/ LinkDown

Spec == Init /\ [][Next]_vars

-----------------------------------------------------------------------------
(***************************************************************************)
(* Properties.  Answers are matched by their order alone, so they are about *)
(* connections on which no exchange was abandoned before its answer came,   *)
(* and on which no error is queued that nobody asks for (ScpiChannel says   *)
(* what is left otherwise); nothing is said of an instrument out of reach.  *)
(***************************************************************************)
Trusted == lates = 0 /\ orphans = 0 /\ link = "up"
Returned == pc = "idle" /\ ret.op # "none"

StagesOf(op) ==
    CASE op = "set" -> {"set"}
      [] op = "get" -> {"get"}
      [] op = "entry_read" -> {"count", "entry"}
      [] op \in {"entry_delete", "entry_save"} -> {"count", "command"}
      [] op = "entry_copy" -> {"count", "count2", "command"}
      [] op = "sweep_start_id" -> {"mode", "count", "command"}
      [] op \in {"stream_start_id", "sweep_stop", "stream_stop"} ->
            {"mode", "command"}
      [] op = "flush" -> {"status", "command"}
      [] OTHER -> {"command"}

\* The answers that are owed to the client.
Queries(requests) ==
    {i \in DOMAIN requests : requests[i].op \notin {"SET", "CMD"}}
Owed == Cardinality(Queries(toDev)) + Len(toCli)

\* The shape of the state, and the accounting of answers and errors: at most
\* one answer is owed, and only to a call that waits, beyond those abandoned;
\* errors that stay in the queue were nobody's, or were not asked for.  Only a
\* misplaced answer makes wsa_sweep_entry_read meet a missing field.
InstrumentInv ==
    /\ pc \in {"idle", "send", "recv", "crashed"}
    /\ pc # "idle" => stage \in StagesOf(call.op)
    /\ DOMAIN values = session.focus /\ DOMAIN told = session.focus
    /\ Len(list) <= MaxEntries
    /\ running \in {"BLOCK", "SWEEPING", "STREAMING"}
    /\ Owed <= lates + IF pc = "recv" THEN 1 ELSE 0
    /\ pc = "idle" /\ lates = 0 /\ link = "up" => errs <= orphans
    /\ pc = "crashed" => lates > 0

Derived == {"sweep_entry_size", "sweep_status"}
Misrepresented == {"trigger_sync_state", "lan_dns"}

\* What the set functions reported done, and the get functions returned, is
\* what the instrument holds, until the application asks for something else:
\* a command and its verification are never taken for another's.  Of two
\* settings the instrument is told something else than the caller's value.
ToldIsTrue ==
    Trusted /\ pc = "idle" =>
        \A s \in session.focus \ (Misrepresented \cup Derived) :
            told[s] # Unknown => told[s] = values[s]

\* A function that returns 0 has put into the caller's variables what the
\* instrument holds, field by field.  What it leaves unassigned: the name
\* servers, the attenuation of an R5500, a lock's status that is neither 0 nor
\* 1, and nothing of a sweep entry.  A sweep reported as running may since
\* have come to its end.
Unassigned(s) ==
    \/ s = "lan_dns" \/ NotAsked(s)
    \/ s \in {"acq_access", "acq_status"} /\ values[s] \notin {<<Num(0)>>, <<Num(1)>>}
Held == Holding(Request("GET", ret.s, ret.v))
IsRead(out, text) ==
    Len(out) = Len(text)
        /\ \A k \in DOMAIN out : out[k] = text[k] \/ <<text[k]>> = Dropped
DeliveredIsTrue ==
    Trusted /\ Returned /\ ret.status = "ok" =>
        /\ ret.op = "get" =>
              \/ ret.out = Held
              \/ Unassigned(ret.s) /\ ret.out = <<Unwritten>>
              \/ ret.out = <<Word("RUNNING")>> /\ running = "BLOCK"
        /\ ret.op = "entry_read" =>
              IsRead(ret.out, EntryText(list[ret.v[1].n]))

\* What a set function lets out and the instrument takes, the get function of
\* the same setting reads back: their limits agree.  They do not for the
\* largest and the least int, and for a sweep attenuation other than 0 and 1.
Unreadable(s, v) ==
    \/ RowOf(s).gives[1].as = "int" /\ v[1] \in Numbers({-IntMax - 1, IntMax})
    \/ s = "sweep_attenuation" /\ v[1] \notin Numbers({0, 1})
ReadsBack ==
    Trusted /\ Returned /\ ret.op = "get" /\ ret.v = <<>> =>
        \/ ret.status = "ok"
        \/ told[ret.s] = Unknown
        \/ Unreadable(ret.s, told[ret.s])

\* A call that reports a refusal, the library's own or the instrument's, has
\* left the settings and the sweep list as they were.
FailedChangesNothing ==
    Trusted /\ Returned /\ ret.status \notin {"ok", "bytes"} =>
        values = before.values /\ list = before.list

EntryOps == {"entry_delete", "entry_copy", "entry_save", "entry_read"}
Places(op) == 0 .. Len(list) + IF op = "entry_save" THEN 1 ELSE 0

\* An identifier is only called out of bounds if no entry, or for
\* wsa_sweep_entry_save no place in the list, has it.
OutOfBoundsIsTrue ==
    Trusted /\ Returned /\ ret.op \in EntryOps /\ ret.status = "SWEEPIDOOB" =>
        ret.v[1].n \notin Places(ret.op)

\* wsa_flush_data asks whether the instrument sweeps before it sends the
\* command, a state that may change in between; no flush reaches a sweep.
FlushSpares ==
    [][ Trusted /\ running = "SWEEPING" /\ toDev # <<>> /\ Len(toDev') < Len(toDev)
            => Head(toDev) # Request("CMD", "flush", <<>>) ]_vars
\* What the comment in wsa_sweep_stop and wsa_stream_stop says they check, and
\* wsa_get_capture_mode promises: a call is not refused as "not running" when
\* what it stops was running from its beginning to its end.
ModeKnown ==
    Trusted /\ Returned /\ before.running = running =>
        /\ ret.status = "SWEEPNOTRUNNING" => running # "SWEEPING"
        /\ ret.status = "STREAMNOTRUNNING" => running # "STREAMING"

\* What the set functions promise: a value reported done is the value given.
SetMeansSet ==
    Trusted /\ Returned /\ ret.op = "set" /\ ret.status = "bytes" =>
        values[ret.s] = ret.v
=============================================================================
