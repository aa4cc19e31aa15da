-------------------------- MODULE InstrumentProofs --------------------------
(***************************************************************************)
(* Proofs about Instrument: what the client and the instrument have in      *)
(* common as long as no exchange was abandoned, and which of the values told*)
(* the get functions read back, for any settings, any list and any number   *)
(* of calls.                                                                *)
(***************************************************************************)
EXTENDS Instrument, FiniteSetTheorems, FunctionTheorems, WellFoundedInduction,
        TLAPS

\* The one request nobody verifies.
Block == Request("CMD", "capture_block", <<>>)

Unverified == stage \notin {"set", "command"}
Same == values = before.values /\ list = before.list

IsQueue(q) == \E S : q \in Seq(S)

\* The instrument holds, and is sent, texts of as many fields as are read.
Entries ==
    {e \in [TemplateSettings -> Seq(Anything)] :
        \A s \in TemplateSettings : Fits(Descr, s, e[s])}
FitsSetting(r) == r.s \in session.focus /\ Fits(Descr, r.s, r.v)

Texts ==
    /\ session \in Sessions
    /\ DOMAIN values = session.focus
    /\ \A s \in session.focus : Fits(Descr, s, values[s])
    /\ \A s \in LanSettings : Fits(Descr, s, current[s])
    /\ list \in Seq(Entries) /\ Len(list) <= MaxEntries
    /\ IsQueue(toDev) /\ IsQueue(toCli)
    /\ \A i \in DOMAIN toDev : toDev[i].op = "SET" => FitsSetting(toDev[i])

\* What a call under way asks for.
CallFits ==
    /\ call.op = "set" => call.s \in Settable /\ call.v \in Candidates[call.s]
    /\ call.op = "get" =>
          call.s \in session.focus /\ (call.v = <<>> \/ call.s \in LanSettings)
    /\ pc \in {"send", "recv"} /\ call.op = "get" => ~NotAsked(call.s)
    /\ pc \in {"send", "recv"} /\ call.op = "set" =>
          Refusal(RowOf(call.s), call.v) = "ok"

\* Where a call can be.
Control ==
    /\ pc \in {"idle", "send", "recv", "crashed"}
    /\ pc # "idle" => stage \in StagesOf(call.op)
    /\ pc = "recv" => call.op # "capture_block"
    /\ call.op \in EntryOps => call.v[1].n \in Int
    /\ call.op = "capture_block" => call.v = <<>>

Counts == lates \in Nat /\ orphans \in Nat /\ errs \in Nat

Shape ==
    DOMAIN told = session.focus /\ running \in {"BLOCK", "SWEEPING", "STREAMING"}

\* At most one answer is owed beyond those abandoned; a lost link owes none.
Answers ==
    /\ Owed <= lates + IF pc = "recv" THEN 1 ELSE 0
    /\ link = "down" => toDev = <<>>

\* The text of an entry: fifteen fields, and three more with a trigger.
TextOf(q, n) == q \in Seq(Anything) /\ Len(q) = n
IsEntryText(text) ==
    /\ TextOf(text, IF HasLevel(<<text[15]>>) THEN 18 ELSE 15)
    /\ text[7] = Num(7)

\* While no answer is misplaced, an entry is all that a call can take for one.
EntryComes ==
    lates = 0 /\ pc = "recv" /\ stage = "entry" =>
        /\ \A i \in DOMAIN toCli : IsEntryText(toCli[i])
        /\ \A i \in DOMAIN toDev : toDev[i].op \in {"SET", "CMD"} \/ toDev[i] = Asks
Crashes == pc = "crashed" => lates > 0

\* The errors in the queue that nobody is about to ask for are the orphans: of
\* the requests on their way, only the command that is just being verified can
\* add one that is asked for.
Quiet(r) == r.op \in {"GET", "ERR"} \/ r.s = "capture_block"
IsVerified == pc = "recv" /\ ~Unverified /\ toDev # <<>>
Backlog ==
    lates = 0 /\ link = "up" =>
        /\ errs <= orphans \/ (IsVerified /\ Len(toDev) = 1 /\ errs <= orphans + 1)
        /\ \A i \in DOMAIN toDev :
              Quiet(toDev[i]) \/ (IsVerified /\ i = Len(toDev) - 1)
        /\ IsVerified => toDev[Len(toDev)] = Verification

\* A query of the client, behind block captures, or its answer.
IsAnswer(a) ==
    /\ stage \in {"count", "count2"} => a = <<Num(Len(list))>>
    /\ stage = "status" =>
          a = <<Word("RUNNING")>> \/ (a = <<Word("STOPPED")>> /\ running # "SWEEPING")

Asking ==
    \/ /\ toCli = <<>> /\ toDev # <<>> /\ toDev \in Seq({Block, Asks})
       /\ \A i \in DOMAIN toDev : toDev[i] = IF i = Len(toDev) THEN Asks ELSE Block
    \/ toDev = <<>> /\ \E a : toCli = <<a>> /\ IsAnswer(a)

\* A command and its verification, or the verification alone, or the answer.
Verifying ==
    \/ /\ toCli = <<>> /\ toDev # <<>> /\ toDev \in Seq({Block, Asks, Verification})
       /\ \A i \in DOMAIN toDev :
             toDev[i] = IF i = Len(toDev) THEN Verification
                        ELSE IF i = Len(toDev) - 1 THEN Asks ELSE Block
       /\ Len(toDev) > 1 => Same /\ errs = 0
       /\ errs = 0 \/ (errs = 1 /\ Same)
    \/ /\ toDev = <<>> /\ errs = 0
       /\ \/ toCli = <<<<Word("No error")>>>>
          \/ toCli = <<<<Word("-222")>>>> /\ Same

Exchange ==
    /\ pc # "recv" => toCli = <<>> /\ toDev \in Seq({Block}) /\ errs = 0
    /\ pc = "send" => Same
    /\ pc = "recv" /\ Unverified => Same /\ errs = 0 /\ Asking
    /\ pc = "recv" /\ ~Unverified => Verifying

\* Between the status that lets a flush pass and the flush, nothing that starts
\* a sweep is on its way.
FlushRests ==
    pc \in {"send", "recv"} /\ stage = "command" /\ call.op = "flush"
        => running # "SWEEPING"

Reported ==
    pc = "idle" /\ ret.op # "none" =>
        /\ ret.status \notin {"ok", "bytes"} => Same
        /\ ret.op \in EntryOps /\ ret.status = "SWEEPIDOOB" =>
              ret.v[1].n \notin Places(ret.op)

Agreement == Trusted => Exchange /\ FlushRests /\ Reported

-----------------------------------------------------------------------------
LEMMA Empty ==
    ASSUME NEW S, NEW q \in Seq(S)
    PROVE  q = <<>> <=> Len(q) = 0
PROOF OBVIOUS

LEMMA Single ==
    ASSUME NEW x
    PROVE  1 \in DOMAIN <<x>> /\ <<x>>[1] = x
PROOF OBVIOUS

LEMMA OnlyOne ==
    ASSUME NEW x, NEW q, q = <<x>>
    PROVE  \A k \in DOMAIN q : q[k] = x
PROOF OBVIOUS

LEMMA Tails ==
    ASSUME NEW S, NEW q \in Seq(S), q # <<>>
    PROVE  /\ Head(q) = q[1] /\ Head(q) \in S /\ Tail(q) \in Seq(S)
           /\ Len(q) \in Nat \ {0} /\ Len(Tail(q)) = Len(q) - 1
           /\ DOMAIN q = 1 .. Len(q) /\ DOMAIN Tail(q) = 1 .. Len(q) - 1
           /\ \A i \in 1 .. Len(q) - 1 : Tail(q)[i] = q[i + 1]
           /\ Tail(q) = <<>> <=> Len(q) = 1
<1>1. Len(q) \in Nat \ {0} /\ DOMAIN q = 1 .. Len(q)
    OBVIOUS
<1>2. Head(q) = q[1] /\ Head(q) \in S /\ Tail(q) \in Seq(S)
    BY <1>1
<1>3. Len(Tail(q)) = Len(q) - 1 /\ DOMAIN Tail(q) = 1 .. Len(q) - 1
    BY <1>1
<1>4. \A i \in 1 .. Len(q) - 1 : Tail(q)[i] = q[i + 1]
    BY <1>1
<1>5. Tail(q) = <<>> <=> Len(q) = 1
    <2>1. Tail(q) = <<>> <=> Len(Tail(q)) = 0
        <3> DEFINE t == Tail(q)
        <3>1. t \in Seq(S)
            BY <1>2
        <3> HIDE DEF t
        <3>2. t = <<>> <=> Len(t) = 0
            BY <3>1, Empty
        <3> QED
            BY <3>2 DEF t
    <2> QED
        BY <1>1, <1>3, <2>1
<1> QED
    BY <1>1, <1>2, <1>3, <1>4, <1>5

LEMMA Inserted ==
    ASSUME NEW S, NEW q \in Seq(S), NEW x \in S, NEW i \in 1 .. Len(q) + 1
    PROVE  LET r == SubSeq(q, 1, i - 1) \o <<x>> \o SubSeq(q, i, Len(q))
           IN  r \in Seq(S) /\ Len(r) = Len(q) + 1
<1> DEFINE a == SubSeq(q, 1, i - 1)
           b == SubSeq(q, i, Len(q))
<1>1. /\ a \in Seq(S) /\ Len(a) = i - 1
      /\ b \in Seq(S) /\ Len(b) = Len(q) - i + 1
    OBVIOUS
<1> DEFINE c == a \o <<x>>
<1>2. c \in Seq(S) /\ Len(c) = i
    <2> HIDE DEF a, b
    <2> QED
        BY <1>1
<1>3. c \o b \in Seq(S) /\ Len(c \o b) = Len(c) + Len(b)
    <2> HIDE DEF a, b, c
    <2> QED
        BY <1>1, <1>2
<1> HIDE DEF a, b
<1>4. Len(c \o b) = Len(q) + 1
    <2> HIDE DEF c
    <2> QED
        BY <1>1, <1>2, <1>3
<1> QED
    BY <1>3, <1>4 DEF a, b

LEMMA Removed ==
    ASSUME NEW S, NEW q \in Seq(S), NEW i \in 1 .. Len(q)
    PROVE  LET r == SubSeq(q, 1, i - 1) \o SubSeq(q, i + 1, Len(q))
           IN  r \in Seq(S) /\ Len(r) = Len(q) - 1
<1> DEFINE a == SubSeq(q, 1, i - 1)
           b == SubSeq(q, i + 1, Len(q))
<1>1. /\ a \in Seq(S) /\ Len(a) = i - 1
      /\ b \in Seq(S) /\ Len(b) = Len(q) - i
    OBVIOUS
<1>2. a \o b \in Seq(S) /\ Len(a \o b) = Len(a) + Len(b)
    <2> HIDE DEF a, b
    <2> QED
        BY <1>1
<1> HIDE DEF a, b
<1>3. Len(a \o b) = Len(q) - 1
    BY <1>1, <1>2
<1> QED
    BY <1>2, <1>3 DEF a, b

-----------------------------------------------------------------------------

\* A set of numbers has a least one.
LEMMA Least ==
    ASSUME NEW T \in SUBSET Nat, T # {}
    PROVE  \E k \in T : \A j \in T : k <= j
<1> DEFINE R == OpToRel(<, Nat)
<1>1. \A x, y \in Nat : x < y => <<x, y>> \in R
    BY Zenon DEF OpToRel
<1>2. IsWellFoundedOn(R, Nat)
    BY NatLessThanWellFounded, Zenon
<1> HIDE DEF R
<1>3. PICK k \in T : \A j \in T : ~(<<j, k>> \in R)
    BY <1>2, WFMin
<1>4. \A j \in T : ~ (j < k)
    BY <1>1, <1>3
<1> QED
    BY <1>3, <1>4

\* What a get function reads of one field: it never calls a failure a success,
\* and what it lets pass it assigns, except where "writes" says otherwise.
Honest(x) == x.err # "ok"
Assigns(x) == x.writes = x.in \/ x.writes = Anything

OneField(reads) == \E x : reads = <<x>> /\ Honest(x) /\ Assigns(x)
Fields(reads) ==
    /\ \E n \in {2, 3} : Len(reads) = n /\ DOMAIN reads = 1 .. n
    /\ \A k \in DOMAIN reads :
          Honest(reads[k]) /\ Assigns(reads[k]) /\ reads[k].as = "double"

LEMMA ReadsAssign ==
    ASSUME NEW as, NEW S, NEW e, e # "ok"
    PROVE  LET x == Read(as, S, e) IN Honest(x) /\ Assigns(x) /\ x.as = as
BY DEF Honest, Assigns, Read

LEMMA PlainReads ==
    /\ Honest(AnInt) /\ Assigns(AnInt)
    /\ Honest(ADouble) /\ Assigns(ADouble) /\ ADouble.as = "double"
    /\ Honest(AText) /\ Assigns(AText)
    /\ \A S : Honest(CopiedMode(S)) /\ Assigns(CopiedMode(S))
<1>1. Honest(AnInt) /\ Assigns(AnInt)
    BY ReadsAssign DEF AnInt
<1>2. Honest(ADouble) /\ Assigns(ADouble) /\ ADouble.as = "double"
    BY ReadsAssign DEF ADouble
<1>3. Honest(AText) /\ Assigns(AText)
    BY ReadsAssign DEF AText
<1>4. ASSUME NEW S
      PROVE  Honest(CopiedMode(S)) /\ Assigns(CopiedMode(S))
    <2> DEFINE x == Read("text", S, "INVRFEINPUTMODE")
    <2>1. /\ x.err = "INVRFEINPUTMODE"
          /\ x = [as |-> "text", in |-> S, err |-> "INVRFEINPUTMODE",
                  writes |-> S, early |-> FALSE]
        BY DEF Read
    <2>2. "writes" \in DOMAIN x /\ "early" \in DOMAIN x
        BY <2>1
    <2>3. CopiedMode(S) = [x EXCEPT !.early = TRUE, !.writes = Anything]
        BY DEF CopiedMode
    <2> HIDE DEF x
    <2>4. CopiedMode(S).err = x.err /\ CopiedMode(S).writes = Anything
        BY <2>2, <2>3
    <2> QED
        BY <2>1, <2>4 DEF Honest, Assigns
<1> QED
    BY <1>1, <1>2, <1>3, <1>4

LEMMA Twice ==
    ASSUME NEW x, NEW y, Honest(x), Honest(y), Assigns(x), Assigns(y),
           x.as = "double", y.as = "double"
    PROVE  Fields(<<x, y>>)
BY DEF Fields

LEMMA Thrice ==
    ASSUME NEW x, NEW y, NEW z, Honest(x), Honest(y), Honest(z),
           Assigns(x), Assigns(y), Assigns(z),
           x.as = "double", y.as = "double", z.as = "double"
    PROVE  Fields(<<x, y, z>>)
BY DEF Fields

\* The rows read one field, whatever it is, or two or three numbers.
LEMMA PlainRows ==
    /\ OneField(wsa_lan_config.gives) /\ OneField(wsa_lan_ip.gives)
    /\ OneField(wsa_lan_netmask.gives) /\ OneField(wsa_lan_gateway.gives)
    /\ OneField(wsa_samples_per_packet.gives)
    /\ OneField(wsa_packets_per_block.gives) /\ OneField(wsa_decimation.gives)
    /\ OneField(wsa_freq_shift.gives) /\ OneField(wsa_spec_inv.gives)
    /\ OneField(wsa_rfe_input_mode.gives) /\ OneField(wsa_iq_output_mode.gives)
    /\ OneField(wsa_trigger_type.gives) /\ OneField(wsa_trigger_sync_delay.gives)
    /\ OneField(wsa_trigger_sync_state.gives) /\ OneField(wsa_reference_pll.gives)
    /\ OneField(wsa_lock_ref_pll.gives) /\ OneField(wsa_lock_rf.gives)
BY PlainReads, ReadsAssign
   DEF OneField, Row, wsa_lan_config, wsa_lan_ip, wsa_lan_netmask, wsa_lan_gateway,
       wsa_samples_per_packet, wsa_packets_per_block, wsa_decimation,
       wsa_freq_shift, wsa_spec_inv, wsa_rfe_input_mode, wsa_iq_output_mode,
       wsa_trigger_type, wsa_trigger_sync_delay, wsa_trigger_sync_state,
       wsa_reference_pll, wsa_lock_ref_pll, wsa_lock_rf

LEMMA SweepRows ==
    /\ OneField(wsa_sweep_attenuation.gives)
    /\ OneField(wsa_sweep_rfe_input_mode.gives)
    /\ OneField(wsa_sweep_samples_per_packet.gives)
    /\ OneField(wsa_sweep_packets_per_block.gives)
    /\ OneField(wsa_sweep_decimation.gives) /\ OneField(wsa_sweep_freq_shift.gives)
    /\ OneField(wsa_sweep_trigger_type.gives)
    /\ OneField(wsa_sweep_trigger_sync_delay.gives)
    /\ OneField(wsa_sweep_iteration.gives) /\ OneField(wsa_get_sweep_entry_size.gives)
    /\ OneField(wsa_get_sweep_status.gives)
BY PlainReads, ReadsAssign
   DEF OneField, Row, wsa_sweep_attenuation, wsa_sweep_rfe_input_mode,
       wsa_sweep_samples_per_packet, wsa_sweep_packets_per_block,
       wsa_packets_per_block, wsa_sweep_decimation, wsa_sweep_freq_shift,
       wsa_sweep_trigger_type, wsa_trigger_type, wsa_sweep_trigger_sync_delay,
       wsa_trigger_sync_delay, wsa_sweep_iteration, wsa_get_sweep_entry_size,
       wsa_get_sweep_status

LEMMA ModelRows ==
    ASSUME NEW d
    PROVE  /\ OneField(wsa_freq(d).gives) /\ OneField(wsa_sweep_freq_step(d).gives)
           /\ d.prod_model = "WSA5000" => OneField(wsa_attenuation(d).gives)
           /\ Fields(wsa_trigger_level(d).gives) /\ Fields(wsa_temperature.gives)
           /\ Fields(wsa_sweep_freq(d).gives) /\ Fields(wsa_sweep_dwell.gives)
           /\ Fields(wsa_sweep_trigger_level(d).gives)
<1>1. /\ OneField(wsa_freq(d).gives) /\ OneField(wsa_sweep_freq_step(d).gives)
      /\ d.prod_model = "WSA5000" => OneField(wsa_attenuation(d).gives)
    BY PlainReads DEF OneField, Row, wsa_freq, wsa_sweep_freq_step, wsa_attenuation
<1>2. Fields(wsa_trigger_level(d).gives)
    BY PlainReads, ReadsAssign, Thrice DEF Row, wsa_trigger_level
<1>3. Fields(<<ADouble, ADouble, ADouble>>) /\ Fields(<<ADouble, ADouble>>)
    BY PlainReads, Thrice, Twice
<1>4. Fields(wsa_temperature.gives) /\ Fields(wsa_sweep_trigger_level(d).gives)
    BY <1>3 DEF Row, Rising, wsa_temperature, wsa_sweep_trigger_level
<1>5. Fields(wsa_sweep_freq(d).gives) /\ Fields(wsa_sweep_dwell.gives)
    BY PlainReads, Twice DEF Row, Rising, wsa_sweep_freq, wsa_sweep_dwell
<1> QED
    BY <1>1, <1>2, <1>4, <1>5

\* What a get function that succeeds leaves in the caller's variables.
LEMMA ReadsWhole ==
    ASSUME NEW row, NEW a \in Seq(Anything), NEW n \in Nat \ {0},
           Len(a) = n, DOMAIN row.gives = 1 .. n,
           n = 1 \/ \A k \in 1 .. n : row.gives[k].as = "double",
           \A k \in 1 .. n : Honest(row.gives[k]),
           ReadOut(row, a).status = "ok"
    PROVE  /\ ReadOut(row, a).out =
                [k \in 1 .. n |-> IF a[k] \in row.gives[k].writes THEN a[k]
                                 ELSE Unwritten]
           /\ \A k \in 1 .. n : a[k] \in row.gives[k].in
<1> DEFINE gives == row.gives
           fields == IF \E k \in DOMAIN gives : gives[k].as = "text"
                       THEN <<WholeText(a)>> ELSE a
           converts(k) == k \in DOMAIN fields /\ Converts(gives[k].as, fields[k])
           passes(k) == converts(k) /\ fields[k] \in gives[k].in
           stops == {k \in DOMAIN gives : ~passes(k)}
           first == CHOOSE k \in stops : \A j \in stops : k <= j
           assigned(k) == /\ \/ \A j \in stops : k < j
                             \/ gives[k].early /\ \A j \in stops : k <= j
                          /\ fields[k] \in gives[k].writes
<1>1. DOMAIN a = 1 .. n
    OBVIOUS
<1>2. \A k \in 1 .. n : fields[k] = a[k] /\ k \in DOMAIN fields
    <2>1. CASE n = 1
        <3>1. WholeText(a) = a[1] /\ a = <<a[1]>>
            BY <1>1, <2>1 DEF WholeText
        <3>2. fields[1] = a[1] /\ 1 \in DOMAIN fields
            BY <1>1, <2>1, <3>1
        <3> QED
            BY <2>1, <3>2
    <2>2. CASE \A k \in 1 .. n : gives[k].as = "double"
        <3>1. fields = a
            BY <2>2
        <3> QED
            BY <1>1, <3>1
    <2> QED
        BY <2>1, <2>2
<1> DEFINE r == ReadOut(row, a)
<1>3. /\ r.status = IF stops = {} THEN "ok"
                    ELSE IF converts(first) THEN gives[first].err
                    ELSE "RESPUNKNOWN"
      /\ r.out = [k \in DOMAIN gives |->
                    IF assigned(k) THEN fields[k] ELSE Unwritten]
    BY DEF ReadOut
<1> HIDE DEF r, fields
<1>4. stops = {}
    <2> SUFFICES ASSUME stops # {}
                 PROVE  FALSE
        OBVIOUS
    <2>1. stops \subseteq 1 .. n
        OBVIOUS
    <2>2. stops \in SUBSET Nat
        BY <2>1
    <2>3. first \in stops
        <3> HIDE DEF stops
        <3> QED
            BY <2>2, Least
    <2>4. gives[first].err # "ok"
        BY <2>1, <2>3 DEF Honest
    <2> QED
        BY <1>3, <2>4 DEF r
<1>5. \A k \in 1 .. n : passes(k) /\ (assigned(k) <=> a[k] \in gives[k].writes)
    BY <1>2, <1>4
<1>6. r.out = [k \in 1 .. n |-> IF a[k] \in gives[k].writes THEN a[k] ELSE Unwritten]
    <2> HIDE DEF stops, assigned
    <2> QED
        BY <1>2, <1>3, <1>5
<1> QED
    BY <1>2, <1>5, <1>6 DEF r

\* How many fields the settings of the template have.
LEMMA RowWidths ==
    ASSUME NEW d
    PROVE  /\ \A s \in {"sweep_rfe_input_mode", "sweep_freq_step", "sweep_freq_shift",
                        "sweep_decimation", "sweep_attenuation",
                        "sweep_samples_per_packet", "sweep_packets_per_block",
                        "sweep_trigger_type"} : Len(Rows(d)[s].gives) = 1
           /\ \A s \in {"sweep_freq", "sweep_dwell"} : Len(Rows(d)[s].gives) = 2
           /\ Len(Rows(d)["sweep_trigger_level"].gives) = 3
<1>1. \A reads : OneField(reads) => Len(reads) = 1
    BY DEF OneField
<1>2. /\ Rows(d)["sweep_rfe_input_mode"] = wsa_sweep_rfe_input_mode
      /\ Rows(d)["sweep_freq_step"] = wsa_sweep_freq_step(d)
      /\ Rows(d)["sweep_freq_shift"] = wsa_sweep_freq_shift
      /\ Rows(d)["sweep_decimation"] = wsa_sweep_decimation
      /\ Rows(d)["sweep_attenuation"] = wsa_sweep_attenuation
      /\ Rows(d)["sweep_samples_per_packet"] = wsa_sweep_samples_per_packet
      /\ Rows(d)["sweep_packets_per_block"] = wsa_sweep_packets_per_block
      /\ Rows(d)["sweep_trigger_type"] = wsa_sweep_trigger_type
      /\ Rows(d)["sweep_freq"] = wsa_sweep_freq(d)
      /\ Rows(d)["sweep_dwell"] = wsa_sweep_dwell
      /\ Rows(d)["sweep_trigger_level"] = wsa_sweep_trigger_level(d)
    BY DEF Rows
<1>3. Len(wsa_sweep_freq(d).gives) = 2 /\ Len(wsa_sweep_dwell.gives) = 2
    BY DEF wsa_sweep_freq, wsa_sweep_dwell, Row, Rising
<1>4. Len(wsa_sweep_trigger_level(d).gives) = 3
    BY DEF wsa_sweep_trigger_level, Rising
<1> QED
    BY <1>1, <1>2, <1>3, <1>4, SweepRows, ModelRows

LEMMA Concatenated ==
    ASSUME NEW S, NEW p \in Seq(S), NEW q \in Seq(S)
    PROVE  /\ p \o q \in Seq(S) /\ Len(p \o q) = Len(p) + Len(q)
           /\ \A i \in 1 .. Len(p) : (p \o q)[i] = p[i]
           /\ \A i \in 1 .. Len(q) : (p \o q)[Len(p) + i] = q[i]
PROOF OBVIOUS

Joins(r, p, q) == r = p \o q

LEMMA JoinedTexts ==
    ASSUME NEW r, NEW p, NEW q, NEW n \in Nat, NEW m \in Nat,
           Joins(r, p, q), TextOf(p, n), TextOf(q, m)
    PROVE  /\ TextOf(r, n + m)
           /\ \A i \in 1 .. n : r[i] = p[i]
           /\ \A i \in 1 .. m : r[n + i] = q[i]
<1>1. p \in Seq(Anything) /\ q \in Seq(Anything) /\ r = p \o q
    BY DEF Joins, TextOf
<1>2. /\ r \in Seq(Anything) /\ Len(r) = Len(p) + Len(q)
      /\ \A i \in 1 .. Len(p) : r[i] = p[i]
      /\ \A i \in 1 .. Len(q) : r[Len(p) + i] = q[i]
    BY <1>1, Concatenated
<1>3. n = Len(p) /\ m = Len(q)
    BY DEF TextOf
<1> QED
    BY <1>2, <1>3 DEF TextOf

LEMMA MadeText ==
    ASSUME NEW n \in Nat, NEW S, NEW q \in [1 .. n -> S]
    PROVE  q \in Seq(S) /\ Len(q) = n /\ DOMAIN q = 1 .. n
PROOF OBVIOUS

LEMMA TextDomain ==
    ASSUME NEW text, NEW n, TextOf(text, n)
    PROVE  /\ n \in Nat /\ DOMAIN text = 1 .. n /\ Len(text) = n
           /\ \A k \in 1 .. n : text[k] \in Anything
BY DEF TextOf

\* The text of an entry: fifteen fields, and three more with a trigger.
LEMMA EntryShape ==
    ASSUME NEW d, NEW e, \A t \in TemplateSettings : Fits(d, t, e[t])
    PROVE  IsEntryText(EntryText(e))
<1> DEFINE A == Anything
           level == IF HasLevel(e.sweep_trigger_type) THEN e.sweep_trigger_level
                    ELSE <<>>
           f1 == e.sweep_rfe_input_mode
           f2 == e.sweep_freq
           f3 == e.sweep_freq_step
           f4 == e.sweep_freq_shift
           f5 == e.sweep_decimation
           f6 == Dropped
           f7 == e.sweep_attenuation
           f8 == Gains
           f9 == e.sweep_samples_per_packet
           f10 == e.sweep_packets_per_block
           f11 == e.sweep_dwell
           f12 == e.sweep_trigger_type
           p2 == f1 \o f2
           p3 == p2 \o f3
           p4 == p3 \o f4
           p5 == p4 \o f5
           p6 == p5 \o f6
           p7 == p6 \o f7
           p8 == p7 \o f8
           p9 == p8 \o f9
           p10 == p9 \o f10
           p11 == p10 \o f11
           p12 == p11 \o f12
           text == p12 \o level
           size == IF HasLevel(f12) THEN 3 ELSE 0
<1>1. \A t \in TemplateSettings : e[t] \in Seq(A) /\ Len(e[t]) = Len(Rows(d)[t].gives)
    BY DEF Fits
<1>2. TextOf(f1, 1)
    BY <1>1, RowWidths DEF TemplateSettings, TextOf
<1>3. TextOf(f2, 2)
    BY <1>1, RowWidths DEF TemplateSettings, TextOf
<1>4. TextOf(f3, 1)
    BY <1>1, RowWidths DEF TemplateSettings, TextOf
<1>5. TextOf(f4, 1)
    BY <1>1, RowWidths DEF TemplateSettings, TextOf
<1>6. TextOf(f5, 1)
    BY <1>1, RowWidths DEF TemplateSettings, TextOf
<1>7. TextOf(f6, 1) /\ f6[1] = Num(7)
    BY DEF Dropped, Num, Anything, Numbers, TextOf
<1>8. TextOf(f7, 1)
    BY <1>1, RowWidths DEF TemplateSettings, TextOf
<1>9. TextOf(f8, 2)
    BY DEF Gains, Num, Anything, Numbers, TextOf
<1>10. TextOf(f9, 1)
    BY <1>1, RowWidths DEF TemplateSettings, TextOf
<1>11. TextOf(f10, 1)
    BY <1>1, RowWidths DEF TemplateSettings, TextOf
<1>12. TextOf(f11, 2)
    BY <1>1, RowWidths DEF TemplateSettings, TextOf
<1>13. TextOf(f12, 1)
    BY <1>1, RowWidths DEF TemplateSettings, TextOf
<1>14. f12 = <<f12[1]>>
    BY <1>13 DEF TextOf
<1>15. TextOf(level, size)
    <2>1. e.sweep_trigger_level \in Seq(A) /\ Len(e.sweep_trigger_level) = 3
        BY <1>1, RowWidths DEF TemplateSettings
    <2>2. <<>> \in Seq(A) /\ Len(<<>>) = 0
        OBVIOUS
    <2>3. CASE HasLevel(f12)
        BY <2>1, <2>3 DEF TextOf
    <2>4. CASE ~HasLevel(f12)
        BY <2>2, <2>4 DEF TextOf
    <2> QED
        BY <2>3, <2>4
<1>16. text = EntryText(e)
    BY DEF EntryText
<1> HIDE DEF A, level, size, text, f1, f2, f3, f4, f5, f6, f7, f8, f9, f10, f11, f12,
         p2, p3, p4, p5, p6, p7, p8, p9, p10, p11, p12
<1>17. TextOf(p2, 3)
    <2>1. Joins(p2, f1, f2)
        BY DEF p2, Joins
    <2> QED
        BY <1>2, <1>3, <2>1, JoinedTexts
<1>18. TextOf(p3, 4)
    <2>1. Joins(p3, p2, f3)
        BY DEF p3, Joins
    <2> QED
        BY <1>17, <1>4, <2>1, JoinedTexts
<1>19. TextOf(p4, 5)
    <2>1. Joins(p4, p3, f4)
        BY DEF p4, Joins
    <2> QED
        BY <1>18, <1>5, <2>1, JoinedTexts
<1>20. TextOf(p5, 6)
    <2>1. Joins(p5, p4, f5)
        BY DEF p5, Joins
    <2> QED
        BY <1>19, <1>6, <2>1, JoinedTexts
<1>21. TextOf(p6, 7) /\ p6[7] = Num(7)
    <2>1. Joins(p6, p5, f6)
        BY DEF p6, Joins
    <2> QED
        BY <1>20, <1>7, <2>1, JoinedTexts
<1>22. TextOf(p7, 8) /\ p7[7] = Num(7)
    <2>1. Joins(p7, p6, f7)
        BY DEF p7, Joins
    <2> QED
        BY <1>21, <1>8, <2>1, JoinedTexts
<1>23. TextOf(p8, 10) /\ p8[7] = Num(7)
    <2>1. Joins(p8, p7, f8)
        BY DEF p8, Joins
    <2> QED
        BY <1>22, <1>9, <2>1, JoinedTexts
<1>24. TextOf(p9, 11) /\ p9[7] = Num(7)
    <2>1. Joins(p9, p8, f9)
        BY DEF p9, Joins
    <2> QED
        BY <1>23, <1>10, <2>1, JoinedTexts
<1>25. TextOf(p10, 12) /\ p10[7] = Num(7)
    <2>1. Joins(p10, p9, f10)
        BY DEF p10, Joins
    <2> QED
        BY <1>24, <1>11, <2>1, JoinedTexts
<1>26. TextOf(p11, 14) /\ p11[7] = Num(7)
    <2>1. Joins(p11, p10, f11)
        BY DEF p11, Joins
    <2> QED
        BY <1>25, <1>12, <2>1, JoinedTexts
<1>27. TextOf(p12, 15) /\ p12[7] = Num(7)
       /\ p12[15] = f12[1]
    <2>1. Joins(p12, p11, f12)
        BY DEF p12, Joins
    <2> QED
        BY <1>26, <1>13, <2>1, JoinedTexts
<1>28. /\ TextOf(text, 15 + size) /\ text[7] = Num(7) /\ text[15] = f12[1]
    <2>1. Joins(text, p12, level)
        BY DEF text, Joins
    <2>2. size \in Nat
        BY DEF size
    <2> QED
        BY <1>15, <1>27, <2>1, <2>2, JoinedTexts
<1>29. 15 + size = IF HasLevel(<<text[15]>>) THEN 18 ELSE 15
    BY <1>14, <1>28 DEF size
<1> QED
    BY <1>16, <1>28, <1>29 DEF IsEntryText

\* Read back, it is never short of a field, and is put out as it is.
LEMMA EntryIsRead ==
    ASSUME NEW text, IsEntryText(text)
    PROVE  LET r == wsa_sweep_entry_read(text)
           IN  /\ r.status \in {"ok", "RESPUNKNOWN"}
               /\ r.status = "ok" => IsRead(r.out, text)
<1> DEFINE last == EntryLength(text)
           bad == {k \in 1 .. last : k \notin DOMAIN text
                                  \/ ~Converts(EntryField(k), text[k])}
           stop == IF bad = {} THEN last + 1
                   ELSE CHOOSE k \in bad : \A j \in bad : k <= j
           r == wsa_sweep_entry_read(text)
<1> DEFINE n == IF HasLevel(<<text[15]>>) THEN 18 ELSE 15
<1>1. TextOf(text, n) /\ n \in {15, 18} /\ text[7] = Num(7)
    BY DEF IsEntryText
<1>2. n >= 15 /\ HasLevel(<<text[15]>>) => n = 18
    OBVIOUS
<1>3. ~HasLevel(<<text[15]>>) => n = 15
    OBVIOUS
<1>4. Len(text) = n /\ DOMAIN text = 1 .. n
    <2> HIDE DEF n
    <2> QED
        BY <1>1, TextDomain
<1>5. last = Len(text) /\ last \in {15, 18} /\ DOMAIN text = 1 .. last
    <2>1. last = n
        <3> HIDE DEF n
        <3>1. n >= 15
            BY <1>1
        <3> QED
            BY <1>2, <1>3, <1>4, <3>1 DEF EntryLength
    <2> HIDE DEF n, last
    <2> QED
        BY <1>1, <1>4, <2>1
<1> HIDE DEF n
<1>6. /\ r.status = IF bad = {} THEN "ok"
                    ELSE IF EntryField(stop) = "text" THEN "crash"
                    ELSE "RESPUNKNOWN"
      /\ r.out = [k \in 1 .. last |->
                    IF k < stop /\ k # 7 THEN text[k] ELSE Unwritten]
    BY DEF wsa_sweep_entry_read
<1> HIDE DEF last, r
<1>7. \A k \in bad : EntryField(k) # "text"
    BY <1>5 DEF Converts
<1>8. bad # {} => stop \in bad
    <2> SUFFICES ASSUME bad # {}
                 PROVE  stop \in bad
        OBVIOUS
    <2>1. bad \in SUBSET Nat
        BY <1>5
    <2> HIDE DEF bad
    <2> QED
        BY <2>1, Least
<1>9. r.status \in {"ok", "RESPUNKNOWN"}
    BY <1>6, <1>7, <1>8
<1>10. ASSUME r.status = "ok"
      PROVE  IsRead(r.out, text)
    <2>1. bad = {} /\ stop = last + 1
        <3>1. bad # {} => EntryField(stop) # "text"
            BY <1>7, <1>8
        <3> QED
            BY <1>6, <1>10, <3>1
    <2>2. r.out = [k \in 1 .. last |-> IF k < stop /\ k # 7 THEN text[k]
                                       ELSE Unwritten]
        BY <1>6
    <2> HIDE DEF stop, bad
    <2>3. /\ \A k \in 1 .. last : r.out[k] \in Anything \cup {Unwritten}
          /\ \A k \in 1 .. last : k # 7 => r.out[k] = text[k]
        <3>1. \A k \in 1 .. last : text[k] \in Anything
            BY <1>1, <1>5, TextDomain
        <3> QED
            BY <1>5, <2>1, <2>2, <3>1
    <2>4. Len(r.out) = Len(text) /\ DOMAIN r.out = 1 .. last
        <3>1. r.out \in [1 .. last -> Anything \cup {Unwritten}] /\ last \in Nat
            BY <1>5, <2>2, <2>3
        <3> QED
            BY <1>5, <3>1, MadeText
    <2>5. text[7] = Num(7) => <<text[7]>> = Dropped
        BY Zenon DEF Dropped
    <2> QED
        BY <1>1, <2>3, <2>4, <2>5 DEF IsRead
<1> QED
    BY <1>9, <1>10 DEF r

LEMMA SameText ==
    ASSUME NEW S, NEW a \in Seq(S), NEW n, Len(a) = n, NEW q, q = [k \in 1 .. n |-> a[k]]
    PROVE  q = a
PROOF OBVIOUS

LEMMA OneUnwritten ==
    ASSUME NEW q, q = [k \in 1 .. 1 |-> Unwritten]
    PROVE  q = <<Unwritten>>
PROOF OBVIOUS

LEMMA TheOne ==
    ASSUME NEW x, NEW g, g = <<x>>
    PROVE  Len(g) = 1 /\ DOMAIN g = 1 .. 1 /\ g[1] = x
PROOF OBVIOUS

LEMMA FieldsOfRows ==
    ASSUME NEW d, NEW s \in DOMAIN Rows(d),
           s \notin {"lan_dns", "acq_access", "acq_status"},
           d.prod_model = "WSA5000" \/ s # "attenuation"
    PROVE  OneField(Rows(d)[s].gives) \/ Fields(Rows(d)[s].gives)
<1> DEFINE Good(row) == OneField(row.gives) \/ Fields(row.gives)
<1>1. /\ Good(wsa_lan_config) /\ Good(wsa_lan_ip) /\ Good(wsa_lan_netmask)
      /\ Good(wsa_lan_gateway) /\ Good(wsa_samples_per_packet)
      /\ Good(wsa_packets_per_block) /\ Good(wsa_decimation) /\ Good(wsa_freq(d))
      /\ Good(wsa_freq_shift) /\ Good(wsa_spec_inv)
      /\ d.prod_model = "WSA5000" => Good(wsa_attenuation(d))
      /\ Good(wsa_rfe_input_mode) /\ Good(wsa_iq_output_mode)
      /\ Good(wsa_trigger_level(d)) /\ Good(wsa_trigger_type)
      /\ Good(wsa_trigger_sync_delay) /\ Good(wsa_trigger_sync_state)
      /\ Good(wsa_reference_pll) /\ Good(wsa_lock_ref_pll) /\ Good(wsa_lock_rf)
      /\ Good(wsa_temperature)
    BY PlainRows, ModelRows
<1>2. /\ Good(wsa_sweep_attenuation) /\ Good(wsa_sweep_rfe_input_mode)
      /\ Good(wsa_sweep_samples_per_packet) /\ Good(wsa_sweep_packets_per_block)
      /\ Good(wsa_sweep_decimation) /\ Good(wsa_sweep_freq(d))
      /\ Good(wsa_sweep_freq_shift) /\ Good(wsa_sweep_freq_step(d))
      /\ Good(wsa_sweep_dwell) /\ Good(wsa_sweep_trigger_level(d))
      /\ Good(wsa_sweep_trigger_type) /\ Good(wsa_sweep_trigger_sync_delay)
      /\ Good(wsa_sweep_iteration) /\ Good(wsa_get_sweep_entry_size)
      /\ Good(wsa_get_sweep_status)
    BY SweepRows, ModelRows
<1> HIDE DEF Good
<1>3. s = "attenuation" => d.prod_model = "WSA5000"
    OBVIOUS
<1>4. Good(Rows(d)[s])
    BY <1>1, <1>2, <1>3 DEF Rows
<1> QED
    BY <1>4 DEF Good

LEMMA FieldsRead ==
    ASSUME NEW g, OneField(g) \/ Fields(g)
    PROVE  /\ Len(g) \in Nat \ {0} /\ DOMAIN g = 1 .. Len(g)
           /\ Len(g) = 1 \/ \A k \in 1 .. Len(g) : g[k].as = "double"
           /\ \A k \in 1 .. Len(g) : Honest(g[k]) /\ Assigns(g[k])
<1>1. CASE OneField(g)
    <2>1. PICK x : g = <<x>> /\ Honest(x) /\ Assigns(x)
        BY <1>1 DEF OneField
    <2>2. Len(g) = 1 /\ DOMAIN g = 1 .. 1 /\ g[1] = x
        BY <2>1, TheOne
    <2>3. \A k \in 1 .. 1 : k = 1
        OBVIOUS
    <2> QED
        BY <2>1, <2>2, <2>3
<1>2. CASE Fields(g)
    BY <1>2 DEF Fields
<1> QED
    BY <1>1, <1>2

\* A get function that succeeds returns the answer as it is, unless it is one
\* of those that leave their variable alone.
LEMMA SettingIsRead ==
    ASSUME NEW d, NEW s \in DOMAIN Rows(d), NEW a, Fits(d, s, a),
           d.prod_model = "WSA5000" \/ s # "attenuation",
           ReadOut(Rows(d)[s], a).status = "ok"
    PROVE  LET out == ReadOut(Rows(d)[s], a).out
           IN  \/ out = a
               \/ /\ out = <<Unwritten>>
                  /\ \/ s = "lan_dns"
                     \/ /\ s \in {"acq_access", "acq_status"}
                        /\ a \notin {<<Num(0)>>, <<Num(1)>>}
<1> DEFINE row == Rows(d)[s]
           out == ReadOut(row, a).out
           n == Len(row.gives)
<1>1. a \in Seq(Anything) /\ Len(a) = n
    BY DEF Fits
<1>2. CASE s = "lan_dns"
    <2> DEFINE x == [AText EXCEPT !.writes = {}]
    <2>1. x.writes = {} /\ Honest(x)
        BY DEF AText, Read, Honest
    <2>2. row.gives = <<x>>
        BY <1>2 DEF Rows, wsa_lan_dns, Row
    <2> HIDE DEF x, row
    <2>3. n = 1 /\ DOMAIN row.gives = 1 .. 1 /\ row.gives[1] = x
        BY <2>2, TheOne
    <2>4. out = [k \in 1 .. 1 |-> IF a[k] \in x.writes THEN a[k] ELSE Unwritten]
        <3>1. /\ n \in Nat \ {0} /\ DOMAIN row.gives = 1 .. n /\ Len(a) = n
              /\ n = 1 \/ \A k \in 1 .. n : row.gives[k].as = "double"
              /\ \A k \in 1 .. n : Honest(row.gives[k])
            BY <1>1, <2>1, <2>3
        <3>2. \A k \in 1 .. n : row.gives[k] = x
            BY <2>3
        <3> HIDE DEF n
        <3>3. out = [k \in 1 .. n |-> IF a[k] \in row.gives[k].writes THEN a[k]
                                      ELSE Unwritten]
            BY <1>1, <3>1, ReadsWhole DEF row
        <3>4. out = [k \in 1 .. n |-> IF a[k] \in x.writes THEN a[k] ELSE Unwritten]
            BY <3>2, <3>3
        <3> QED
            BY <2>3, <3>4 DEF n
    <2>5. out = [k \in 1 .. 1 |-> Unwritten]
        BY <2>1, <2>3, <2>4
    <2> QED
        BY <1>2, <2>5, OneUnwritten DEF row
<1>3. CASE s \in {"acq_access", "acq_status"}
    <2>1. Flag.writes = Numbers({0, 1}) /\ Honest(Flag)
        BY DEF Flag, AText, Read, Honest
    <2>2. row.gives = <<Flag>>
        BY <1>3 DEF Rows, wsa_system_request_acq_access, wsa_system_acq_status, Row
    <2> HIDE DEF row
    <2>3. n = 1 /\ DOMAIN row.gives = 1 .. 1 /\ row.gives[1] = Flag
        BY <2>2, TheOne
    <2>4. out = [k \in 1 .. 1 |-> IF a[k] \in Flag.writes THEN a[k] ELSE Unwritten]
        <3>1. /\ n \in Nat \ {0} /\ DOMAIN row.gives = 1 .. n /\ Len(a) = n
              /\ n = 1 \/ \A k \in 1 .. n : row.gives[k].as = "double"
              /\ \A k \in 1 .. n : Honest(row.gives[k])
            BY <1>1, <2>1, <2>3
        <3>2. \A k \in 1 .. n : row.gives[k] = Flag
            BY <2>3
        <3> HIDE DEF n
        <3>3. out = [k \in 1 .. n |-> IF a[k] \in row.gives[k].writes THEN a[k]
                                      ELSE Unwritten]
            BY <1>1, <3>1, ReadsWhole DEF row
        <3>4. out = [k \in 1 .. n |-> IF a[k] \in Flag.writes THEN a[k] ELSE Unwritten]
            BY <3>2, <3>3
        <3> QED
            BY <2>3, <3>4 DEF n
    <2>5. CASE a[1] \in Numbers({0, 1})
        <3>1. out = [k \in 1 .. n |-> a[k]]
            BY <2>1, <2>3, <2>4, <2>5
        <3> QED
            BY <1>1, <3>1, SameText DEF row
    <2>6. CASE a[1] \notin Numbers({0, 1})
        <3>1. out = [k \in 1 .. 1 |-> Unwritten]
            BY <2>1, <2>3, <2>4, <2>6
        <3>2. out = <<Unwritten>>
            BY <3>1, OneUnwritten
        <3>3. Num(0) \in Numbers({0, 1}) /\ Num(1) \in Numbers({0, 1})
            BY DEF Num, Numbers
        <3>4. \A x : <<x>>[1] = x
            BY Single
        <3>5. a \notin {<<Num(0)>>, <<Num(1)>>}
            BY <2>6, <3>3, <3>4
        <3> QED
            BY <1>3, <3>2, <3>5 DEF row
    <2> QED
        BY <2>5, <2>6
<1>4. CASE s \notin {"lan_dns", "acq_access", "acq_status"}
    <2>1. OneField(row.gives) \/ Fields(row.gives)
        BY <1>4, FieldsOfRows
    <2> HIDE DEF row
    <2>2. /\ n \in Nat \ {0} /\ DOMAIN row.gives = 1 .. n
          /\ n = 1 \/ \A k \in 1 .. n : row.gives[k].as = "double"
          /\ \A k \in 1 .. n : Honest(row.gives[k]) /\ Assigns(row.gives[k])
        BY <2>1, FieldsRead
    <2>3. /\ out = [k \in 1 .. n |-> IF a[k] \in row.gives[k].writes THEN a[k]
                                     ELSE Unwritten]
          /\ \A k \in 1 .. n : a[k] \in row.gives[k].in
        BY <1>1, <2>2, ReadsWhole DEF row
    <2>4. \A k \in 1 .. n : a[k] \in Anything
        BY <1>1
    <2>5. \A k \in 1 .. n : a[k] \in row.gives[k].writes
        BY <2>2, <2>3, <2>4 DEF Assigns
    <2>6. out = [k \in 1 .. n |-> a[k]]
        BY <2>3, <2>5
    <2> QED
        BY <1>1, <2>6, SameText DEF row
<1> QED
    BY <1>2, <1>3, <1>4

-----------------------------------------------------------------------------
\* Every call begins in one of two ways.
BeginsAs(op, s, v) ==
    /\ Begin(op, s, v)
    /\ op \in EntryOps => v[1].n \in Int
    /\ op = "capture_block" => v = <<>>
    /\ op = "set" => s \in Settable /\ v \in Candidates[s]
    /\ op = "get" => s \in session.focus /\ (v = <<>> \/ s \in LanSettings)
    /\ \/ /\ op \notin EntryOps
          /\ \E status, out :
                /\ AtOnce(status, out)
                /\ status = "ok" => op = "get" /\ NotAsked(s) /\ out = <<Unwritten>>
                /\ op = "get" /\ v = <<>> => status = "ok"
       \/ \E st \in StagesOf(op) :
             /\ GoOn(st)
             /\ op = "flush" => st = "status"
             /\ op = "get" => ~NotAsked(s)
             /\ op = "set" => Refusal(RowOf(s), v) = "ok"

LEMMA CallsBegin ==
    ASSUME Application
    PROVE  \E op, s, v : BeginsAs(op, s, v)
<1> USE InstrumentAssumption DEF EntryOps, StagesOf
<1>1. ASSUME NEW s \in Settable, NEW v \in Candidates[s], Set(s, v)
      PROVE  BeginsAs("set", s, v)
    BY <1>1 DEF Set, BeginsAs
<1>2. ASSUME NEW s \in session.focus, Get(s)
      PROVE  BeginsAs("get", s, <<>>)
    BY <1>2 DEF Get, BeginsAs
<1>3. ASSUME NEW s \in session.focus, NEW config, GetLan(s, config)
      PROVE  BeginsAs("get", s, <<Word(config)>>)
    <2>1. ~NotAsked(s)
        BY <1>3 DEF GetLan, LanSettings, NotAsked
    <2> QED
        BY <1>3, <2>1 DEF GetLan, BeginsAs
<1>4. CASE SettingCalls
    BY <1>1, <1>2, <1>3, <1>4 DEF SettingCalls
<1>5. ASSUME NEW id \in Ids
      PROVE  <<Num(id)>>[1].n \in Int
    BY DEF Num
<1>6. ASSUME NEW id \in Ids, wsa_sweep_entry_delete(id)
      PROVE  BeginsAs("entry_delete", "none", <<Num(id)>>)
    BY <1>5, <1>6 DEF wsa_sweep_entry_delete, BeginsAs
<1>7. ASSUME NEW id \in Ids, wsa_sweep_entry_copy(id)
      PROVE  BeginsAs("entry_copy", "none", <<Num(id)>>)
    BY <1>5, <1>7 DEF wsa_sweep_entry_copy, BeginsAs
<1>8. ASSUME NEW id \in Ids, wsa_sweep_entry_save(id)
      PROVE  BeginsAs("entry_save", "none", <<Num(id)>>)
    BY <1>5, <1>8 DEF wsa_sweep_entry_save, BeginsAs
<1>9. ASSUME NEW id \in Ids, ReadEntry(id)
      PROVE  BeginsAs("entry_read", "none", <<Num(id)>>)
    BY <1>5, <1>9 DEF ReadEntry, BeginsAs
<1>10. CASE EntryCalls
    BY <1>6, <1>7, <1>8, <1>9, <1>10 DEF EntryCalls
<1>11. ASSUME NEW id, wsa_sweep_start_id(id)
       PROVE  BeginsAs("sweep_start_id", "none", <<Num(id)>>)
    BY <1>11 DEF wsa_sweep_start_id, BeginsAs
<1>12. ASSUME NEW id, wsa_stream_start_id(id)
       PROVE  BeginsAs("stream_start_id", "none", <<Num(id)>>)
    BY <1>12 DEF wsa_stream_start_id, BeginsAs
<1>13. wsa_sweep_stop => BeginsAs("sweep_stop", "none", <<>>)
    BY DEF wsa_sweep_stop, BeginsAs
<1>14. wsa_stream_stop => BeginsAs("stream_stop", "none", <<>>)
    BY DEF wsa_stream_stop, BeginsAs
<1>15. wsa_flush_data => BeginsAs("flush", "none", <<>>)
    BY DEF wsa_flush_data, BeginsAs
<1>16. CASE CaptureCalls
    BY <1>11, <1>12, <1>13, <1>14, <1>15, <1>16 DEF CaptureCalls
<1>17. ASSUME NEW op \in PlainCommands, Command(op)
       PROVE  BeginsAs(op, "none", <<>>)
    BY <1>17 DEF Command, PlainCommands, BeginsAs
<1> QED
    BY <1>4, <1>10, <1>16, <1>17 DEF Application

-----------------------------------------------------------------------------
\* What a call does with an answer, or with the lack of one: it goes on to
\* another exchange of its own, it returns, or the process dies.
LEMMA Conclusions ==
    ASSUME Control, pc \in {"send", "recv"}, NEW q, Concluded(q)
    PROVE  \/ Unverified /\ \E st \in StagesOf(call.op) : GoOn(st)
           \/ \E status, out : Return(status, out)
           \/ Unverified /\ pc' = "crashed" /\ UNCHANGED <<stage, told, ret>>
<1> USE DEF Unverified
<1>1. stage \in StagesOf(call.op)
    BY DEF Control
<1>2. CASE stage \in {"set", "command"}
    <2>1. Verified(q)
        BY <1>2 DEF Concluded
    <2> QED
        BY <2>1 DEF Verified
<1>3. CASE stage = "get"
    BY <1>3 DEF Concluded
<1>4. CASE stage = "count"
    <2>1. SizeRead(q)
        BY <1>4 DEF Concluded
    <2>2. PICK r, size : SizeKnown(r, size)
        BY <2>1 DEF SizeRead
    <2> QED
        BY <1>4, <2>2 DEF SizeKnown, StagesOf
<1>5. CASE stage = "count2"
    <2>1. SizeReadAgain(q) /\ "command" \in StagesOf(call.op)
        BY <1>1, <1>5 DEF Concluded, StagesOf
    <2> QED
        BY <1>5, <2>1 DEF SizeReadAgain
<1>6. CASE stage = "mode"
    <2>1. PICK m : ModeCompared(m)
        BY <1>6 DEF Concluded
    <2> QED
        BY <1>6, <2>1 DEF ModeCompared, StagesOf
<1>7. CASE stage = "status"
    <2>1. StatusKnown(q) /\ "command" \in StagesOf(call.op)
        BY <1>1, <1>7 DEF Concluded, StagesOf
    <2> QED
        BY <1>7, <2>1 DEF StatusKnown
<1>8. CASE stage = "entry"
    <2>1. EntryAnswered(q)
        BY <1>8 DEF Concluded
    <2> QED
        BY <1>8, <2>1 DEF EntryAnswered
<1> QED
    BY <1>2, <1>3, <1>4, <1>5, <1>6, <1>7, <1>8 DEF Concluded

\* What the assumptions on the constants say of a session.
LEMMA HoldsFit ==
    ASSUME session \in Sessions
    PROVE  /\ session.focus \subseteq DOMAIN Rows(Descr)
           /\ DOMAIN Holds = DOMAIN Rows(Descr)
           /\ LanSettings \cup TemplateSettings \subseteq DOMAIN Rows(Descr)
           /\ \A s \in DOMAIN Rows(Descr) :
                 /\ 1 \in DOMAIN Holds[s]
                 /\ \A i \in DOMAIN Holds[s] : Fits(Descr, s, Holds[s][i])
           /\ \A s \in Settable : \A v \in Candidates[s] :
                 Fits(Descr, s, Written(s, v))
           /\ session.sizes \subseteq 0 .. MaxEntries
<1>1. LanSettings \cup TemplateSettings \subseteq DOMAIN Rows(Descr)
    BY DEF LanSettings, TemplateSettings, Rows
<1> QED
    BY <1>1, TextsAssumption, InstrumentAssumption DEF Descr, Settable

\* A command changes no text's length.
LEMMA TextsExecute ==
    ASSUME Texts, NEW r, r.op = "SET" => FitsSetting(r), Executes(r),
           session' = session
    PROVE  /\ DOMAIN values' = session.focus
           /\ \A s \in session.focus : Fits(Descr, s, values'[s])
           /\ \A s \in LanSettings : Fits(Descr, s, current'[s])
           /\ list' \in Seq(Entries) /\ Len(list') <= MaxEntries
<1> USE DEF Texts
<1>10. Len(list) \in Nat /\ MaxEntries \in Nat
    BY InstrumentAssumption
<1>1. CASE r.op = "SET"
    <2>1. values' = [values EXCEPT ![r.s] = r.v] /\ UNCHANGED <<current, list>>
        BY <1>1 DEF Executes
    <2> QED
        BY <1>1, <2>1 DEF FitsSetting
<1>2. CASE r.op = "CMD" /\ r.s = "lan_apply"
    <2>1. /\ current' = [s \in LanSettings |->
                            IF s \in session.focus THEN values[s] ELSE current[s]]
          /\ UNCHANGED <<values, list>>
        BY <1>2 DEF Executes
    <2> QED
        BY <2>1
<1>3. CASE r.op = "CMD" /\ r.s = "reset_pll"
    <2>1. /\ values' = [s \in session.focus |->
                            IF s = "reference_pll" THEN Holds[s][1] ELSE values[s]]
          /\ UNCHANGED <<current, list>>
        BY <1>3 DEF Executes
    <2> QED
        BY <2>1, HoldsFit
<1>4. CASE r.op = "CMD" /\ r.s = "entry_new"
    <2>1. /\ values' = [s \in session.focus |->
                            IF s \in TemplateSettings THEN Holds[s][1] ELSE values[s]]
          /\ UNCHANGED <<current, list>>
        BY <1>4 DEF Executes
    <2> QED
        BY <2>1, HoldsFit
<1>5. CASE r.op = "CMD" /\ r.s = "entry_copy"
    <2>1. /\ EntryAt(r.v[1].n)
          /\ values' = [s \in session.focus |->
                            IF s \in TemplateSettings THEN list[r.v[1].n][s]
                            ELSE values[s]]
          /\ UNCHANGED <<current, list>>
        BY <1>5 DEF Executes
    <2>2. list[r.v[1].n] \in Entries
        BY <2>1 DEF EntryAt
    <2> QED
        BY <2>1, <2>2 DEF Entries
<1>6. CASE r.op = "CMD" /\ r.s = "entry_save"
    <2>1. /\ Len(list) < MaxEntries /\ UNCHANGED <<values, current>>
          /\ \E i \in 1 .. Len(list) + 1 :
                list' = SubSeq(list, 1, i - 1) \o <<Template>>
                            \o SubSeq(list, i, Len(list))
        BY <1>6 DEF Executes
    <2>2. Template \in Entries
        <3>1. \A t \in TemplateSettings : Fits(Descr, t, Template[t])
            BY HoldsFit DEF Template
        <3>2. Template \in [TemplateSettings -> Seq(Anything)]
            BY <3>1 DEF Template, Fits
        <3> QED
            BY <3>1, <3>2 DEF Entries
    <2>3. PICK i \in 1 .. Len(list) + 1 :
              list' = SubSeq(list, 1, i - 1) \o <<Template>>
                            \o SubSeq(list, i, Len(list))
        BY <2>1
    <2>4. list' \in Seq(Entries) /\ Len(list') = Len(list) + 1
        <3> HIDE DEF Entries
        <3> QED
            BY <2>2, <2>3, Inserted
    <2>5. Len(list') <= MaxEntries
        <3>1. Len(list) < MaxEntries
            BY <2>1
        <3>2. Len(list') = Len(list) + 1
            BY <2>4
        <3> HIDE DEF Texts
        <3> QED
            BY <1>10, <3>1, <3>2
    <2>6. UNCHANGED <<values, current>>
        BY <2>1
    <2> QED
        BY <2>4, <2>5, <2>6
<1>7. CASE r.op = "CMD" /\ r.s = "entry_delete"
    <2>1. /\ UNCHANGED <<values, current>>
          /\ \E id \in 1 .. Len(list) :
                list' = SubSeq(list, 1, id - 1) \o SubSeq(list, id + 1, Len(list))
        BY <1>7 DEF Executes, EntryAt
    <2>2. PICK i \in 1 .. Len(list) :
              list' = SubSeq(list, 1, i - 1) \o SubSeq(list, i + 1, Len(list))
        BY <2>1
    <2>3. list' \in Seq(Entries) /\ Len(list') = Len(list) - 1
        BY <2>2, Removed
    <2>4. Len(list') <= MaxEntries
        BY <1>10, <2>3
    <2>5. UNCHANGED <<values, current>>
        BY <2>1
    <2> QED
        BY <2>3, <2>4, <2>5
<1>8. CASE r.op = "CMD" /\ r.s = "entry_delete_all"
    <2>1. list' = <<>> /\ UNCHANGED <<values, current>>
        BY <1>8 DEF Executes
    <2>2. list' \in Seq(Entries) /\ Len(list') = 0
        BY <2>1
    <2> QED
        BY <1>10, <2>1, <2>2
<1>9. CASE ~ \/ r.op = "SET"
             \/ /\ r.op = "CMD"
                /\ r.s \in {"lan_apply", "reset_pll", "entry_new", "entry_copy",
                           "entry_save", "entry_delete", "entry_delete_all"}
    <2>1. UNCHANGED <<values, current, list>>
        BY <1>9 DEF Executes
    <2> QED
        BY <2>1
<1> QED
    BY <1>1, <1>2, <1>3, <1>4, <1>5, <1>6, <1>7, <1>8, <1>9

\* No step changes what the session is about.
LEMMA OneSession ==
    ASSUME [Next]_vars
    PROVE  session' = session
<1>1. CASE Application
    BY <1>1, CallsBegin DEF BeginsAs, Begin
<1>2. CASE Library
    BY <1>2 DEF Library, Send, SendRefused, Receive, GiveUp
<1>3. CASE DeviceExecutes \/ SweepEnds \/ LinkDown \/ UNCHANGED vars
    BY <1>3 DEF DeviceExecutes, SweepEnds, LinkDown, vars
<1> QED
    BY <1>1, <1>2, <1>3 DEF Next

\* A request of the client sets a setting of the session, to a text of it.
LEMMA SendsFit ==
    ASSUME session \in Sessions, Control, CallFits, pc = "send"
    PROVE  /\ \E S : Sends \in Seq(S)
           /\ \A i \in DOMAIN Sends : Sends[i].op = "SET" => FitsSetting(Sends[i])
<1>1. Asks.op = "SET" => FitsSetting(Asks)
    <2> SUFFICES ASSUME Asks.op = "SET"
                 PROVE  FitsSetting(Asks)
        OBVIOUS
    <2>1. stage = "set"
        BY DEF Asks, Request
    <2>2. call.op = "set"
        BY <2>1 DEF Control, StagesOf
    <2>3. call.s \in Settable /\ call.v \in Candidates[call.s]
        BY <2>2 DEF CallFits
    <2>4. Asks.s = call.s /\ Asks.v = Written(call.s, call.v)
        BY <2>1 DEF Asks, Request
    <2> QED
        BY <2>3, <2>4, HoldsFit DEF FitsSetting, Settable
<1>2. Verification.op = "ERR"
    BY DEF Verification, Request
<1>3. Sends = <<Asks>> \/ Sends = <<Asks, Verification>>
    BY DEF Sends
<1> HIDE DEF FitsSetting
<1>4. CASE Sends = <<Asks>>
    <2>1. Sends \in Seq({Asks}) /\ \A i \in DOMAIN Sends : Sends[i] = Asks
        BY <1>4
    <2> QED
        BY <1>1, <2>1
<1>5. CASE Sends = <<Asks, Verification>>
    <2>1. /\ Sends \in Seq({Asks, Verification})
          /\ \A i \in DOMAIN Sends : Sends[i] \in {Asks, Verification}
        BY <1>5
    <2> QED
        BY <1>1, <1>2, <2>1
<1> QED
    BY <1>3, <1>4, <1>5

LEMMA OneOrTwo ==
    /\ \A x : IsQueue(<<x>>)
    /\ \A x, y : IsQueue(<<x, y>>)
<1>1. ASSUME NEW x
      PROVE  IsQueue(<<x>>)
    <2>1. <<x>> \in Seq({x})
        OBVIOUS
    <2> QED
        BY <2>1 DEF IsQueue
<1>2. ASSUME NEW x, NEW y
      PROVE  IsQueue(<<x, y>>)
    <2>1. <<x, y>> \in Seq({x, y})
        OBVIOUS
    <2> QED
        BY <2>1 DEF IsQueue
<1> QED
    BY <1>1, <1>2

LEMMA Queues ==
    ASSUME NEW p, NEW q, IsQueue(p), IsQueue(q)
    PROVE  /\ \E S : p \in Seq(S) /\ q \in Seq(S) /\ p \o q \in Seq(S)
           /\ IsQueue(p \o q)
           /\ \A i \in DOMAIN (p \o q) :
                 \/ i \in DOMAIN p /\ (p \o q)[i] = p[i]
                 \/ i - Len(p) \in DOMAIN q /\ (p \o q)[i] = q[i - Len(p)]
<1> PICK S1, S2 : p \in Seq(S1) /\ q \in Seq(S2)
    BY DEF IsQueue
<1> DEFINE S == S1 \cup S2
<1>1. p \in Seq(S) /\ q \in Seq(S)
    OBVIOUS
<1> HIDE DEF S
<1>2. p \o q \in Seq(S)
    BY <1>1
<1>3. \A i \in DOMAIN (p \o q) :
         \/ i \in DOMAIN p /\ (p \o q)[i] = p[i]
         \/ i - Len(p) \in DOMAIN q /\ (p \o q)[i] = q[i - Len(p)]
    BY <1>1
<1> QED
    BY <1>1, <1>2, <1>3 DEF IsQueue

LEMMA Received ==
    ASSUME NEW q, IsQueue(q), NEW m \in Int, m >= 1, NEW n \in Int, n <= Len(q)
    PROVE  IsQueue(SubSeq(q, m, n))
<1> PICK S : q \in Seq(S)
    BY DEF IsQueue
<1>1. SubSeq(q, m, n) \in Seq(S)
    OBVIOUS
<1> QED
    BY <1>1 DEF IsQueue

LEMMA TextsStep ==
    ASSUME Texts, Control, CallFits, [Next]_vars
    PROVE  Texts'
<1>1. session' = session /\ Descr' = Descr /\ Entries' = Entries
      /\ \A r : FitsSetting(r)' = FitsSetting(r)
    BY OneSession DEF Descr, Entries, FitsSetting
<1>2. ASSUME UNCHANGED <<values, current, list>>, IsQueue(toDev'), IsQueue(toCli'),
             \A i \in DOMAIN toDev' : toDev'[i].op = "SET" => FitsSetting(toDev'[i])
      PROVE  Texts'
    BY <1>1, <1>2 DEF Texts
<1>3. CASE UNCHANGED <<values, current, list, toDev>> /\ IsQueue(toCli')
    BY <1>2, <1>3 DEF Texts
<1>4. CASE Application
    <2>1. UNCHANGED <<values, current, list, toDev, toCli>>
        BY <1>4, CallsBegin DEF BeginsAs, Begin, device, wires
    <2> QED
        BY <1>3, <2>1 DEF Texts
<1>5. CASE Send
    <2>1. /\ UNCHANGED <<values, current, list, toCli>> /\ pc = "send"
          /\ toDev' = toDev \o Sends \/ toDev' = toDev
        BY <1>5 DEF Send, device
    <2>2. /\ IsQueue(Sends)
          /\ \A i \in DOMAIN Sends : Sends[i].op = "SET" => FitsSetting(Sends[i])
        BY <2>1, SendsFit DEF Texts, IsQueue
    <2>3. /\ IsQueue(toDev \o Sends)
          /\ \A i \in DOMAIN (toDev \o Sends) :
                (toDev \o Sends)[i].op = "SET" => FitsSetting((toDev \o Sends)[i])
        <3>1. IsQueue(toDev)
            BY DEF Texts
        <3>2. /\ IsQueue(toDev \o Sends)
              /\ \A i \in DOMAIN (toDev \o Sends) :
                   \/ i \in DOMAIN toDev /\ (toDev \o Sends)[i] = toDev[i]
                   \/ /\ i - Len(toDev) \in DOMAIN Sends
                      /\ (toDev \o Sends)[i] = Sends[i - Len(toDev)]
            BY <2>2, <3>1, Queues
        <3> QED
            BY <2>2, <3>2 DEF Texts
    <2> QED
        BY <1>2, <2>1, <2>3 DEF Texts
<1>6. CASE SendRefused \/ GiveUp
    BY <1>3, <1>6 DEF SendRefused, GiveUp, device, wires, Texts
<1>7. ASSUME NEW n \in 1 .. Len(toCli), Receive(n)
      PROVE  Texts'
    <2>1. UNCHANGED <<values, current, list, toDev>>
          /\ toCli' = SubSeq(toCli, n + 1, Len(toCli))
        BY <1>7 DEF Receive, device
    <2>2. Len(toCli) \in Nat /\ IsQueue(toCli)
        BY DEF Texts, IsQueue
    <2>3. IsQueue(SubSeq(toCli, n + 1, Len(toCli)))
        BY <2>2, Received
    <2> QED
        BY <1>3, <2>1, <2>3
<1>8. CASE DeviceExecutes
    <2>1. PICK S : toDev \in Seq(S) /\ toDev # <<>> /\ toDev' = Tail(toDev)
        BY <1>8 DEF DeviceExecutes, Texts, IsQueue
    <2>2. /\ IsQueue(toDev')
          /\ \A i \in DOMAIN toDev' : toDev'[i].op = "SET" => FitsSetting(toDev'[i])
          /\ Head(toDev).op = "SET" => FitsSetting(Head(toDev))
        <3>1. /\ Tail(toDev) \in Seq(S) /\ Head(toDev) = toDev[1]
              /\ 1 \in DOMAIN toDev
              /\ \A i \in DOMAIN Tail(toDev) :
                    i + 1 \in DOMAIN toDev /\ Tail(toDev)[i] = toDev[i + 1]
            BY <2>1, Tails
        <3> QED
            BY <2>1, <3>1 DEF Texts, IsQueue
    <2>3. IsQueue(toCli')
        <3>1. toCli' = toCli \/ \E a : toCli' = Append(toCli, a)
            BY <1>8 DEF DeviceExecutes
        <3>2. ASSUME NEW a
              PROVE  IsQueue(Append(toCli, a))
            <4> PICK T : toCli \in Seq(T)
                BY DEF Texts, IsQueue
            <4> DEFINE U == T \cup {a}
            <4>1. toCli \in Seq(U) /\ a \in U
                OBVIOUS
            <4> HIDE DEF U
            <4>2. Append(toCli, a) \in Seq(U)
                BY <4>1
            <4> QED
                BY <4>2 DEF IsQueue
        <3> QED
            BY <3>1, <3>2 DEF Texts
    <2>4. Executes(Head(toDev)) \/ UNCHANGED <<values, current, list>>
        BY <1>8 DEF DeviceExecutes, device
    <2>5. CASE Executes(Head(toDev))
        BY <1>1, <2>2, <2>3, <2>5, TextsExecute DEF Texts
    <2> QED
        BY <1>2, <2>2, <2>3, <2>4, <2>5
<1>9. CASE SweepEnds \/ UNCHANGED vars
    BY <1>3, <1>9 DEF SweepEnds, wires, device, vars, Texts
<1>10. CASE LinkDown
    <2>1. UNCHANGED <<values, current, list>> /\ toDev' = <<>>
          /\ \E n \in 0 .. Len(toCli) : toCli' = SubSeq(toCli, 1, n)
        BY <1>10 DEF LinkDown, device
    <2>2. IsQueue(toDev') /\ DOMAIN toDev' = {}
        <3>1. <<>> \in Seq({}) /\ DOMAIN <<>> = {}
            OBVIOUS
        <3> QED
            BY <2>1, <3>1 DEF IsQueue
    <2>3. IsQueue(toCli')
        <3>1. PICK n \in 0 .. Len(toCli) : toCli' = SubSeq(toCli, 1, n)
            BY <2>1
        <3>2. IsQueue(toCli) /\ Len(toCli) \in Nat
            BY DEF Texts, IsQueue
        <3> QED
            BY <3>1, <3>2, Received
    <2> QED
        BY <1>2, <2>1, <2>2, <2>3
<1> QED
    BY <1>4, <1>5, <1>6, <1>7, <1>8, <1>9, <1>10 DEF Next, Library

LEMMA ControlStep ==
    ASSUME Control, [Next]_vars
    PROVE  Control'
<1>1. ASSUME NEW q, Concluded(q), pc \in {"send", "recv"}, UNCHANGED call
      PROVE  Control'
    <2>1. ASSUME NEW st \in StagesOf(call.op), GoOn(st)
          PROVE  Control'
        BY <1>1, <2>1 DEF GoOn, Control
    <2>2. ASSUME NEW status, NEW out, Return(status, out)
          PROVE  Control'
        BY <1>1, <2>2 DEF Return, Control
    <2>3. CASE pc' = "crashed" /\ UNCHANGED stage
        BY <1>1, <2>3 DEF Control
    <2> QED
        BY <1>1, <2>1, <2>2, <2>3, Conclusions
<1>2. ASSUME NEW op, NEW s, NEW v, BeginsAs(op, s, v)
      PROVE  Control'
    <2>1. call' = Request(op, s, v) /\ pc = "idle"
        BY <1>2 DEF BeginsAs, Begin
    <2>2. /\ call'.op = op /\ (op \in EntryOps => call'.v[1].n \in Int)
          /\ op = "capture_block" => call'.v = <<>>
        BY <1>2, <2>1 DEF BeginsAs, Request
    <2>3. CASE \E status, out : AtOnce(status, out)
        BY <2>1, <2>2, <2>3 DEF AtOnce, Control
    <2>4. CASE \E st \in StagesOf(op) : GoOn(st)
        BY <2>1, <2>2, <2>4 DEF GoOn, Control
    <2> QED
        BY <1>2, <2>3, <2>4 DEF BeginsAs
<1>3. CASE Application
    BY <1>2, <1>3, CallsBegin
<1>4. CASE Send
    BY <1>4 DEF Send, Return, Control
<1>5. CASE SendRefused
    <2>1. CASE pc = "send" /\ stage \in {"set", "command"}
        BY <1>5, <2>1 DEF SendRefused, Return, Control
    <2>2. CASE ~(pc = "send" /\ stage \in {"set", "command"})
        BY <1>1, <1>5, <2>2 DEF SendRefused
    <2> QED
        BY <1>5, <2>1, <2>2
<1>6. ASSUME NEW n \in 1 .. Len(toCli), Receive(n)
      PROVE  Control'
    BY <1>1, <1>6 DEF Receive
<1>7. CASE GiveUp
    BY <1>1, <1>7 DEF GiveUp
<1>8. CASE DeviceExecutes \/ SweepEnds \/ LinkDown
    BY <1>8 DEF DeviceExecutes, SweepEnds, LinkDown, Control, client
<1>9. CASE UNCHANGED vars
    BY <1>9 DEF vars, Control, client
<1> QED
    BY <1>3, <1>4, <1>5, <1>6, <1>7, <1>8, <1>9 DEF Next, Library

\* A call is begun, or goes on as it was asked for.
LEMMA CallGoesOn ==
    ASSUME [Next]_vars
    PROVE  \/ \E op, s, v : BeginsAs(op, s, v)
           \/ /\ call' = call
              /\ pc' \in {"send", "recv"} => pc \in {"send", "recv"}
<1>1. CASE Application
    BY <1>1, CallsBegin
<1>2. CASE Library
    BY <1>2 DEF Library, Send, SendRefused, Receive, GiveUp
<1>3. CASE DeviceExecutes \/ SweepEnds \/ LinkDown \/ UNCHANGED vars
    BY <1>3 DEF DeviceExecutes, SweepEnds, LinkDown, vars, client
<1> QED
    BY <1>1, <1>2, <1>3 DEF Next

LEMMA CallFitsStep ==
    ASSUME CallFits, [Next]_vars
    PROVE  CallFits'
<1>1. /\ session' = session /\ Settable' = Settable
      /\ \A s : NotAsked(s)' = NotAsked(s) /\ RowOf(s)' = RowOf(s)
    BY OneSession DEF Settable, NotAsked, RowOf, Descr
<1>2. ASSUME NEW op, NEW s, NEW v, BeginsAs(op, s, v)
      PROVE  CallFits'
    <2>1. /\ pc = "idle" /\ call'.op = op /\ call'.s = s /\ call'.v = v
        BY <1>2 DEF BeginsAs, Begin, Request
    <2>2. \/ pc' = pc
          \/ /\ op = "get" => ~NotAsked(s)
             /\ op = "set" => Refusal(RowOf(s), v) = "ok"
        BY <1>2 DEF BeginsAs, AtOnce
    <2> QED
        BY <1>1, <1>2, <2>1, <2>2 DEF BeginsAs, CallFits
<1> QED
    BY <1>1, <1>2, CallGoesOn DEF CallFits

\* What the properties set aside only grows, and a lost link stays lost.
LEMMA TrustedBefore ==
    ASSUME Counts, [Next]_vars
    PROVE  /\ Counts' /\ (Trusted' => Trusted)
           /\ lates' = 0 => lates = 0
           /\ link' = "up" => link = "up"
<1>1. /\ lates' = lates \/ lates' = lates + 1
      /\ errs' = errs \/ errs' = errs + 1 \/ errs' = (IF errs = 0 THEN 0 ELSE errs - 1)
      /\ orphans' = orphans \/ orphans' = orphans + 1
      /\ link' = "up" => link = "up"
    <2>1. CASE Application
        BY <2>1, CallsBegin DEF BeginsAs, Begin, device, wires
    <2>2. CASE Library
        BY <2>2 DEF Library, Send, SendRefused, Receive, GiveUp, device, wires
    <2>3. CASE DeviceExecutes
        BY <2>3 DEF DeviceExecutes, device
    <2>4. CASE SweepEnds \/ LinkDown \/ UNCHANGED vars
        BY <2>4 DEF SweepEnds, LinkDown, vars, device, wires
    <2> QED
        BY <2>1, <2>2, <2>3, <2>4 DEF Next
<1> QED
    BY <1>1 DEF Counts, Trusted

-----------------------------------------------------------------------------
\* What the get functions make of the size of the list and of the status.
Answered(a) == [status |-> "answered", text |-> a]

LEMMA SizeIsRead ==
    ASSUME NEW n \in Int
    PROVE  LET r == Outcome(wsa_get_sweep_entry_size, Answered(<<Num(n)>>))
           IN  r.status = "ok" /\ r.out[1].n = n
<1> DEFINE row == wsa_get_sweep_entry_size
           a == <<Num(n)>>
           r == ReadOut(row, a)
<1>1. Outcome(row, Answered(a)) = r
    BY DEF Outcome, Answered
<1>2. row.gives = <<ADouble>> /\ DOMAIN row.gives = {1} /\ row.gives[1] = ADouble
    BY DEF wsa_get_sweep_entry_size, Row
<1>3. ADouble.as = "double" /\ ADouble.in = Anything /\ ADouble.writes = Anything
    BY DEF ADouble, Read
<1>4. DOMAIN a = {1} /\ a[1] = Num(n) /\ Num(n).n = n
    BY DEF Num
<1>5. Num(n) \in Anything /\ Converts("double", Num(n))
    BY DEF Num, Anything, Numbers, Converts
<1> HIDE DEF row, a
<1>6. r.status = "ok"
    <2> DEFINE stops == {k \in DOMAIN row.gives :
                            ~(/\ k \in DOMAIN a /\ Converts(row.gives[k].as, a[k])
                              /\ a[k] \in row.gives[k].in)}
    <2>1. stops = {}
        BY <1>2, <1>3, <1>4, <1>5
    <2>2. ~\E k \in DOMAIN row.gives : row.gives[k].as = "text"
        BY <1>2, <1>3
    <2> QED
        BY <2>1, <2>2 DEF ReadOut
<1>7. r.out[1] = Num(n)
    BY <1>2, <1>3, <1>4, <1>5 DEF ReadOut
<1> QED
    BY <1>1, <1>4, <1>6, <1>7 DEF row, a

LEMMA StatusIsRead ==
    ASSUME NEW w \in {"STOPPED", "RUNNING"}
    PROVE  LET r == Outcome(wsa_get_sweep_status, Answered(<<Word(w)>>))
           IN  r.status = "ok" /\ r.out = <<Word(w)>>
<1> DEFINE row == wsa_get_sweep_status
           a == <<Word(w)>>
           r == ReadOut(row, a)
           read == row.gives[1]
<1>1. Outcome(row, Answered(a)) = r
    BY DEF Outcome, Answered
<1>2. row.gives = <<read>> /\ DOMAIN row.gives = {1}
    BY DEF wsa_get_sweep_status, Row
<1>3. /\ read.as = "text" /\ Word(w) \in read.in
      /\ read.writes = read.in
    <2>1. read = Read("text", Words({"STOPPED", "RUNNING"}), "SWEEPMODEUNDEF")
        BY DEF wsa_get_sweep_status, Row
    <2>2. Word(w) \in Words({"STOPPED", "RUNNING"})
        BY DEF Words, Word
    <2> QED
        BY <2>1, <2>2 DEF Read
<1>4. WholeText(a) = Word(w) /\ Converts("text", Word(w))
    BY DEF WholeText, Converts
<1> HIDE DEF row, a, read
<1>5. r.status = "ok"
    <2> DEFINE fields == <<WholeText(a)>>
               stops == {k \in DOMAIN row.gives :
                            ~(/\ k \in DOMAIN fields
                              /\ Converts(row.gives[k].as, fields[k])
                              /\ fields[k] \in row.gives[k].in)}
    <2>1. stops = {}
        BY <1>2, <1>3, <1>4
    <2>2. \E k \in DOMAIN row.gives : row.gives[k].as = "text"
        BY <1>2, <1>3
    <2> QED
        BY <2>1, <2>2 DEF ReadOut
<1>6. r.out = [k \in {1} |-> Word(w)]
    BY <1>2, <1>3, <1>4 DEF ReadOut
<1> QED
    BY <1>1, <1>5, <1>6 DEF row, a

-----------------------------------------------------------------------------
\* What a call decides on an answer that is its own.
LEMMA OutOfBoundsDecided ==
    ASSUME Control, Texts, pc = "recv", Unverified, NEW a, IsAnswer(a),
           Concluded(Answered(a)), call.op \in EntryOps,
           pc' = "idle", ret'.status = "SWEEPIDOOB"
    PROVE  call.v[1].n \notin Places(call.op)
<1>1. Len(list) \in Nat /\ call.v[1].n \in Int
    BY DEF Texts, Control
<1>2. stage \in {"count", "count2", "entry"}
    BY DEF Control, StagesOf, EntryOps, Unverified
<1>3. ASSUME NEW status, NEW out, Return(status, out)
      PROVE  status = "SWEEPIDOOB"
    BY <1>3 DEF Return, Answer
<1>4. \A st : ~GoOn(st)
    BY DEF GoOn
<1> DEFINE r == Outcome(wsa_get_sweep_entry_size, Answered(a))
<1>5. stage \in {"count", "count2"} => r.status = "ok" /\ r.out[1].n = Len(list)
    BY <1>1, SizeIsRead DEF IsAnswer
<1>6. CASE stage = "count"
    <2> HIDE DEF r
    <2>1. SizeKnown(r, Len(list))
        BY <1>5, <1>6 DEF Concluded, SizeRead, r
    <2>2. IF call.op = "entry_save" THEN OutOfSave(Id, Len(list))
          ELSE OutOfList(Id, Len(list))
        BY <1>3, <1>4, <1>5, <1>6, <2>1 DEF SizeKnown, EntryOps
    <2> QED
        BY <1>1, <2>2 DEF OutOfSave, OutOfList, Places, Id
<1>7. CASE stage = "count2"
    <2> HIDE DEF r
    <2>1. /\ r.status = "ok"
          /\ IF r.status # "ok" THEN Return(r.status, <<>>)
             ELSE IF r.out[1].n = 0 THEN Return("SWEEPLISTEMPTY", <<>>)
             ELSE GoOn("command")
        BY <1>5, <1>7 DEF Concluded, SizeReadAgain, r
    <2> QED
        BY <1>3, <1>4, <2>1
<1>8. CASE stage = "entry"
    <2> DEFINE e == wsa_sweep_entry_read(a)
    <2>1. EntryAnswered(Answered(a))
        BY <1>8 DEF Concluded
    <2>2. e.status # "SWEEPIDOOB"
        BY DEF wsa_sweep_entry_read
    <2> HIDE DEF e
    <2>3. pc' = "crashed" \/ Return(e.status, e.out)
        BY <2>1 DEF EntryAnswered, Answered, e
    <2> QED
        BY <1>3, <2>2, <2>3
<1> QED
    BY <1>2, <1>6, <1>7, <1>8

LEMMA FlushDecided ==
    ASSUME pc = "recv", stage = "status", NEW a, IsAnswer(a),
           Concluded(Answered(a)), pc' = "send"
    PROVE  running # "SWEEPING"
<1>1. StatusKnown(Answered(a))
    BY DEF Concluded
<1>2. a # <<Word("RUNNING")>>
    <2> SUFFICES ASSUME a = <<Word("RUNNING")>>
                 PROVE  FALSE
        OBVIOUS
    <2> DEFINE r == Outcome(wsa_get_sweep_status, Answered(a))
    <2>1. r.status = "ok" /\ r.out = <<Word("RUNNING")>>
        BY StatusIsRead
    <2>2. IF r.status # "ok" THEN Return(r.status, <<>>)
          ELSE IF r.out = <<Word("RUNNING")>>
                 THEN Return("SWEEPALREADYRUNNING", <<>>)
          ELSE GoOn("command")
        BY <1>1 DEF StatusKnown
    <2> HIDE DEF r
    <2> QED
        BY <2>1, <2>2 DEF Return
<1> QED
    BY <1>2 DEF IsAnswer

LEMMA VerdictReported ==
    ASSUME ~Unverified, NEW a, Concluded(Answered(a))
    PROVE  /\ pc' = "idle" /\ UNCHANGED stage
           /\ ret'.status # "SWEEPIDOOB"
           /\ a = <<Word("No error")>> => ret'.status \in {"ok", "bytes"}
<1>1. Verified(Answered(a))
    BY DEF Concluded, Unverified
<1>2. Verdict(Answered(a)) \in {"bytes", "setfailed"}
    BY DEF Verdict, Answered
<1>3. a = <<Word("No error")>> => Verdict(Answered(a)) = "bytes"
    <2> SUFFICES ASSUME a = <<Word("No error")>>
                 PROVE  Says(Answered(a), "No error")
        BY DEF Verdict, Answered
    <2>1. Answered(a).text = a
        BY DEF Answered
    <2>2. 1 \in DOMAIN a /\ a[1] = Word("No error")
        BY Single
    <2> QED
        BY <2>1, <2>2 DEF Says
<1> QED
    BY <1>1, <1>2, <1>3 DEF Verified, Return, Answer

-----------------------------------------------------------------------------
LEMMA Joined ==
    ASSUME NEW S, NEW q \in Seq(S), NEW x \in S
    PROVE  LET j == q \o <<x>>
           IN  /\ j \in Seq(S) /\ Len(j) = Len(q) + 1 /\ j # <<>>
               /\ DOMAIN j = 1 .. Len(q) + 1
               /\ j[Len(q) + 1] = x /\ \A i \in 1 .. Len(q) : j[i] = q[i]
<1> DEFINE j == q \o <<x>>
<1>1. j \in Seq(S) /\ Len(j) = Len(q) + 1 /\ DOMAIN j = 1 .. Len(q) + 1
    OBVIOUS
<1>2. j[Len(q) + 1] = x /\ \A i \in 1 .. Len(q) : j[i] = q[i]
    OBVIOUS
<1>3. j # <<>>
    <2> HIDE DEF j
    <2> QED
        BY <1>1, Empty
<1> QED
    BY <1>1, <1>2, <1>3

LEMMA JoinedByTwo ==
    ASSUME NEW S, NEW q \in Seq(S), NEW x \in S, NEW y \in S
    PROVE  LET j == q \o <<x, y>>
           IN  /\ j \in Seq(S) /\ Len(j) = Len(q) + 2 /\ j # <<>>
               /\ DOMAIN j = 1 .. Len(q) + 2
               /\ j[Len(q) + 1] = x /\ j[Len(q) + 2] = y
               /\ \A i \in 1 .. Len(q) : j[i] = q[i]
<1> DEFINE j == q \o <<x, y>>
<1>1. j \in Seq(S) /\ Len(j) = Len(q) + 2 /\ DOMAIN j = 1 .. Len(q) + 2
    OBVIOUS
<1>2. /\ j[Len(q) + 1] = x /\ j[Len(q) + 2] = y
      /\ \A i \in 1 .. Len(q) : j[i] = q[i]
    OBVIOUS
<1>3. j # <<>>
    <2> HIDE DEF j
    <2> QED
        BY <1>1, Empty
<1> QED
    BY <1>1, <1>2, <1>3

\* What is at the head of the requests is the oldest of what was sent.
LEMMA HeadIsOurs ==
    ASSUME Exchange, toDev # <<>>
    PROVE  \/ Head(toDev) = Block
           \/ pc = "recv" /\ Head(toDev) = Asks
           \/ pc = "recv" /\ ~Unverified /\ Head(toDev) = Verification
<1>1. CASE pc # "recv"
    BY <1>1, Tails DEF Exchange
<1>2. CASE pc = "recv" /\ Unverified
    BY <1>2, Tails DEF Exchange, Asking
<1>3. CASE pc = "recv" /\ ~Unverified
    <2>1. /\ toDev \in Seq({Block, Asks, Verification})
          /\ \A i \in DOMAIN toDev :
                toDev[i] \in {Block, Asks} \/ toDev[i] = Verification
        BY <1>3 DEF Exchange, Verifying
    <2>2. Head(toDev) = toDev[1] /\ 1 \in DOMAIN toDev
        BY <2>1, Tails
    <2> QED
        BY <1>3, <2>1, <2>2
<1> QED
    BY <1>1, <1>2, <1>3

LEMMA Asked ==
    /\ pc \in {"send", "recv"} /\ Control /\ Unverified =>
          Asks.op = "GET"
    /\ ~Unverified => Asks.op \in {"SET", "CMD"}
    /\ stage = "command" => Asks = Request("CMD", call.op, call.v)
    /\ stage \in {"count", "count2"} =>
          Asks = Request("GET", "sweep_entry_size", <<>>)
    /\ stage = "status" => Asks = Request("GET", "sweep_status", <<>>)
<1>1. \A op, s, v : Request(op, s, v).op = op
    BY DEF Request
<1>2. ~Unverified => Asks.op \in {"SET", "CMD"}
    BY <1>1 DEF Unverified, Asks
<1>3. /\ stage = "command" => Asks = Request("CMD", call.op, call.v)
      /\ stage \in {"count", "count2"} =>
            Asks = Request("GET", "sweep_entry_size", <<>>)
      /\ stage = "status" => Asks = Request("GET", "sweep_status", <<>>)
    BY DEF Asks
<1>4. ASSUME pc \in {"send", "recv"}, Control, Unverified
      PROVE  Asks.op = "GET"
    <2>1. stage \in {"count", "count2", "status", "mode", "entry", "get"}
        BY <1>4 DEF Control, Unverified, StagesOf
    <2> QED
        BY <1>1, <2>1 DEF Asks
<1> QED
    BY <1>2, <1>3, <1>4

\* A flush at the head of the requests is the one of the call that waits.
LEMMA FlushIsOurs ==
    ASSUME Control, Exchange, FlushRests, toDev # <<>>, running = "SWEEPING"
    PROVE  Head(toDev) # Request("CMD", "flush", <<>>)
<1> DEFINE Flush == Request("CMD", "flush", <<>>)
<1>1. Flush.op = "CMD" /\ Flush.s = "flush" /\ Flush # Block
    BY DEF Request, Block
<1>2. Verification.op = "ERR"
    BY DEF Verification, Request
<1>3. pc = "recv" => Asks # Flush
    <2> SUFFICES ASSUME pc = "recv", Asks = Flush
                 PROVE  FALSE
        OBVIOUS
    <2>1. stage \in {"set", "command"}
        BY <1>1, Asked DEF Unverified
    <2>2. stage = "set" => Asks.op = "SET"
        BY DEF Asks, Request
    <2>3. stage = "command" /\ Asks.s = call.op
        BY <1>1, <2>1, <2>2, Asked DEF Request
    <2> QED
        BY <1>1, <2>3 DEF FlushRests
<1> QED
    BY <1>1, <1>2, <1>3, HeadIsOurs

-----------------------------------------------------------------------------
(***************************************************************************)
(* Counting the answers that are owed.                                      *)
(***************************************************************************)
IsQuery(r) == r.op \notin {"SET", "CMD"}

LEMMA Lengths ==
    ASSUME NEW q, IsQueue(q)
    PROVE  Len(q) \in Nat /\ DOMAIN q = 1 .. Len(q) /\ (q = <<>> <=> Len(q) = 0)
BY Empty DEF IsQueue

LEMMA QueriesFinite ==
    ASSUME NEW q, IsQueue(q)
    PROVE  /\ IsFiniteSet(Queries(q)) /\ Cardinality(Queries(q)) \in Nat
           /\ Cardinality(Queries(q)) = 0 <=> \A i \in DOMAIN q : ~IsQuery(q[i])
<1>1. IsFiniteSet(1 .. Len(q))
    BY Lengths, FS_Interval
<1>2. Queries(q) \in SUBSET (1 .. Len(q))
    BY Lengths DEF Queries
<1>3. IsFiniteSet(Queries(q)) /\ Cardinality(Queries(q)) \in Nat
    BY <1>1, <1>2, FS_Subset, FS_CardinalityType
<1>4. Cardinality(Queries(q)) = 0 <=> Queries(q) = {}
    BY <1>3, FS_EmptySet
<1>5. Queries(q) = {} <=> \A i \in DOMAIN q : ~IsQuery(q[i])
    BY DEF Queries, IsQuery
<1> QED
    BY <1>3, <1>4, <1>5

LEMMA NoQueries == Cardinality(Queries(<<>>)) = 0
<1>1. Queries(<<>>) = {}
    BY DEF Queries
<1> QED
    BY <1>1, FS_EmptySet

LEMMA Appended ==
    ASSUME NEW q, IsQueue(q), NEW x
    PROVE  /\ IsQueue(Append(q, x)) /\ Append(q, x) = q \o <<x>>
           /\ Len(Append(q, x)) = Len(q) + 1 /\ Append(q, x)[Len(q) + 1] = x
           /\ \A i \in 1 .. Len(q) : Append(q, x)[i] = q[i]
<1> PICK S : q \in Seq(S)
    BY DEF IsQueue
<1> DEFINE T == S \cup {x}
<1>1. q \in Seq(T) /\ x \in T
    OBVIOUS
<1> HIDE DEF T
<1>2. Append(q, x) \in Seq(T)
    BY <1>1
<1>3. /\ Append(q, x) = q \o <<x>>
      /\ Len(Append(q, x)) = Len(q) + 1 /\ Append(q, x)[Len(q) + 1] = x
      /\ \A i \in 1 .. Len(q) : Append(q, x)[i] = q[i]
    BY <1>1
<1> QED
    BY <1>2, <1>3 DEF IsQueue

LEMMA QueriesAppend ==
    ASSUME NEW q, IsQueue(q), NEW r
    PROVE  Cardinality(Queries(Append(q, r))) =
               Cardinality(Queries(q)) + IF IsQuery(r) THEN 1 ELSE 0
<1> DEFINE t == Append(q, r)
<1>1. /\ Len(t) = Len(q) + 1 /\ Len(q) \in Nat /\ t[Len(q) + 1] = r
      /\ DOMAIN t = 1 .. Len(q) + 1 /\ DOMAIN q = 1 .. Len(q)
      /\ \A k \in 1 .. Len(q) : t[k] = q[k]
    BY Appended, Lengths
<1> HIDE DEF t
<1>2. \A k \in 1 .. Len(q) : k \in Queries(t) <=> k \in Queries(q)
    <2> TAKE k \in 1 .. Len(q)
    <2>1. t[k] = q[k] /\ k \in DOMAIN t /\ k \in DOMAIN q
        BY <1>1
    <2> QED
        BY <2>1 DEF Queries
<1>3. Len(q) + 1 \in Queries(t) <=> IsQuery(r)
    <2>1. Len(q) + 1 \in DOMAIN t
        BY <1>1
    <2> QED
        BY <1>1, <2>1 DEF Queries, IsQuery
<1>4. \A k \in Queries(t) : k \in 1 .. Len(q) \/ k = Len(q) + 1
    BY <1>1 DEF Queries
<1>5. Queries(q) \subseteq 1 .. Len(q) /\ Len(q) + 1 \notin Queries(q)
    BY <1>1 DEF Queries
<1>6. Cardinality(Queries(q)) \in Nat
    BY QueriesFinite
<1>7. CASE IsQuery(r)
    <2>1. Queries(t) = Queries(q) \cup {Len(q) + 1}
        BY <1>2, <1>3, <1>4, <1>5, <1>7
    <2>2. Cardinality(Queries(q) \cup {Len(q) + 1}) = Cardinality(Queries(q)) + 1
        BY <1>5, QueriesFinite, FS_AddElement
    <2> QED
        BY <1>7, <2>1, <2>2 DEF t
<1>8. CASE ~IsQuery(r)
    <2>1. Queries(t) = Queries(q)
        BY <1>2, <1>3, <1>4, <1>5, <1>8
    <2> QED
        BY <1>6, <1>8, <2>1 DEF t
<1> QED
    BY <1>7, <1>8

LEMMA Later ==
    ASSUME NEW q, IsQueue(q), q # <<>>
    PROVE  /\ Head(q) = q[1] /\ IsQueue(Tail(q))
           /\ Len(q) \in Nat \ {0} /\ Len(Tail(q)) = Len(q) - 1
           /\ DOMAIN q = 1 .. Len(q) /\ DOMAIN Tail(q) = 1 .. Len(q) - 1
           /\ \A i \in 1 .. Len(q) - 1 : Tail(q)[i] = q[i + 1]
           /\ Tail(q) = <<>> <=> Len(q) = 1
BY Tails DEF IsQueue

\* The queries of what is left are those after the first, moved by one place.
LEMMA QueriesTail ==
    ASSUME NEW q, IsQueue(q), q # <<>>
    PROVE  Cardinality(Queries(q)) =
               Cardinality(Queries(Tail(q))) + IF IsQuery(Head(q)) THEN 1 ELSE 0
<1> DEFINE t == Tail(q)
           later == Queries(q) \ {1}
           f == [k \in later |-> k - 1]
<1>1. /\ Len(q) \in Nat /\ Len(q) >= 1 /\ Head(q) = q[1] /\ IsQueue(t)
      /\ DOMAIN q = 1 .. Len(q) /\ DOMAIN t = 1 .. Len(q) - 1
      /\ \A i \in 1 .. Len(q) - 1 : t[i] = q[i + 1]
    BY Later
<1> HIDE DEF t
<1>2. IsFiniteSet(later) /\ Cardinality(Queries(t)) = Cardinality(later)
    <2>1. IsFiniteSet(later)
        BY QueriesFinite, FS_RemoveElement
    <2>2. \A k \in later : k \in Int /\ k - 1 \in Queries(t)
        <3> TAKE k \in later
        <3>1. k \in 2 .. Len(q) /\ IsQuery(q[k])
            BY <1>1 DEF Queries, IsQuery
        <3>2. k - 1 \in 1 .. Len(q) - 1 /\ (k - 1) + 1 = k
            BY <1>1, <3>1
        <3>3. t[k - 1] = q[k] /\ k - 1 \in DOMAIN t
            BY <1>1, <3>2
        <3> QED
            BY <3>1, <3>3 DEF Queries, IsQuery
    <2>3. \A j \in Queries(t) : j + 1 \in later /\ f[j + 1] = j
        <3> TAKE j \in Queries(t)
        <3>1. j \in 1 .. Len(q) - 1 /\ IsQuery(t[j])
            BY <1>1 DEF Queries, IsQuery
        <3>2. j + 1 \in 1 .. Len(q) /\ j + 1 # 1 /\ (j + 1) - 1 = j
            BY <1>1, <3>1
        <3>3. q[j + 1] = t[j]
            BY <1>1, <3>1
        <3>4. j + 1 \in later
            BY <1>1, <3>1, <3>2, <3>3 DEF Queries, IsQuery
        <3> QED
            BY <3>2, <3>4
    <2>4. f \in [later -> Queries(t)]
        BY <2>2
    <2>5. \A a, b \in later : f[a] = f[b] => a = b
        BY <2>2
    <2>6. \A j \in Queries(t) : \E k \in later : f[k] = j
        BY <2>3
    <2> HIDE DEF f, later
    <2>7. f \in Bijection(later, Queries(t))
        BY <2>4, <2>5, <2>6, Fun_IsBij
    <2>8. ExistsBijection(later, Queries(t))
        BY <2>7, Fun_ExistsBij
    <2> QED
        BY <2>1, <2>8, FS_Bijection
<1>3. 1 \in Queries(q) <=> IsQuery(Head(q))
    <2>1. 1 \in DOMAIN q
        BY <1>1
    <2> QED
        BY <1>1, <2>1 DEF Queries, IsQuery
<1>4. Cardinality(later) \in Nat
    BY <1>2, FS_CardinalityType
<1>5. CASE IsQuery(Head(q))
    <2>1. Cardinality(later) = Cardinality(Queries(q)) - 1
        BY <1>3, <1>5, QueriesFinite, FS_RemoveElement
    <2>2. Cardinality(Queries(q)) \in Nat
        BY QueriesFinite
    <2> HIDE DEF later
    <2> QED
        BY <1>2, <1>4, <1>5, <2>1, <2>2 DEF t
<1>6. CASE ~IsQuery(Head(q))
    <2>1. later = Queries(q)
        BY <1>3, <1>6
    <2> HIDE DEF later
    <2> QED
        BY <1>2, <1>4, <1>6, <2>1 DEF t
<1> QED
    BY <1>5, <1>6

\* How a call's waiting ends: never in waiting again.
LEMMA Concludes ==
    ASSUME Control, pc \in {"send", "recv"}, NEW q, Concluded(q)
    PROVE  /\ pc' \in {"idle", "send", "crashed"}
           /\ told' = told \/ \E status, out : told' = ToldAfter(status, out)
<1>1. \A st : GoOn(st) => pc' = "send" /\ told' = told
    BY DEF GoOn
<1>2. \A status, out :
         Return(status, out) => pc' = "idle" /\ told' = ToldAfter(status, out)
    BY DEF Return
<1> QED
    BY <1>1, <1>2, Conclusions

\* What is sent: a query, a command with its verification, or a block capture.
LEMMA Sent ==
    ASSUME Control, pc = "send"
    PROVE  \/ call.op = "capture_block" /\ Sends = <<Asks>> /\ Asks = Block
           \/ /\ call.op # "capture_block" /\ Unverified
              /\ Sends = <<Asks>> /\ Asks.op = "GET"
           \/ /\ call.op # "capture_block" /\ ~Unverified
              /\ Sends = <<Asks, Verification>> /\ Asks.op \in {"SET", "CMD"}
<1>1. CASE call.op = "capture_block"
    <2>1. stage = "command"
        BY <1>1 DEF Control, StagesOf
    <2> QED
        BY <1>1, <2>1, Asked DEF Control, Sends, Block
<1>2. CASE call.op # "capture_block"
    BY <1>2, Asked DEF Sends, Unverified
<1> QED
    BY <1>1, <1>2

LEMMA Requests ==
    /\ Verification.op = "ERR" /\ IsQuery(Verification) /\ Quiet(Verification)
    /\ Block.op = "CMD" /\ ~IsQuery(Block) /\ Quiet(Block)
BY DEF Verification, Block, Request, IsQuery, Quiet

LEMMA ShapeStep ==
    ASSUME Shape, Control, [Next]_vars
    PROVE  Shape'
<1>1. session' = session
    BY OneSession
<1>2. told' = told \/ \E status, out : told' = ToldAfter(status, out)
    <2>1. CASE Application
        BY <2>1, CallsBegin DEF BeginsAs, Begin, GoOn, AtOnce
    <2>2. CASE Send
        BY <2>2 DEF Send, Return
    <2>3. CASE SendRefused
        <3>1. \/ \E status, out : Return(status, out)
              \/ pc \in {"send", "recv"} /\ \E q : Concluded(q)
            BY <2>3 DEF SendRefused
        <3> QED
            BY <3>1, Concludes DEF Return
    <2>4. CASE GiveUp \/ \E n \in 1 .. Len(toCli) : Receive(n)
        BY <2>4, Concludes DEF GiveUp, Receive
    <2>5. CASE DeviceExecutes \/ SweepEnds \/ LinkDown \/ UNCHANGED vars
        BY <2>5 DEF DeviceExecutes, SweepEnds, LinkDown, vars, client
    <2> QED
        BY <2>1, <2>2, <2>3, <2>4, <2>5 DEF Next, Library
<1>3. DOMAIN told' = session.focus
    BY <1>2 DEF Shape, ToldAfter
<1>4. running' = running \/ running' \in {"BLOCK", "SWEEPING", "STREAMING"}
    <2>1. CASE Application
        BY <2>1, CallsBegin DEF BeginsAs, Begin, device
    <2>2. CASE Library
        BY <2>2 DEF Library, Send, SendRefused, Receive, GiveUp, device
    <2>3. CASE DeviceExecutes
        <3>1. (\E r : Executes(r)) \/ running' = running
            BY <2>3 DEF DeviceExecutes, device
        <3>2. ASSUME NEW r, Executes(r)
              PROVE  running' = running \/ running' \in {"BLOCK", "SWEEPING", "STREAMING"}
            BY <3>2 DEF Executes
        <3> QED
            BY <3>1, <3>2
    <2>4. CASE SweepEnds \/ LinkDown \/ UNCHANGED vars
        BY <2>4 DEF SweepEnds, LinkDown, vars, device
    <2> QED
        BY <2>1, <2>2, <2>3, <2>4 DEF Next
<1> QED
    BY <1>1, <1>3, <1>4 DEF Shape

\* The requests on their way, and the queries among them, after a send.
LEMMA QueriesSent ==
    ASSUME Control, pc = "send", IsQueue(toDev)
    PROVE  Cardinality(Queries(toDev \o Sends)) =
               Cardinality(Queries(toDev)) + IF call.op = "capture_block" THEN 0 ELSE 1
<1> DEFINE n == Cardinality(Queries(toDev))
<1>1. n \in Nat
    BY QueriesFinite
<1>2. ASSUME NEW r, Sends = <<r>>
      PROVE  Cardinality(Queries(toDev \o Sends)) = n + IF IsQuery(r) THEN 1 ELSE 0
    <2>1. toDev \o Sends = Append(toDev, r)
        BY <1>2, Appended
    <2>2. Cardinality(Queries(Append(toDev, r))) = n + IF IsQuery(r) THEN 1 ELSE 0
        BY QueriesAppend
    <2> QED
        BY <2>1, <2>2
<1>3. ASSUME NEW r, NEW s, Sends = <<r, s>>, ~IsQuery(r), IsQuery(s)
      PROVE  Cardinality(Queries(toDev \o Sends)) = n + 1
    <2> DEFINE q == Append(toDev, r)
    <2>1. IsQueue(q)
        BY Appended
    <2>2. toDev \o Sends = Append(q, s)
        <3> PICK S : toDev \in Seq(S)
            BY DEF IsQueue
        <3> DEFINE T == S \cup {r, s}
        <3>1. toDev \in Seq(T) /\ r \in T /\ s \in T
            OBVIOUS
        <3> HIDE DEF T
        <3>2. toDev \o <<r, s>> = Append(Append(toDev, r), s)
            BY <3>1
        <3> QED
            BY <1>3, <3>2
    <2>3. Cardinality(Queries(q)) = n
        BY <1>1, <1>3, QueriesAppend
    <2> HIDE DEF q, n
    <2>4. Cardinality(Queries(Append(q, s))) = n + 1
        BY <1>3, <2>1, <2>3, QueriesAppend
    <2> QED
        BY <2>2, <2>4
<1> HIDE DEF n
<1>4. CASE call.op = "capture_block"
    <2>1. Sends = <<Block>> /\ ~IsQuery(Block)
        BY <1>4, Sent, Requests
    <2> QED
        BY <1>1, <1>2, <1>4, <2>1 DEF n
<1>5. CASE call.op # "capture_block" /\ Unverified
    <2>1. Sends = <<Asks>> /\ IsQuery(Asks)
        BY <1>5, Sent DEF IsQuery
    <2> QED
        BY <1>2, <1>5, <2>1 DEF n
<1>6. CASE call.op # "capture_block" /\ ~Unverified
    <2>1. Sends = <<Asks, Verification>> /\ ~IsQuery(Asks) /\ IsQuery(Verification)
        BY <1>6, Sent, Requests DEF IsQuery
    <2> QED
        BY <1>3, <1>6, <2>1 DEF n
<1> QED
    BY <1>4, <1>5, <1>6

LEMMA AnswersStep ==
    ASSUME Texts, Control, Counts, Answers, [Next]_vars
    PROVE  Answers'
<1> DEFINE n == Cardinality(Queries(toDev))
           m == Len(toCli)
<1>1. /\ n \in Nat /\ m \in Nat /\ lates \in Nat /\ Owed = n + m
      /\ Owed' = Cardinality(Queries(toDev')) + Len(toCli')
      /\ (toCli = <<>> <=> m = 0) /\ (toDev = <<>> => n = 0)
    BY QueriesFinite, NoQueries, Lengths DEF Texts, Counts, Owed
<1>2. ASSUME UNCHANGED <<toDev, toCli, lates, link>>, pc = "recv" => pc' = "recv"
      PROVE  Answers'
    <2>1. Owed' = Owed /\ Owed \in Nat
        <3> HIDE DEF n, m
        <3>1. Owed \in Nat
            BY <1>1
        <3> QED
            BY <1>2, <3>1 DEF Owed
    <2> QED
        BY <1>1, <1>2, <2>1 DEF Answers
<1>3. CASE Application
    <2>1. UNCHANGED <<toDev, toCli, lates, link>> /\ pc = "idle"
        BY <1>3, CallsBegin DEF BeginsAs, Begin, wires
    <2> QED
        BY <1>2, <2>1
<1>4. CASE Send
    <2>1. /\ pc = "send" /\ UNCHANGED <<toCli, lates, link>>
          /\ toDev' = IF link = "up" THEN toDev \o Sends ELSE toDev
          /\ call.op # "capture_block" => pc' = "recv"
        BY <1>4 DEF Send
    <2>2. n + m <= lates
        <3> HIDE DEF n, m
        <3> QED
            BY <1>1, <2>1 DEF Answers
    <2>3. Cardinality(Queries(toDev')) <= n + IF call.op = "capture_block" THEN 0 ELSE 1
        BY <1>1, <2>1, QueriesSent DEF Texts
    <2>4. Cardinality(Queries(toDev')) \in Nat
        <3>1. IsQueue(Sends)
            BY OneOrTwo DEF Sends
        <3>2. IsQueue(toDev')
            BY <2>1, <3>1, Queues DEF Texts
        <3> QED
            BY <3>2, QueriesFinite
    <2> HIDE DEF n, m
    <2>5. Cardinality(Queries(toDev')) + Len(toCli')
             <= lates' + IF pc' = "recv" THEN 1 ELSE 0
        BY <1>1, <2>1, <2>2, <2>3, <2>4 DEF m
    <2> QED
        BY <1>1, <2>1, <2>5 DEF Answers
<1>5. ASSUME NEW k \in 1 .. Len(toCli), Receive(k)
      PROVE  Answers'
    <2>1. /\ pc = "recv" /\ UNCHANGED <<toDev, lates, link>>
          /\ toCli' = SubSeq(toCli, k + 1, Len(toCli))
        BY <1>5 DEF Receive
    <2>2. Len(toCli') = m - k
        BY <2>1 DEF Texts, IsQueue
    <2>3. n + m <= lates + 1
        BY <1>1, <2>1 DEF Answers
    <2>4. n + Len(toCli') <= lates
        <3> HIDE DEF n
        <3> QED
            BY <1>1, <2>2, <2>3
    <2> HIDE DEF n, m
    <2>5. n + Len(toCli') <= lates + IF pc' = "recv" THEN 1 ELSE 0
        BY <1>1, <2>2, <2>4 DEF m
    <2> QED
        BY <1>1, <2>1, <2>5 DEF Answers, n
<1>6. CASE GiveUp
    <2>1. /\ pc = "recv" /\ UNCHANGED <<toDev, toCli, link>>
          /\ lates' = IF UnderWay THEN lates + 1 ELSE lates
        BY <1>6 DEF GiveUp
    <2>2. n + m <= lates'
        <3>1. n + m <= lates + 1
            BY <1>1, <2>1 DEF Answers
        <3>2. CASE UnderWay
            BY <2>1, <3>1, <3>2
        <3>3. CASE ~UnderWay
            <4>1. n = 0 /\ m = 0
                BY <1>1, <3>3 DEF UnderWay
            <4> QED
                BY <1>1, <2>1, <3>3, <4>1
        <3> QED
            BY <3>2, <3>3
    <2> HIDE DEF n, m
    <2>3. lates' \in Nat /\ n + m \in Nat
        BY <1>1, <2>1
    <2>4. n + m <= lates' + IF pc' = "recv" THEN 1 ELSE 0
        BY <2>2, <2>3
    <2> QED
        BY <1>1, <2>1, <2>4 DEF Answers, n, m
<1>7. CASE SendRefused
    <2>1. link = "down" /\ toCli = <<>> /\ UNCHANGED <<toDev, toCli, lates, link>>
        BY <1>7 DEF SendRefused, wires
    <2>2. toDev = <<>>
        BY <2>1 DEF Answers
    <2>3. Owed' = 0 /\ lates' \in Nat
        BY <1>1, <2>1, <2>2
    <2> QED
        BY <2>1, <2>2, <2>3 DEF Answers
<1>8. CASE DeviceExecutes
    <2> DEFINE r == Head(toDev)
    <2>1. /\ toDev # <<>> /\ toDev' = Tail(toDev) /\ UNCHANGED <<link, lates, pc>>
          /\ toCli' = toCli \/ (IsQuery(r) /\ \E a : toCli' = Append(toCli, a))
        BY <1>8 DEF DeviceExecutes, client, IsQuery
    <2>2. Len(toCli') <= m + IF IsQuery(r) THEN 1 ELSE 0
        <3>1. \A a : Len(Append(toCli, a)) = m + 1
            BY Appended DEF Texts
        <3> HIDE DEF m, r
        <3> QED
            BY <1>1, <2>1, <3>1 DEF m
    <2>3. n = Cardinality(Queries(toDev')) + IF IsQuery(r) THEN 1 ELSE 0
        BY <2>1, QueriesTail DEF Texts
    <2>4. Cardinality(Queries(toDev')) \in Nat
        BY <2>1, Later, QueriesFinite DEF Texts
    <2>5. link # "down"
        BY <2>1 DEF Answers
    <2>6. Len(toCli') \in Nat
        <3>1. \A a : Len(Append(toCli, a)) = m + 1
            BY Appended DEF Texts
        <3> HIDE DEF m, r
        <3> QED
            BY <1>1, <2>1, <3>1 DEF m
    <2> HIDE DEF n, m, r
    <2>7. Cardinality(Queries(toDev')) + Len(toCli') <= n + m
        BY <1>1, <2>2, <2>3, <2>4, <2>6
    <2> QED
        BY <1>1, <2>1, <2>4, <2>5, <2>6, <2>7 DEF Answers
<1>9. CASE SweepEnds \/ UNCHANGED vars
    BY <1>2, <1>9 DEF SweepEnds, vars, wires, client
<1>10. CASE LinkDown
    <2>1. /\ toDev' = <<>> /\ UNCHANGED <<lates, pc>>
          /\ \E k \in 0 .. Len(toCli) : toCli' = SubSeq(toCli, 1, k)
        BY <1>10 DEF LinkDown, client
    <2>2. Len(toCli') \in Nat /\ Len(toCli') <= m
        BY <2>1 DEF Texts, IsQueue
    <2>3. Cardinality(Queries(toDev')) = 0
        BY <2>1, NoQueries
    <2> HIDE DEF n, m
    <2> QED
        BY <1>1, <2>1, <2>2, <2>3 DEF Answers
<1> QED
    BY <1>3, <1>4, <1>5, <1>6, <1>7, <1>8, <1>9, <1>10 DEF Next, Library

\* Without abandoned exchanges, nothing is on its way to a call that does not
\* wait, and an answer leaves nothing on its way behind it.
LEMMA NothingOwed ==
    ASSUME Texts, Counts, Answers, lates = 0, pc # "recv"
    PROVE  toCli = <<>> /\ \A i \in DOMAIN toDev : ~IsQuery(toDev[i])
<1> DEFINE n == Cardinality(Queries(toDev))
           m == Len(toCli)
<1>1. n \in Nat /\ m \in Nat /\ n + m <= 0
    BY QueriesFinite, Lengths DEF Texts, Answers, Owed
<1>2. n = 0 /\ m = 0
    <2> HIDE DEF n, m
    <2> QED
        BY <1>1
<1> QED
    BY <1>2, QueriesFinite, Lengths DEF Texts

LEMMA OneOwed ==
    ASSUME Texts, Counts, Answers, lates = 0, pc = "recv",
           NEW k \in 1 .. Len(toCli)
    PROVE  k = 1 /\ Len(toCli) = 1 /\ \A i \in DOMAIN toDev : ~IsQuery(toDev[i])
<1> DEFINE n == Cardinality(Queries(toDev))
           m == Len(toCli)
<1>1. n \in Nat /\ m \in Nat /\ n + m <= 1
    BY QueriesFinite, Lengths DEF Texts, Answers, Owed
<1>2. n = 0 /\ m = 1 /\ k = 1
    <2>1. k \in 1 .. m
        OBVIOUS
    <2> HIDE DEF n, m
    <2> QED
        BY <1>1, <2>1
<1> QED
    BY <1>2, QueriesFinite DEF Texts

\* What the instrument answers to the query for an entry.
LEMMA EntryHeld ==
    ASSUME Texts, NEW r, r.op = "GET", r.s = "entry", Answerable(r)
    PROVE  IsEntryText(Holding(r))
<1> DEFINE n == r.v[1].n
<1>1. EntryAt(n)
    BY Zenon DEF Answerable
<1>2. Holding(r) = EntryText(list[n])
    BY DEF Holding, LanSettings
<1> HIDE DEF n
<1>3. list[n] \in Entries
    BY <1>1 DEF Texts, EntryAt
<1> QED
    BY <1>2, <1>3, EntryShape DEF Entries

LEMMA EntryComesStep ==
    ASSUME Texts, Control, Counts, Answers, EntryComes, [Next]_vars
    PROVE  EntryComes'
<1> SUFFICES ASSUME lates' = 0, pc' = "recv", stage' = "entry"
             PROVE  /\ \A i \in DOMAIN toCli' : IsEntryText(toCli'[i])
                    /\ \A i \in DOMAIN toDev' :
                          toDev'[i].op \in {"SET", "CMD"} \/ toDev'[i] = Asks'
    BY DEF EntryComes
<1>1. lates = 0
    BY TrustedBefore
<1>2. ~Application
    <2> SUFFICES ASSUME NEW op, NEW s, NEW v, BeginsAs(op, s, v)
                 PROVE  FALSE
        BY CallsBegin
    <2> QED
        BY DEF BeginsAs, Begin, AtOnce, GoOn
<1>3. CASE Send
    <2>1. /\ pc = "send" /\ stage = "entry" /\ toCli' = toCli /\ Asks' = Asks
          /\ toDev' = toDev \o Sends \/ toDev' = toDev
        BY <1>3 DEF Send, Return, Asks
    <2>2. toCli = <<>> /\ \A i \in DOMAIN toDev : toDev[i].op \in {"SET", "CMD"}
        BY <1>1, <2>1, NothingOwed DEF IsQuery
    <2>3. Sends = <<Asks>>
        BY <2>1 DEF Sends
    <2>4. \A i \in DOMAIN (toDev \o Sends) :
             \/ i \in DOMAIN toDev /\ (toDev \o Sends)[i] = toDev[i]
             \/ (toDev \o Sends)[i] = Asks
        <3>1. IsQueue(toDev) /\ IsQueue(Sends)
            BY <2>3, OneOrTwo DEF Texts
        <3>2. \A i \in DOMAIN Sends : Sends[i] = Asks
            BY <2>3
        <3>3. \A i \in DOMAIN (toDev \o Sends) :
                 \/ i \in DOMAIN toDev /\ (toDev \o Sends)[i] = toDev[i]
                 \/ /\ i - Len(toDev) \in DOMAIN Sends
                    /\ (toDev \o Sends)[i] = Sends[i - Len(toDev)]
            BY <3>1, Queues
        <3> QED
            BY <3>2, <3>3
    <2>5. \A i \in DOMAIN toCli' : IsEntryText(toCli'[i])
        <3>1. DOMAIN toCli' = {}
            BY <2>1, <2>2
        <3> QED
            BY Zenon, <3>1
    <2>6. CASE toDev' = toDev
        BY <2>2, <2>5, <2>6
    <2>7. CASE toDev' = toDev \o Sends
        <3>1. \A i \in DOMAIN toDev' :
                 (i \in DOMAIN toDev /\ toDev'[i] = toDev[i]) \/ toDev'[i] = Asks'
            BY Zenon, <2>1, <2>4, <2>7
        <3>2. \A i \in DOMAIN toDev' :
                 toDev'[i].op \in {"SET", "CMD"} \/ toDev'[i] = Asks'
            BY <2>2, <3>1
        <3> QED
            BY <2>5, <3>2
    <2> QED
        BY <2>1, <2>6, <2>7
<1>4. CASE SendRefused \/ GiveUp \/ \E k \in 1 .. Len(toCli) : Receive(k)
    <2>1. \/ \E status, out : Return(status, out)
          \/ pc \in {"send", "recv"} /\ \E q : Concluded(q)
        BY <1>4 DEF SendRefused, GiveUp, Receive
    <2> QED
        BY <2>1, Concludes DEF Return
<1>5. CASE DeviceExecutes
    <2> DEFINE r == Head(toDev)
    <2>1. /\ toDev # <<>> /\ toDev' = Tail(toDev) /\ Asks' = Asks
          /\ pc = "recv" /\ stage = "entry"
          /\ \/ toCli' = toCli
             \/ r.op = "GET" /\ Answerable(r) /\ toCli' = Append(toCli, Holding(r))
             \/ r.op = "ERR"
        BY <1>5 DEF DeviceExecutes, client, Asks
    <2>2. r = toDev[1] /\ 1 \in DOMAIN toDev
          /\ \A i \in DOMAIN toDev' : i + 1 \in DOMAIN toDev /\ toDev'[i] = toDev[i + 1]
        BY <2>1, Later DEF Texts
    <2>3. r.op \in {"SET", "CMD"} \/ r = Asks
        BY <1>1, <2>1, <2>2 DEF EntryComes
    <2>4. Asks.op = "GET" /\ Asks.s = "entry"
        BY <2>1 DEF Asks, Request
    <2> HIDE DEF r
    <2>5. CASE toCli' = toCli
        BY <1>1, <2>1, <2>2, <2>5 DEF EntryComes
    <2>6. CASE r.op = "GET" /\ Answerable(r) /\ toCli' = Append(toCli, Holding(r))
        <3>1. IsEntryText(Holding(r))
            <4>1. r.op = "GET" /\ Answerable(r)
                BY <2>6
            <4>2. r.s = "entry"
                BY <2>3, <2>4, <4>1
            <4> QED
                BY <4>1, <4>2, EntryHeld
        <3>2. \A i \in DOMAIN toCli' :
                 (i \in DOMAIN toCli /\ toCli'[i] = toCli[i]) \/ toCli'[i] = Holding(r)
            <4>1. /\ IsQueue(toCli') /\ Len(toCli') = Len(toCli) + 1
                  /\ toCli'[Len(toCli) + 1] = Holding(r)
                  /\ \A i \in 1 .. Len(toCli) : toCli'[i] = toCli[i]
                <5>1. \A x : /\ IsQueue(Append(toCli, x))
                            /\ Len(Append(toCli, x)) = Len(toCli) + 1
                            /\ Append(toCli, x)[Len(toCli) + 1] = x
                            /\ \A i \in 1 .. Len(toCli) : Append(toCli, x)[i] = toCli[i]
                    BY Appended DEF Texts
                <5>2. toCli' = Append(toCli, Holding(r))
                    BY <2>6
                <5> QED
                    BY <5>1, <5>2
            <4>2. /\ DOMAIN toCli' = 1 .. Len(toCli) + 1
                  /\ DOMAIN toCli = 1 .. Len(toCli) /\ Len(toCli) \in Nat
                BY <4>1, Lengths DEF Texts
            <4> QED
                BY <4>1, <4>2
        <3> QED
            BY <1>1, <2>1, <2>2, <3>1, <3>2 DEF EntryComes
    <2> QED
        BY <2>1, <2>3, <2>4, <2>5, <2>6
<1>6. CASE SweepEnds \/ UNCHANGED vars
    <2>1. UNCHANGED <<toDev, toCli, pc, stage, call>>
        BY <1>6 DEF SweepEnds, vars, wires, client
    <2> QED
        BY <1>1, <2>1 DEF EntryComes, Asks
<1>7. CASE LinkDown
    <2>1. /\ toDev' = <<>> /\ UNCHANGED <<pc, stage>>
          /\ \E k \in 0 .. Len(toCli) : toCli' = SubSeq(toCli, 1, k)
        BY <1>7 DEF LinkDown, client
    <2>2. \A i \in DOMAIN toCli' : i \in DOMAIN toCli /\ toCli'[i] = toCli[i]
        BY <2>1 DEF Texts, IsQueue
    <2> QED
        BY <1>1, <2>1, <2>2 DEF EntryComes
<1> QED
    BY <1>2, <1>3, <1>4, <1>5, <1>6, <1>7 DEF Next, Library

\* Only the text of an entry can end the process.
LEMMA CrashDecided ==
    ASSUME NEW q, Concluded(q), pc' = "crashed"
    PROVE  /\ stage = "entry" /\ q.status = "answered"
           /\ wsa_sweep_entry_read(q.text).status = "crash"
<1>1. \A st : ~GoOn(st)
    BY DEF GoOn
<1>2. \A status, out : ~Return(status, out)
    BY DEF Return
<1>3. ~Verified(q) /\ ~SizeReadAgain(q) /\ ~StatusKnown(q)
    BY <1>1, <1>2 DEF Verified, SizeReadAgain, StatusKnown
<1>4. ~SizeRead(q)
    <2>1. \A r, size : ~SizeKnown(r, size)
        BY <1>1, <1>2 DEF SizeKnown
    <2> QED
        BY <2>1 DEF SizeRead
<1>5. \A m : ~ModeCompared(m)
    BY <1>1, <1>2 DEF ModeCompared
<1>6. stage = "entry" /\ EntryAnswered(q)
    BY <1>2, <1>3, <1>4, <1>5 DEF Concluded
<1> QED
    BY <1>2, <1>6 DEF EntryAnswered

LEMMA CrashesStep ==
    ASSUME Texts, Control, Counts, Answers, EntryComes, Crashes, [Next]_vars
    PROVE  Crashes'
<1> SUFFICES ASSUME pc' = "crashed", lates' = 0
             PROVE  FALSE
    <2>1. lates' \in Nat
        BY TrustedBefore DEF Counts
    <2> QED
        BY <2>1 DEF Crashes
<1>1. lates = 0 /\ pc # "crashed"
    BY TrustedBefore DEF Crashes
<1>2. ~Application
    <2> SUFFICES ASSUME NEW op, NEW s, NEW v, BeginsAs(op, s, v)
                 PROVE  FALSE
        BY CallsBegin
    <2> QED
        BY <1>1 DEF BeginsAs, Begin, AtOnce, GoOn
<1>3. ~Send
    BY DEF Send, Return
<1>4. ~SendRefused /\ ~GiveUp
    BY CrashDecided DEF SendRefused, GiveUp, Return
<1>5. ASSUME NEW k \in 1 .. Len(toCli), Receive(k)
      PROVE  FALSE
    <2> DEFINE a == Together(SubSeq(toCli, 1, k))
    <2>1. pc = "recv" /\ Concluded([status |-> "answered", text |-> a])
        BY <1>5 DEF Receive
    <2>2. k = 1 /\ Len(toCli) = 1
        BY <1>1, <2>1, OneOwed
    <2>3. a = toCli[1] /\ 1 \in DOMAIN toCli
        BY <2>2 DEF Together, Texts, IsQueue
    <2> HIDE DEF a
    <2>4. stage = "entry" /\ wsa_sweep_entry_read(a).status = "crash"
        BY <2>1, CrashDecided
    <2>5. IsEntryText(a)
        BY <1>1, <2>1, <2>3, <2>4 DEF EntryComes
    <2> QED
        BY <2>4, <2>5, EntryIsRead
<1>6. ~DeviceExecutes /\ ~SweepEnds /\ ~LinkDown /\ ~UNCHANGED vars
    BY <1>1 DEF DeviceExecutes, SweepEnds, LinkDown, vars, client
<1> QED
    BY <1>2, <1>3, <1>4, <1>5, <1>6 DEF Next, Library

\* No request but a command that is being verified adds an error to those that
\* are asked for.
LEMMA QuietRequests ==
    ASSUME Counts, DeviceExecutes, Quiet(Head(toDev))
    PROVE  errs' <= orphans' + errs - orphans
<1> DEFINE r == Head(toDev)
<1>1. /\ errs \in Nat /\ orphans \in Nat
      /\ \/ UNCHANGED <<errs, orphans>>
         \/ /\ r.op \in {"SET", "CMD"} /\ errs' = errs + 1
            /\ orphans' = IF r.s = "capture_block" THEN orphans + 1 ELSE orphans
         \/ errs' = errs + 1 /\ orphans' = orphans + 1
         \/ errs' = (IF errs = 0 THEN 0 ELSE errs - 1) /\ orphans' = orphans
    BY DEF Counts, DeviceExecutes, device
<1> HIDE DEF r
<1>2. r.op \in {"SET", "CMD"} => r.s = "capture_block"
    BY DEF Quiet, r
<1> QED
    BY <1>1, <1>2

LEMMA AnyRequest ==
    ASSUME Counts, DeviceExecutes
    PROVE  errs' <= orphans' + errs - orphans + 1
<1>1. /\ errs \in Nat /\ orphans \in Nat
      /\ errs' = errs \/ errs' = errs + 1 \/ errs' = (IF errs = 0 THEN 0 ELSE errs - 1)
      /\ orphans' = orphans \/ orphans' = orphans + 1
    BY DEF Counts, DeviceExecutes, device
<1> QED
    BY <1>1

LEMMA BacklogAfterSend ==
    ASSUME Texts, Control, Counts, Backlog, Send, lates = 0, link = "up"
    PROVE  Backlog'
<1>1. /\ pc = "send" /\ toDev' = toDev \o Sends /\ UNCHANGED <<errs, orphans, call>>
      /\ UNCHANGED stage /\ Unverified' = Unverified /\ Verification' = Verification
      /\ call.op # "capture_block" => pc' = "recv"
      /\ call.op = "capture_block" => pc' = "idle"
    BY DEF Send, Return, device, Unverified, Verification
<1>2. /\ errs <= orphans /\ \A i \in DOMAIN toDev : Quiet(toDev[i])
      /\ errs \in Nat /\ orphans \in Nat /\ IsQueue(toDev)
    BY <1>1 DEF Backlog, IsVerified, Counts, Texts
<1>3. ASSUME NEW r, Sends = <<r>>, Quiet(r)
      PROVE  \A i \in DOMAIN toDev' : Quiet(toDev'[i])
    <2>1. toDev' = Append(toDev, r) /\ IsQueue(toDev')
        <3>1. Append(toDev, r) = toDev \o <<r>> /\ IsQueue(Append(toDev, r))
            BY <1>2, Appended
        <3> QED
            BY <1>1, <1>3, <3>1
    <2>2. /\ DOMAIN toDev' = 1 .. Len(toDev) + 1
          /\ DOMAIN toDev = 1 .. Len(toDev) /\ Len(toDev) \in Nat
          /\ toDev'[Len(toDev) + 1] = r
          /\ \A i \in 1 .. Len(toDev) : toDev'[i] = toDev[i]
        BY <1>2, <2>1, Appended, Lengths
    <2> QED
        BY <1>2, <1>3, <2>2
<1>4. CASE call.op = "capture_block"
    <2>1. \A i \in DOMAIN toDev' : Quiet(toDev'[i])
        BY <1>1, <1>3, <1>4, Sent, Requests
    <2>2. ~IsVerified'
        BY <1>1, <1>4 DEF IsVerified
    <2> QED
        BY <1>1, <1>2, <2>1, <2>2 DEF Backlog
<1>5. CASE call.op # "capture_block" /\ Unverified
    <2>1. Sends = <<Asks>> /\ Quiet(Asks)
        BY <1>1, <1>5, Sent DEF Quiet
    <2>2. \A i \in DOMAIN toDev' : Quiet(toDev'[i])
        BY <1>3, <2>1
    <2>3. ~IsVerified'
        BY <1>1, <1>5 DEF IsVerified
    <2> QED
        BY <1>1, <1>2, <2>2, <2>3 DEF Backlog
<1>6. CASE call.op # "capture_block" /\ ~Unverified
    <2>1. toDev' = toDev \o <<Asks, Verification>>
        BY <1>1, <1>6, Sent
    <2>2. /\ Len(toDev') = Len(toDev) + 2 /\ toDev' # <<>>
          /\ DOMAIN toDev' = 1 .. Len(toDev) + 2 /\ DOMAIN toDev = 1 .. Len(toDev)
          /\ toDev'[Len(toDev) + 2] = Verification /\ Len(toDev) \in Nat
          /\ \A i \in 1 .. Len(toDev) : toDev'[i] = toDev[i]
        <3> PICK S : toDev \in Seq(S)
            BY <1>2 DEF IsQueue
        <3> DEFINE T == S \cup {Asks, Verification}
        <3>1. toDev \in Seq(T) /\ Asks \in T /\ Verification \in T
            OBVIOUS
        <3> HIDE DEF T
        <3> QED
            BY <2>1, <3>1, JoinedByTwo
    <2>3. IsVerified'
        BY <1>1, <1>6, <2>2 DEF IsVerified
    <2>4. \A i \in DOMAIN toDev' : Quiet(toDev'[i]) \/ i = Len(toDev') - 1
        BY <1>2, <2>2, Requests
    <2>5. errs' <= orphans'
        BY <1>1, <1>2
    <2> QED
        BY <1>1, <2>2, <2>3, <2>4, <2>5 DEF Backlog
<1> QED
    BY <1>4, <1>5, <1>6

LEMMA NoneAdded ==
    ASSUME NEW e \in Nat, NEW o \in Nat, NEW f \in Nat, NEW p \in Nat, e <= o
    PROVE  /\ f <= p + e - o => f <= p
           /\ f <= p + e - o + 1 => f <= p + 1
PROOF OBVIOUS

LEMMA BacklogAfterDevice ==
    ASSUME Texts, Counts, Backlog, DeviceExecutes, lates = 0, link = "up"
    PROVE  Backlog'
<1>1. /\ toDev # <<>> /\ toDev' = Tail(toDev) /\ UNCHANGED <<pc, stage>>
      /\ Unverified' = Unverified /\ Verification' = Verification
    BY DEF DeviceExecutes, client, Unverified, Verification
<1> DEFINE n == Len(toDev)
<1>2. /\ n \in Nat \ {0} /\ Len(toDev') = n - 1
      /\ DOMAIN toDev = 1 .. n /\ DOMAIN toDev' = 1 .. n - 1
      /\ Head(toDev) = toDev[1] /\ (toDev' = <<>> <=> n = 1)
      /\ \A i \in 1 .. n - 1 : toDev'[i] = toDev[i + 1]
    BY <1>1, Later DEF Texts
<1>3. /\ errs \in Nat /\ orphans \in Nat
      /\ errs' \in Nat /\ orphans' \in Nat
    BY TrustedBefore DEF Counts, Next
<1> HIDE DEF n
<1>4. IsVerified' <=> IsVerified /\ n # 1
    BY <1>1, <1>2 DEF IsVerified
<1>5. \A i \in DOMAIN toDev' :
         Quiet(toDev'[i]) \/ (IsVerified' /\ i = Len(toDev') - 1)
    <2> TAKE i \in DOMAIN toDev'
    <2>1. i + 1 \in DOMAIN toDev /\ toDev'[i] = toDev[i + 1] /\ i \in Nat /\ n # 1
        BY <1>2
    <2>2. Quiet(toDev[i + 1]) \/ (IsVerified /\ i + 1 = n - 1)
        BY <2>1 DEF Backlog, n
    <2> QED
        BY <1>2, <1>4, <2>1, <2>2
<1>6. IsVerified' => toDev'[Len(toDev')] = Verification'
    <2> SUFFICES ASSUME IsVerified, n # 1
                 PROVE  toDev'[Len(toDev')] = Verification'
        BY <1>4
    <2>1. toDev[n] = Verification
        BY DEF Backlog, n
    <2>2. n - 1 \in 1 .. n - 1 /\ (n - 1) + 1 = n
        BY <1>2
    <2> QED
        BY <1>1, <1>2, <2>1, <2>2
<1>7. errs' <= orphans' \/ (IsVerified' /\ Len(toDev') = 1 /\ errs' <= orphans' + 1)
    <2>1. errs <= orphans \/ (IsVerified /\ n = 1 /\ errs <= orphans + 1)
        BY DEF Backlog, n
    <2>2. CASE IsVerified /\ n = 1
        <3>1. Head(toDev) = Verification
            BY <1>2, <2>2 DEF Backlog, n
        <3>2. Head(toDev).op = "ERR"
            BY <3>1, Requests
        <3>3. errs' = (IF errs = 0 THEN 0 ELSE errs - 1) /\ orphans' = orphans
            BY <3>2 DEF DeviceExecutes
        <3>4. errs <= orphans + 1
            BY <1>3, <2>1
        <3> QED
            BY <1>3, <3>3, <3>4
    <2>3. CASE IsVerified /\ n = 2
        <3>1. errs <= orphans
            <4>1. n # 1
                BY <2>3
            <4> QED
                BY <2>1, <4>1, Zenon
        <3>2. errs' <= orphans' + errs - orphans + 1
            BY AnyRequest
        <3>4. errs' <= orphans' + 1
            BY <1>3, <3>1, <3>2, NoneAdded
        <3>3. IsVerified' /\ Len(toDev') = 1
            BY <1>2, <1>4, <2>3
        <3> QED
            BY <3>3, <3>4
    <2>4. CASE ~(IsVerified /\ n \in {1, 2})
        <3>1. 1 \in DOMAIN toDev /\ ~(IsVerified /\ 1 = n - 1)
            BY <1>2, <2>4
        <3>2. Quiet(Head(toDev))
            BY <1>2, <3>1 DEF Backlog, n
        <3>3. errs <= orphans
            <4>1. ~(IsVerified /\ n = 1)
                BY <2>4
            <4> QED
                BY <2>1, <4>1, Zenon
        <3>4. errs' <= orphans' + errs - orphans
            BY <3>2, QuietRequests
        <3> QED
            BY <1>3, <3>3, <3>4, NoneAdded
    <2> QED
        BY <2>2, <2>3, <2>4
<1> QED
    BY <1>5, <1>6, <1>7 DEF Backlog

LEMMA BacklogStep ==
    ASSUME Texts, Control, Counts, Answers, Backlog, [Next]_vars
    PROVE  Backlog'
<1> SUFFICES ASSUME lates' = 0, link' = "up"
             PROVE  Backlog'
    BY DEF Backlog
<1>1. /\ lates = 0 /\ link = "up" /\ Verification' = Verification
      /\ errs \in Nat /\ orphans \in Nat
    BY TrustedBefore DEF Verification, Counts
<1>2. ASSUME UNCHANGED <<toDev, errs, orphans>>, ~IsVerified, ~IsVerified'
      PROVE  Backlog'
    BY <1>1, <1>2 DEF Backlog
<1>3. CASE Application
    <2>1. UNCHANGED <<toDev, errs, orphans>> /\ pc = "idle" /\ pc' # "recv"
        BY <1>3, CallsBegin DEF BeginsAs, Begin, GoOn, AtOnce, device, wires
    <2> QED
        BY <1>2, <2>1 DEF IsVerified
<1>4. CASE Send
    BY <1>1, <1>4, BacklogAfterSend
<1>5. ASSUME NEW k \in 1 .. Len(toCli), Receive(k)
      PROVE  Backlog'
    <2>1. UNCHANGED <<toDev, errs, orphans>> /\ pc = "recv" /\ pc' # "recv"
        BY <1>5, Concludes DEF Receive, device
    <2>2. \A i \in DOMAIN toDev : ~IsQuery(toDev[i])
        BY <1>1, <2>1, OneOwed
    <2>3. ~IsVerified
        <3> SUFFICES ASSUME IsVerified
                     PROVE  FALSE
            OBVIOUS
        <3>1. toDev[Len(toDev)] = Verification
            BY <1>1 DEF Backlog
        <3>2. Len(toDev) \in DOMAIN toDev
            BY Later DEF IsVerified, Texts
        <3> QED
            BY <2>2, <3>1, <3>2, Requests
    <2> QED
        BY <1>2, <2>1, <2>3 DEF IsVerified
<1>6. CASE GiveUp
    <2>1. UNCHANGED <<toDev, errs, orphans>> /\ pc = "recv" /\ pc' # "recv"
        BY <1>6, Concludes DEF GiveUp, device
    <2>2. toDev = <<>>
        <3>1. lates' = IF UnderWay THEN lates + 1 ELSE lates
            BY <1>6 DEF GiveUp
        <3> QED
            BY <1>1, <3>1 DEF UnderWay
    <2> QED
        BY <1>2, <2>1, <2>2 DEF IsVerified
<1>7. ~SendRefused
    BY <1>1 DEF SendRefused
<1>8. CASE DeviceExecutes
    BY <1>1, <1>8, BacklogAfterDevice
<1>9. CASE SweepEnds \/ UNCHANGED vars
    <2>1. UNCHANGED <<toDev, errs, orphans, pc, stage>>
        BY <1>9 DEF SweepEnds, vars, device, wires, client
    <2>2. IsVerified' = IsVerified
        BY <2>1 DEF IsVerified, Unverified
    <2> QED
        BY <1>1, <2>1, <2>2 DEF Backlog
<1>10. ~LinkDown
    BY DEF LinkDown
<1> QED
    BY <1>3, <1>4, <1>5, <1>6, <1>7, <1>8, <1>9, <1>10 DEF Next, Library

-----------------------------------------------------------------------------
\* One lemma per action: what it makes of the exchange.
Accounts == Shape /\ Answers /\ EntryComes /\ Crashes /\ Backlog
Inv == Texts /\ Control /\ CallFits /\ Counts /\ Accounts /\ Agreement
Agreed == Exchange /\ FlushRests /\ Reported

LEMMA AgreedAfterBegin ==
    ASSUME Agreed, NEW op, NEW s, NEW v, BeginsAs(op, s, v)
    PROVE  Agreed'
<1>1. /\ pc = "idle" /\ call' = Request(op, s, v) /\ Same'
      /\ UNCHANGED <<toDev, toCli, errs>>
    BY DEF BeginsAs, Begin, Same, device, wires
<1>2. toCli' = <<>> /\ toDev' \in Seq({Block}) /\ errs' = 0
    BY <1>1 DEF Agreed, Exchange
<1>3. CASE op \notin EntryOps /\ \E status, out : AtOnce(status, out)
    <2>1. pc' = "idle" /\ ret'.op = op
        BY <1>1, <1>3 DEF AtOnce, Answer, Request
    <2> QED
        BY <1>1, <1>2, <1>3, <2>1 DEF Agreed, Exchange, FlushRests, Reported
<1>4. CASE \E st \in StagesOf(op) : GoOn(st) /\ (op = "flush" => st = "status")
    <2>1. pc' = "send" /\ (call'.op = "flush" => stage' = "status")
        BY <1>1, <1>4 DEF GoOn, Request
    <2> QED
        BY <1>1, <1>2, <2>1 DEF Agreed, Exchange, FlushRests, Reported
<1> QED
    BY <1>3, <1>4 DEF BeginsAs

LEMMA AgreedAfterSend ==
    ASSUME Control, Agreed, Send, link = "up"
    PROVE  Agreed'
<1>1. /\ pc = "send" /\ toDev' = toDev \o Sends /\ Same /\ Same'
      /\ UNCHANGED <<toCli, errs, call, running>>
      /\ toCli = <<>> /\ toDev \in Seq({Block}) /\ errs = 0
    BY DEF Send, Agreed, Exchange, Same, device
<1>2. CASE call.op = "capture_block"
    <2>1. stage = "command" /\ Asks = Block /\ Sends = <<Asks>>
        BY <1>1, <1>2, Asked DEF Control, StagesOf, Sends, Block
    <2>2. toDev' \in Seq({Block})
        BY <1>1, <2>1
    <2>3. pc' = "idle" /\ ret'.status = "bytes"
        BY <1>2 DEF Send, Return, Answer
    <2> QED
        BY <1>1, <2>2, <2>3 DEF Agreed, Exchange, FlushRests, Reported
<1>3. CASE call.op # "capture_block"
    <2>1. pc' = "recv" /\ UNCHANGED stage /\ Asks' = Asks
        BY <1>1, <1>3 DEF Send, Asks
    <2>2. FlushRests' /\ Reported'
        BY <1>1, <2>1 DEF Agreed, FlushRests, Reported
    <2>3. CASE Unverified
        <3>1. toDev' = toDev \o <<Asks>>
            BY <1>1, <2>3 DEF Sends, Unverified
        <3>2. toDev \in Seq({Block, Asks}) /\ \A i \in DOMAIN toDev : toDev[i] = Block
            BY <1>1
        <3>3. Asking'
            BY <1>1, <2>1, <3>1, <3>2, Joined DEF Asking
        <3>4. Unverified'
            BY <2>1, <2>3 DEF Unverified
        <3> QED
            BY <1>1, <2>1, <2>2, <3>3, <3>4 DEF Agreed, Exchange
    <2>4. CASE ~Unverified
        <3> DEFINE S == {Block, Asks, Verification}
        <3>1. toDev' = toDev \o <<Asks, Verification>>
            BY <1>1, <1>3, <2>4 DEF Sends, Unverified
        <3>2. toDev \in Seq(S) /\ \A i \in DOMAIN toDev : toDev[i] = Block
            BY <1>1
        <3>3. /\ toDev' \in Seq(S) /\ toDev' # <<>> /\ Len(toDev') = Len(toDev) + 2
              /\ DOMAIN toDev' = 1 .. Len(toDev) + 2
              /\ toDev'[Len(toDev) + 1] = Asks
              /\ toDev'[Len(toDev) + 2] = Verification
              /\ \A i \in 1 .. Len(toDev) : toDev'[i] = toDev[i]
            BY <3>1, <3>2, JoinedByTwo
        <3>6. \A i \in DOMAIN toDev' :
                  toDev'[i] = IF i = Len(toDev') THEN Verification
                              ELSE IF i = Len(toDev') - 1 THEN Asks ELSE Block
            BY <3>2, <3>3
        <3>7. Verifying'
            BY <1>1, <2>1, <3>3, <3>6 DEF Verifying, Verification
        <3>8. ~Unverified'
            BY <2>1, <2>4 DEF Unverified
        <3> QED
            BY <1>1, <2>1, <2>2, <3>7, <3>8 DEF Agreed, Exchange
    <2> QED
        BY <2>3, <2>4
<1> QED
    BY <1>2, <1>3

LEMMA OneReceived ==
    ASSUME NEW n \in 1 .. Len(toCli), Receive(n), NEW a, toCli = <<a>>
    PROVE  toCli' = <<>> /\ Concluded(Answered(a))
<1>1. n = 1 /\ Len(toCli) = 1
    OBVIOUS
<1>2. toCli' = <<>>
    BY <1>1 DEF Receive
<1>3. Together(SubSeq(toCli, 1, n)) = a
    BY <1>1 DEF Together
<1> QED
    BY <1>2, <1>3 DEF Receive, Answered

LEMMA AgreedAfterReceive ==
    ASSUME Control, Texts, Agreed, NEW n \in 1 .. Len(toCli), Receive(n)
    PROVE  Agreed'
<1>1. /\ pc = "recv" /\ UNCHANGED <<toDev, errs, call, running, values, list, before>>
      /\ Same' = Same
      /\ call.op # "capture_block"
    BY DEF Receive, device, Same, Control
<1>2. ASSUME NEW a, toCli = <<a>>
      PROVE  toCli' = <<>> /\ Concluded(Answered(a))
    BY <1>2, OneReceived
<1>3. toCli # <<>>
    OBVIOUS
<1>4. ASSUME NEW status, NEW out, Return(status, out)
      PROVE  pc' = "idle" /\ ret' = Answer(call, status, out)
             /\ ret'.op = call.op /\ ret'.v = call.v /\ ret'.status = status
    BY <1>4 DEF Return, Answer
<1>5. CASE Unverified
    <2>1. PICK a : toCli = <<a>> /\ toDev = <<>> /\ IsAnswer(a) /\ Same /\ errs = 0
        BY <1>1, <1>3, <1>5 DEF Agreed, Exchange, Asking
    <2>2. toCli' = <<>> /\ Concluded(Answered(a)) /\ toDev' = <<>> /\ errs' = 0
          /\ Same'
        BY <1>1, <1>2, <2>1
    <2>3. toDev' \in Seq({Block})
        BY <2>2
    <2>4. CASE \E st \in StagesOf(call.op) : GoOn(st)
        <3>1. pc' = "send"
            BY <2>4 DEF GoOn
        <3>2. ASSUME call'.op = "flush", stage' = "command"
              PROVE  running' # "SWEEPING"
            <4>1. stage = "status"
                BY <1>1, <1>5, <3>2 DEF Control, StagesOf, Unverified
            <4> QED
                BY <1>1, <2>1, <2>2, <3>1, <4>1, FlushDecided
        <3> QED
            BY <2>2, <2>3, <3>1, <3>2 DEF Agreed, Exchange, FlushRests, Reported
    <2>5. CASE \E status, out : Return(status, out)
        <3>1. pc' = "idle" /\ ret'.op = call.op /\ ret'.v = call.v
            BY <1>4, <2>5
        <3>2. ASSUME call.op \in EntryOps, ret'.status = "SWEEPIDOOB"
              PROVE  call.v[1].n \notin Places(call.op)
            BY <1>1, <1>5, <2>1, <2>2, <3>1, <3>2, OutOfBoundsDecided
        <3>3. \A op : Places(op)' = Places(op)
            BY <1>1 DEF Places
        <3> QED
            BY <2>2, <2>3, <3>1, <3>2, <3>3 DEF Agreed, Exchange, FlushRests, Reported
    <2>6. CASE pc' = "crashed"
        BY <2>2, <2>3, <2>6 DEF Agreed, Exchange, FlushRests, Reported
    <2> QED
        BY <1>1, <2>2, <2>4, <2>5, <2>6, Conclusions
<1>6. CASE ~Unverified
    <2>1. PICK a : /\ toCli = <<a>> /\ toDev = <<>> /\ errs = 0
                   /\ a = <<Word("No error")>> \/ Same
        BY <1>1, <1>3, <1>6 DEF Agreed, Exchange, Verifying
    <2>2. toCli' = <<>> /\ Concluded(Answered(a)) /\ toDev' = <<>> /\ errs' = 0
        BY <1>1, <1>2, <2>1
    <2>3. toDev' \in Seq({Block})
        BY <2>2
    <2>4. /\ pc' = "idle" /\ ret'.status # "SWEEPIDOOB"
          /\ a = <<Word("No error")>> => ret'.status \in {"ok", "bytes"}
        BY <1>6, <2>2, VerdictReported
    <2> QED
        BY <1>1, <2>1, <2>2, <2>3, <2>4 DEF Agreed, Exchange, FlushRests, Reported
<1> QED
    BY <1>5, <1>6

\* The steps of the instrument that leave no error behind unasked for.
Commanded(r) ==
    /\ r.op \in {"SET", "CMD"} /\ toCli' = toCli
    /\ \/ Executes(r) /\ errs' = errs
       \/ /\ r.s # "capture_block" /\ errs' = errs + 1
          /\ UNCHANGED <<values, current, list, running>>
Queried(r) ==
    /\ r.op = "GET" /\ Answerable(r) /\ toCli' = Append(toCli, Holding(r))
    /\ UNCHANGED <<values, current, list, running, errs>>
AskedForErrors(r) ==
    /\ r.op = "ERR"
    /\ toCli' = Append(toCli, <<Word(IF errs = 0 THEN "No error" ELSE "-222")>>)
    /\ errs' = IF errs = 0 THEN 0 ELSE errs - 1
    /\ UNCHANGED <<values, current, list, running>>

LEMMA DeviceDoes ==
    ASSUME DeviceExecutes, orphans' = orphans, orphans \in Nat
    PROVE  \/ Commanded(Head(toDev)) \/ Queried(Head(toDev))
           \/ AskedForErrors(Head(toDev))
<1> DEFINE r == Head(toDev)
<1>1. orphans' # orphans + 1
    OBVIOUS
<1>2. \/ r.op \in {"SET", "CMD"} /\ Executes(r) /\ UNCHANGED <<toCli, errs>>
      \/ /\ r.op \in {"SET", "CMD"} /\ r.s # "capture_block" /\ errs' = errs + 1
         /\ UNCHANGED <<toCli, values, current, list, running>>
      \/ /\ r.op = "GET" /\ Answerable(r) /\ toCli' = Append(toCli, Holding(r))
         /\ UNCHANGED device
      \/ AskedForErrors(r)
    BY <1>1 DEF DeviceExecutes, AskedForErrors
<1> HIDE DEF r
<1> QED
    BY <1>2 DEF Commanded, Queried, device, r

\* Block captures change nothing the calls are about.
LEMMA BlockExecutes ==
    ASSUME toDev # <<>>, Head(toDev) = Block, DeviceExecutes, orphans' = orphans,
           orphans \in Nat
    PROVE  UNCHANGED <<toCli, values, current, list, running, errs>>
<1>1. Block.op = "CMD" /\ Block.s = "capture_block"
    BY DEF Block, Request
<1>2. Executes(Block) => UNCHANGED <<values, current, list, running>>
    BY <1>1 DEF Executes
<1>3. Commanded(Block)
    BY <1>1, DeviceDoes DEF Queried, AskedForErrors
<1> QED
    BY <1>1, <1>2, <1>3 DEF Commanded

LEMMA FlushExecutes ==
    ASSUME NEW r, r.op = "CMD", r.s = "flush", Executes(r)
    PROVE  running' = running
BY DEF Executes

LEMMA OneTwoMore ==
    ASSUME NEW n \in Nat \ {0}
    PROVE  n > 2 \/ n = 2 \/ n = 1
PROOF OBVIOUS

LEMMA FirstAnswer ==
    ASSUME NEW x
    PROVE  Append(<<>>, x) = <<x>>
PROOF OBVIOUS

LEMMA AgreedAfterDevice ==
    ASSUME Control, Texts, Counts, Agreed, DeviceExecutes, orphans' = orphans
    PROVE  Agreed'
<1>1. /\ toDev # <<>> /\ toDev' = Tail(toDev)
      /\ UNCHANGED <<pc, call, stage, ret, before>>
      /\ Asks' = Asks /\ Unverified' = Unverified
      /\ values' = values /\ list' = list => Same' = Same
    BY DEF DeviceExecutes, client, Asks, Unverified, Same
<1>2. orphans \in Nat
    BY DEF Counts
<1>3. ASSUME UNCHANGED <<values, list, running>>
      PROVE  FlushRests' /\ Reported'
    <2>1. \A op : Places(op)' = Places(op)
        BY <1>3 DEF Places
    <2> QED
        BY <1>1, <1>3, <2>1 DEF Agreed, FlushRests, Reported
<1>4. CASE pc # "recv"
    <2>1. toDev \in Seq({Block}) /\ toCli = <<>> /\ errs = 0
        BY <1>4 DEF Agreed, Exchange
    <2>2. Head(toDev) = Block /\ toDev' \in Seq({Block})
        BY <1>1, <2>1, Tails
    <2>3. UNCHANGED <<toCli, values, list, running, errs>>
        BY <1>1, <1>2, <2>2, BlockExecutes
    <2> QED
        BY <1>1, <1>3, <1>4, <2>1, <2>2, <2>3 DEF Agreed, Exchange
<1>5. CASE pc = "recv" /\ Unverified
    <2>1. /\ toCli = <<>> /\ toDev \in Seq({Block, Asks}) /\ errs = 0 /\ Same
          /\ \A i \in DOMAIN toDev : toDev[i] = IF i = Len(toDev) THEN Asks ELSE Block
        BY <1>1, <1>5 DEF Agreed, Exchange, Asking
    <2>2. CASE Len(toDev) > 1
        <3>1. Head(toDev) = Block
            BY <1>1, <2>1, <2>2, Tails
        <3>2. UNCHANGED <<toCli, values, list, running, errs>>
            BY <1>1, <1>2, <3>1, BlockExecutes
        <3>3. /\ toDev' \in Seq({Block, Asks}) /\ toDev' # <<>>
              /\ \A i \in DOMAIN toDev' :
                    toDev'[i] = IF i = Len(toDev') THEN Asks ELSE Block
            BY <1>1, <2>1, <2>2, Tails
        <3>4. Asking'
            BY <1>1, <2>1, <3>2, <3>3 DEF Asking
        <3> QED
            BY <1>1, <1>3, <1>5, <2>1, <3>2, <3>4 DEF Agreed, Exchange
    <2>3. CASE Len(toDev) = 1
        <3>1. Head(toDev) = Asks /\ toDev' = <<>>
            BY <1>1, <2>1, <2>3, Tails
        <3>2. Asks.op = "GET"
            BY <1>5, Asked
        <3>3. Queried(Asks)
            BY <1>1, <1>2, <3>1, <3>2, DeviceDoes DEF Commanded, AskedForErrors
        <3>4. PICK a : a = Holding(Asks) /\ toCli' = <<a>>
            BY <2>1, <3>3, FirstAnswer DEF Queried
        <3>5. IsAnswer(a)'
            <4>1. stage \in {"count", "count2"} => Holding(Asks) = <<Num(Len(list))>>
                BY Asked DEF Holding, Request
            <4>2. stage = "status" =>
                     Holding(Asks)
                        = <<Word(IF running = "SWEEPING" THEN "RUNNING" ELSE "STOPPED")>>
                BY Asked DEF Holding, Request
            <4> QED
                BY <1>1, <3>3, <3>4, <4>1, <4>2 DEF IsAnswer, Queried
        <3>6. Asking'
            BY <3>1, <3>4, <3>5 DEF Asking
        <3> QED
            BY <1>1, <1>3, <1>5, <2>1, <3>3, <3>6 DEF Agreed, Exchange, Queried
    <2> QED
        BY <1>1, <2>1, <2>2, <2>3, Tails
<1>6. CASE pc = "recv" /\ ~Unverified
    <2> DEFINE S == {Block, Asks, Verification}
    <2>1. /\ toCli = <<>> /\ toDev \in Seq(S)
          /\ \A i \in DOMAIN toDev :
                toDev[i] = IF i = Len(toDev) THEN Verification
                           ELSE IF i = Len(toDev) - 1 THEN Asks ELSE Block
          /\ Len(toDev) > 1 => Same /\ errs = 0
          /\ errs = 0 \/ (errs = 1 /\ Same)
        BY <1>1, <1>6 DEF Agreed, Exchange, Verifying
    <2>2. ASSUME Len(toDev) > 1
          PROVE  /\ toDev' \in Seq(S) /\ toDev' # <<>>
                 /\ Len(toDev') = Len(toDev) - 1
                 /\ \A i \in DOMAIN toDev' :
                       toDev'[i] = IF i = Len(toDev') THEN Verification
                                   ELSE IF i = Len(toDev') - 1 THEN Asks ELSE Block
        BY <1>1, <2>1, <2>2, Tails
    <2>3. CASE Len(toDev) > 2
        <3>1. Head(toDev) = Block
            BY <1>1, <2>1, <2>3, Tails
        <3>2. UNCHANGED <<toCli, values, list, running, errs>>
            BY <1>1, <1>2, <3>1, BlockExecutes
        <3>3. Verifying'
            BY <1>1, <2>1, <2>2, <2>3, <3>2 DEF Verifying, Verification
        <3> QED
            BY <1>1, <1>3, <1>6, <3>2, <3>3 DEF Agreed, Exchange
    <2>4. CASE Len(toDev) = 2
        <3>1. Head(toDev) = Asks /\ Asks.op \in {"SET", "CMD"}
            BY <1>1, <1>6, <2>1, <2>4, Tails, Asked
        <3>2. /\ toCli' = <<>> /\ Len(toDev') = 1 /\ errs = 0 /\ Same
              /\ \/ Executes(Asks) /\ errs' = 0
                 \/ errs' = 1 /\ UNCHANGED <<values, list, running>>
            <4>1. Commanded(Asks)
                BY <1>1, <1>2, <3>1, DeviceDoes DEF Queried, AskedForErrors
            <4>2. Len(toDev') = 1 /\ errs = 0 /\ Same
                BY <2>1, <2>2, <2>4
            <4> QED
                BY <2>1, <4>1, <4>2 DEF Commanded
        <3>3. errs' = 0 \/ (errs' = 1 /\ Same')
            BY <1>1, <3>2
        <3>4. Verifying'
            BY <1>1, <2>2, <2>4, <3>2, <3>3 DEF Verifying, Verification
        <3>5. FlushRests'
            <4> SUFFICES ASSUME stage = "command", call.op = "flush"
                         PROVE  running' # "SWEEPING"
                BY <1>1 DEF FlushRests
            <4>1. Asks.op = "CMD" /\ Asks.s = "flush"
                BY Asked DEF Request
            <4>2. running' = running
                BY <3>2, <4>1, FlushExecutes
            <4> QED
                BY <1>6, <4>2 DEF Agreed, FlushRests
        <3>6. Reported'
            BY <1>1, <1>6 DEF Reported
        <3> QED
            BY <1>1, <1>6, <3>4, <3>5, <3>6 DEF Agreed, Exchange
    <2>5. CASE Len(toDev) = 1
        <3>1. Head(toDev) = Verification /\ toDev' = <<>>
            BY <1>1, <2>1, <2>5, Tails
        <3>2. AskedForErrors(Verification)
            <4>1. Verification.op = "ERR"
                BY DEF Verification, Request
            <4> QED
                BY <1>1, <1>2, <3>1, <4>1, DeviceDoes DEF Commanded, Queried
        <3>3. /\ toCli' = <<<<Word(IF errs = 0 THEN "No error" ELSE "-222")>>>>
              /\ UNCHANGED <<values, list, running>> /\ errs' = 0
            <4>1. toCli' = <<<<Word(IF errs = 0 THEN "No error" ELSE "-222")>>>>
                BY <2>1, <3>2, FirstAnswer DEF AskedForErrors
            <4>2. UNCHANGED <<values, list, running>>
                BY <3>2 DEF AskedForErrors
            <4>3. errs' = 0
                <5>1. errs' = IF errs = 0 THEN 0 ELSE errs - 1
                    BY <3>2 DEF AskedForErrors
                <5>2. errs = 1 => errs - 1 = 0
                    OBVIOUS
                <5> QED
                    BY <2>1, <5>1, <5>2
            <4> QED
                BY <4>1, <4>2, <4>3
        <3>4. Verifying'
            BY <1>1, <2>1, <3>1, <3>3 DEF Verifying
        <3> QED
            BY <1>1, <1>3, <1>6, <3>3, <3>4 DEF Agreed, Exchange
    <2>6. Len(toDev) \in Nat \ {0}
        BY <1>1, <2>1, Tails
    <2>7. Len(toDev) > 2 \/ Len(toDev) = 2 \/ Len(toDev) = 1
        BY <2>6, OneTwoMore
    <2> QED
        BY <2>3, <2>4, <2>5, <2>7
<1> QED
    BY <1>4, <1>5, <1>6

LEMMA AgreedAfterSweep ==
    ASSUME Agreed, SweepEnds
    PROVE  Agreed'
<1>1. /\ running' = "BLOCK" /\ Asks' = Asks /\ Unverified' = Unverified
      /\ Same' = Same /\ \A op : Places(op)' = Places(op)
      /\ UNCHANGED <<toDev, toCli, errs, list, pc, call, stage, ret>>
    BY DEF SweepEnds, wires, client, Asks, Unverified, Same, Places
<1>2. \A a : IsAnswer(a) => IsAnswer(a)'
    BY <1>1 DEF IsAnswer
<1>3. Asking => Asking'
    BY <1>1, <1>2 DEF Asking
<1>4. Verifying => Verifying'
    BY <1>1 DEF Verifying, Verification
<1>5. Exchange'
    BY <1>1, <1>3, <1>4 DEF Agreed, Exchange
<1> QED
    BY <1>1, <1>5 DEF Agreed, FlushRests, Reported

LEMMA AgreedStutters ==
    ASSUME Agreed, UNCHANGED vars
    PROVE  Agreed'
<1>1. /\ Asks' = Asks /\ Unverified' = Unverified
      /\ Same' = Same /\ \A op : Places(op)' = Places(op)
      /\ UNCHANGED <<toDev, toCli, errs, list, running, pc, call, stage, ret>>
    BY DEF vars, device, wires, client, Asks, Unverified, Same, Places
<1>2. \A a : IsAnswer(a)' = IsAnswer(a)
    BY <1>1 DEF IsAnswer
<1>3. Asking => Asking'
    BY <1>1, <1>2 DEF Asking
<1>4. Verifying => Verifying'
    BY <1>1 DEF Verifying, Verification
<1> QED
    BY <1>1, <1>3, <1>4 DEF Agreed, Exchange, FlushRests, Reported

LEMMA InvStep ==
    ASSUME Inv, [Next]_vars
    PROVE  Inv'
<1>1. /\ Texts' /\ Control' /\ CallFits' /\ Counts' /\ Accounts'
      /\ Trusted' => Trusted
    BY TextsStep, ControlStep, CallFitsStep, TrustedBefore, ShapeStep, AnswersStep,
       EntryComesStep, CrashesStep, BacklogStep DEF Inv, Accounts
<1>2. ASSUME Trusted'
      PROVE  Agreed'
    <2>1. /\ Control /\ Texts /\ Counts /\ Agreed /\ link = "up"
          /\ lates = 0 /\ lates' = 0 /\ orphans' = orphans /\ link' = "up"
        BY <1>1, <1>2 DEF Inv, Agreement, Agreed, Trusted
    <2>2. CASE Application
        BY <2>1, <2>2, CallsBegin, AgreedAfterBegin
    <2>3. CASE Send
        BY <2>1, <2>3, AgreedAfterSend
    <2>4. CASE SendRefused
        BY <2>1, <2>4 DEF SendRefused
    <2>5. ASSUME NEW n \in 1 .. Len(toCli), Receive(n)
          PROVE  Agreed'
        BY <2>1, <2>5, AgreedAfterReceive
    <2>6. CASE GiveUp
        <3>1. pc = "recv" /\ (Asking \/ Verifying)
            BY <2>1, <2>6 DEF GiveUp, Agreed, Exchange
        <3>2. UnderWay
            <4>1. \A a : <<a>> # <<>>
                OBVIOUS
            <4> QED
                BY <3>1, <4>1 DEF UnderWay, Asking, Verifying
        <3> QED
            BY <2>1, <2>6, <3>2 DEF GiveUp
    <2>7. CASE DeviceExecutes
        BY <2>1, <2>7, AgreedAfterDevice
    <2>8. CASE SweepEnds
        BY <2>1, <2>8, AgreedAfterSweep
    <2>9. CASE LinkDown
        BY <2>1, <2>9 DEF LinkDown
    <2>10. CASE UNCHANGED vars
        BY <2>1, <2>10, AgreedStutters
    <2> QED
        BY <2>2, <2>3, <2>4, <2>5, <2>6, <2>7, <2>8, <2>9, <2>10 DEF Next, Library
<1> QED
    BY <1>1, <1>2 DEF Inv, Agreement, Agreed

LEMMA InvInit ==
    ASSUME Init
    PROVE  Inv
<1> USE InstrumentAssumption
<1>1. Control
    BY DEF Init, Control, Request, EntryOps
<1>2. Texts
    <2>1. session \in Sessions /\ toDev = <<>> /\ toCli = <<>>
        BY DEF Init
    <2>2. /\ DOMAIN values = session.focus
          /\ \A s \in session.focus : Fits(Descr, s, values[s])
        <3>1. PICK i : values = [s \in session.focus |->
                            Holds[s][IF i \in DOMAIN Holds[s] THEN i ELSE 1]]
            BY DEF Init
        <3> QED
            BY <2>1, <3>1, HoldsFit
    <2>3. \A s \in LanSettings : Fits(Descr, s, current[s])
        <3>1. current = [s \in LanSettings |-> Holds[s][1]]
            BY DEF Init
        <3> QED
            BY <2>1, <3>1, HoldsFit
    <2>4. Template \in Entries
        <3>1. \A t \in TemplateSettings : Fits(Descr, t, Template[t])
            BY <2>1, <2>2, HoldsFit DEF Template
        <3>2. Template \in [TemplateSettings -> Seq(Anything)]
            BY <3>1 DEF Template, Fits
        <3> QED
            BY <3>1, <3>2 DEF Entries
    <2>5. list \in Seq(Entries) /\ Len(list) <= MaxEntries
        <3>1. PICK n \in session.sizes : list = [i \in 1 .. n |-> Template]
            BY DEF Init
        <3>2. n \in Nat /\ n <= MaxEntries
            BY <2>1, HoldsFit
        <3>3. list \in [1 .. n -> Entries]
            BY <2>4, <3>1
        <3> QED
            BY <3>2, <3>3, MadeText
    <2>6. <<>> \in Seq({}) /\ DOMAIN <<>> = {}
        OBVIOUS
    <2> QED
        BY <2>1, <2>2, <2>3, <2>5, <2>6 DEF Texts, IsQueue
<1>3. Counts
    BY DEF Init, Counts
<1>4. Agreement
    <2>1. toDev \in Seq({Block}) /\ toCli = <<>> /\ errs = 0 /\ pc = "idle"
        BY DEF Init
    <2>2. ret.op = "none"
        BY DEF Init, NoRet
    <2> QED
        BY <2>1, <2>2 DEF Agreement, Exchange, FlushRests, Reported
<1>5. CallFits
    BY DEF Init, CallFits, Request
<1>6. Accounts
    <2>1. /\ toDev = <<>> /\ toCli = <<>> /\ pc = "idle" /\ link = "up"
          /\ errs = 0 /\ lates = 0 /\ orphans = 0
          /\ DOMAIN told = session.focus /\ running = "BLOCK"
        BY DEF Init
    <2>2. Owed = 0
        BY <2>1, NoQueries DEF Owed
    <2>3. DOMAIN toDev = {}
        BY <2>1
    <2> QED
        BY <2>1, <2>2, <2>3
           DEF Accounts, Shape, Answers, EntryComes, Crashes, Backlog, IsVerified
<1> QED
    BY <1>1, <1>2, <1>3, <1>4, <1>5, <1>6 DEF Inv

-----------------------------------------------------------------------------
(***************************************************************************)
(* What the application may believe of the settings.                        *)
(***************************************************************************)
ToldOf(vals) ==
    \A s \in session.focus \ (Misrepresented \cup Derived) :
        told[s] # Unknown => told[s] = vals[s]

\* The answer to the query of a get function, or for an entry.  A sweep may end
\* after it was reported.
IsReading(a) ==
    /\ stage = "entry" => EntryAt(Id) /\ a = EntryText(list[Id])
    /\ stage = "get" =>
          \/ a = Holding(Request("GET", call.s, call.v))
          \/ call.s = "sweep_status" /\ a = <<Word("RUNNING")>> /\ running = "BLOCK"

\* What the call in progress may change, and that it has changed nothing else.
Touched(s) ==
    \/ call.op = "set" /\ call.s = s
    \/ call.op \in {"entry_copy", "entry_new"} /\ s \in TemplateSettings
    \/ call.op = "reset_pll" /\ s = "reference_pll"
Done ==
    /\ \A s \in session.focus : ~Touched(s) => values[s] = before.values[s]
    /\ call.op = "set" => values[call.s] = Written(call.s, call.v)

\* A command is done once its verification finds no error, before or after the
\* instrument has answered that.
Confirmed ==
    (Len(toDev) = 1 /\ errs = 0) \/ toCli = <<<<Word("No error")>>>> => Done

Delivered ==
    pc = "idle" /\ ret.op # "none" /\ ret.status = "ok" =>
        /\ ret.op = "get" =>
              \/ ret.out = Held
              \/ Unassigned(ret.s) /\ ret.out = <<Unwritten>>
              \/ ret.out = <<Word("RUNNING")>> /\ running = "BLOCK"
        /\ ret.op = "entry_read" =>
              IsRead(ret.out, EntryText(list[ret.v[1].n]))

Belief ==
    Trusted =>
        /\ pc = "idle" => ToldOf(values)
        /\ pc \in {"send", "recv"} => ToldOf(before.values)
        /\ pc = "recv" /\ Unverified => \A a : toCli = <<a>> => IsReading(a)
        /\ pc = "recv" /\ ~Unverified => Confirmed
        /\ ret.op = "get" => ret.s \in session.focus
        /\ Delivered

LEMMA OneProduct ==
    \A name : wsa_dev_init(name).prod_model \in {"WSA5000", "R5500"}
BY DEF wsa_dev_init

\* What a get function that succeeds makes of the instrument's answer.
LEMMA ReadingIsHeld ==
    ASSUME Texts, NEW s \in session.focus, NEW v, v = <<>> \/ s \in LanSettings,
           ~NotAsked(s),
           NEW a, \/ a = Holding(Request("GET", s, v))
                  \/ s = "sweep_status" /\ a = <<Word("RUNNING")>>,
           ReadOut(RowOf(s), a).status = "ok"
    PROVE  LET out == ReadOut(RowOf(s), a).out
           IN  out = a \/ (out = <<Unwritten>> /\ Unassigned(s))
<1> DEFINE r == Request("GET", s, v)
<1>1. r.op = "GET" /\ r.s = s /\ r.v = v
    BY DEF Request
<1>2. s \in DOMAIN Rows(Descr) /\ s \notin {"capture_mode", "entry"}
    <2>1. s \in DOMAIN Rows(Descr)
        BY HoldsFit DEF Texts
    <2> QED
        BY <2>1 DEF Rows
<1>3. Descr.prod_model = "WSA5000" \/ s # "attenuation"
    BY OneProduct DEF NotAsked, Descr
<1> HIDE DEF r
<1>4. CASE s = "sweep_status"
    <2>1. Holding(r) = <<Word(IF running = "SWEEPING" THEN "RUNNING" ELSE "STOPPED")>>
        BY <1>1, <1>4 DEF Holding, LanSettings
    <2>2. PICK w \in {"STOPPED", "RUNNING"} : a = <<Word(w)>>
        BY <1>4, <2>1 DEF r
    <2>3. RowOf(s) = wsa_get_sweep_status
        BY <1>4 DEF RowOf, Rows
    <2>4. Outcome(wsa_get_sweep_status, Answered(a)) = ReadOut(RowOf(s), a)
        BY <2>3 DEF Outcome, Answered
    <2>5. LET o == Outcome(wsa_get_sweep_status, Answered(<<Word(w)>>))
          IN  o.status = "ok" /\ o.out = <<Word(w)>>
        BY StatusIsRead
    <2> HIDE DEF r
    <2>6. ReadOut(RowOf(s), a).out = <<Word(w)>>
        BY <2>2, <2>4, <2>5, Zenon
    <2> QED
        BY <2>2, <2>6
<1>5. CASE s # "sweep_status"
    <2>1. a = Holding(r)
        BY <1>5 DEF r
    <2>2. CASE s = "sweep_entry_size"
        <3>1. Holding(r) = <<Num(Len(list))>>
            BY <1>1, <2>2 DEF Holding, LanSettings
        <3>2. Num(Len(list)) \in Anything
            BY DEF Texts, Num, Anything, Numbers
        <3>3. Rows(Descr)[s].gives = <<ADouble>>
            BY <2>2 DEF Rows, wsa_get_sweep_entry_size, Row
        <3>6. \A x \in Anything : \A y :
                 <<x>> \in Seq(Anything) /\ Len(<<x>>) = Len(<<y>>)
            OBVIOUS
        <3>4. Fits(Descr, s, a)
            BY <2>1, <3>1, <3>2, <3>3, <3>6 DEF Fits
        <3>5. \/ ReadOut(RowOf(s), a).out = a
              \/ s = "lan_dns" \/ s \in {"acq_access", "acq_status"}
            BY <1>2, <1>3, <3>4, SettingIsRead DEF RowOf
        <3> QED
            BY <2>2, <3>5
    <2>3. CASE s # "sweep_entry_size"
        <3>1. a = IF s \in LanSettings /\ v # <<>> THEN current[s] ELSE values[s]
            BY <1>1, <1>2, <1>5, <2>1, <2>3 DEF Holding
        <3>2. Fits(Descr, s, a)
            BY <3>1 DEF Texts
        <3>3. \/ ReadOut(RowOf(s), a).out = a
              \/ /\ ReadOut(RowOf(s), a).out = <<Unwritten>>
                 /\ \/ s = "lan_dns"
                    \/ /\ s \in {"acq_access", "acq_status"}
                       /\ a \notin {<<Num(0)>>, <<Num(1)>>}
            BY <1>2, <1>3, <3>2, SettingIsRead DEF RowOf
        <3>4. s \in {"acq_access", "acq_status"} => a = values[s]
            BY <3>1 DEF LanSettings
        <3> QED
            BY <3>3, <3>4 DEF Unassigned
    <2> QED
        BY <2>2, <2>3
<1> QED
    BY <1>4, <1>5

\* What a get function returns on the answer to its query, and what
\* wsa_sweep_entry_read does on its entry.
LEMMA GetReturns ==
    ASSUME Control, pc = "recv", call.op = "get", NEW a, Concluded(Answered(a))
    PROVE  LET r == ReadOut(RowOf(call.s), a)
           IN  stage = "get" /\ Return(r.status, r.out)
<1>1. stage = "get"
    BY DEF Control, StagesOf
<1> QED
    BY <1>1 DEF Concluded, Outcome, Answered

LEMMA EntryReturns ==
    ASSUME Texts, Control, pc = "recv", call.op = "entry_read",
           NEW a, IsReading(a), Concluded(Answered(a)),
           pc' = "idle", ret'.status = "ok"
    PROVE  IsRead(ret'.out, EntryText(list[call.v[1].n]))
<1>1. stage \in {"count", "entry"}
    BY DEF Control, StagesOf
<1>2. ASSUME NEW status, NEW out, Return(status, out)
      PROVE  status = "ok" /\ ret'.out = out
    BY <1>2 DEF Return, Answer
<1>3. \A st : ~GoOn(st)
    BY DEF GoOn
<1>4. stage # "count"
    <2> SUFFICES ASSUME stage = "count"
                 PROVE  FALSE
        OBVIOUS
    <2>1. PICK r, size : SizeKnown(r, size)
        BY DEF Concluded, SizeRead
    <2>2. IF r.status # "ok" THEN Return(r.status, <<>>)
          ELSE IF OutOfList(Id, size) THEN Return("SWEEPIDOOB", <<>>)
          ELSE GoOn("entry")
        BY <2>1 DEF SizeKnown
    <2> QED
        BY <1>2, <1>3, <2>2
<1>5. EntryAt(Id) /\ a = EntryText(list[Id])
    BY <1>1, <1>4 DEF IsReading
<1>6. IsEntryText(a)
    <2>1. list[Id] \in Entries
        BY <1>5 DEF Texts, EntryAt
    <2> QED
        BY <1>5, <2>1, EntryShape DEF Entries
<1> DEFINE r == wsa_sweep_entry_read(a)
<1>7. r.status # "crash" /\ (r.status = "ok" => IsRead(r.out, a))
    BY <1>6, EntryIsRead
<1>8. EntryAnswered(Answered(a))
    BY <1>1, <1>4 DEF Concluded
<1> HIDE DEF r
<1>9. Return(r.status, r.out)
    BY <1>7, <1>8 DEF EntryAnswered, Answered, r
<1>10. r.status = "ok" /\ ret'.out = r.out
    BY <1>2, <1>9
<1> QED
    BY <1>5, <1>7, <1>10 DEF Id

\* After a query that has changed nothing, the application may go on believing
\* what it did, and what it has just read.
LEMMA ToldAfterQuery ==
    ASSUME Texts, Control, CallFits, pc = "recv", Unverified, Same,
           ToldOf(before.values), NEW a, IsReading(a), Concluded(Answered(a)),
           NEW status, NEW out, Return(status, out), UNCHANGED <<session, values>>
    PROVE  ToldOf(values)'
<1>1. told' = ToldAfter(status, out) /\ ret' = Answer(call, status, out)
    BY DEF Return
<1>2. call.op # "set"
    BY DEF Control, StagesOf, Unverified
<1> SUFFICES ASSUME NEW s \in session.focus \ (Misrepresented \cup Derived),
                    told'[s] # Unknown
             PROVE  told'[s] = values[s]
    BY DEF ToldOf
<1>3. told[s] # Unknown => told[s] = values[s]
    BY DEF ToldOf, Same
<1>4. CASE /\ call.op = "get" /\ call.s = s /\ status = "ok" /\ call.v = <<>>
           /\ \A k \in DOMAIN out : out[k] # Unwritten
    <2> DEFINE r == ReadOut(RowOf(s), a)
    <2>1. stage = "get" /\ Return(r.status, r.out)
        BY <1>4, GetReturns
    <2>2. r.status = "ok" /\ r.out = out
        BY <1>1, <1>4, <2>1 DEF Return, Answer
    <2>3. a = Holding(Request("GET", s, <<>>))
        BY <1>4, <2>1 DEF IsReading, Derived
    <2>4. ~NotAsked(s)
        BY <1>4 DEF CallFits
    <2>5. out = a \/ out = <<Unwritten>>
        BY <2>2, <2>3, <2>4, ReadingIsHeld
    <2>6. out = a
        <3>1. <<Unwritten>>[1] = Unwritten /\ 1 \in DOMAIN <<Unwritten>>
            OBVIOUS
        <3> QED
            BY <1>4, <2>5, <3>1
    <2>7. a = values[s]
        <3>1. s \notin {"sweep_entry_size", "sweep_status", "capture_mode", "entry"}
            <4>1. s \in DOMAIN Rows(Descr)
                BY HoldsFit DEF Texts
            <4> QED
                BY <4>1 DEF Rows, Derived
        <3>2. LET r0 == Request("GET", s, <<>>) IN r0.s = s /\ r0.v = <<>>
            BY DEF Request
        <3> QED
            BY <2>3, <3>1, <3>2 DEF Holding
    <2>8. told'[s] = out
        BY <1>1, <1>2, <1>4 DEF ToldAfter
    <2> QED
        BY <2>6, <2>7, <2>8
<1>5. CASE ~ /\ call.op = "get" /\ call.s = s /\ status = "ok" /\ call.v = <<>>
             /\ \A k \in DOMAIN out : out[k] # Unwritten
    <2>1. told'[s] \in {Unknown, told[s]}
        BY <1>1, <1>2, <1>5 DEF ToldAfter
    <2> QED
        BY <1>3, <2>1
<1> QED
    BY <1>4, <1>5

LEMMA SaysNothingElse ==
    ASSUME NEW a, NEW x, NEW w, \A k \in DOMAIN a : a[k] = x, x # Word(w)
    PROVE  ~Says(Answered(a), w)
<1>1. Answered(a).text = a
    BY DEF Answered
<1> QED
    BY <1>1 DEF Says

\* After a command that the instrument confirmed, or that it refused, the
\* application believes of a setting what it did, or what it has just set.
LEMMA CommandReports ==
    ASSUME Control, pc = "recv", ~Unverified, NEW a,
           a = <<Word("No error")>> \/ a = <<Word("-222")>>, Concluded(Answered(a))
    PROVE  /\ ret'.op = call.op
           /\ \A s \in session.focus : told'[s] # Unknown =>
                 \/ told'[s] = told[s] /\ (~Touched(s) \/ a = <<Word("-222")>>)
                 \/ /\ a = <<Word("No error")>>
                    /\ call.op = "set" /\ call.s = s /\ told'[s] = call.v
<1>1. Verified(Answered(a))
    BY DEF Concluded, Unverified
<1>2. call.op # "get"
    BY DEF Control, StagesOf, Unverified
<1>3. PICK status \in {"ok", "bytes", "setfailed"} :
         /\ told' = ToldAfter(status, <<>>) /\ ret'.op = call.op
         /\ a = <<Word("No error")>> /\ call.op \notin {"sweep_stop", "stream_stop"}
               => status = "bytes"
         /\ a = <<Word("No error")>> => status \in {"ok", "bytes"}
         /\ a = <<Word("-222")>> => status = "setfailed"
    <2>1. a = <<Word("No error")>> => Says(Answered(a), "No error")
        <3> SUFFICES ASSUME a = <<Word("No error")>>
                     PROVE  Says(Answered(a), "No error")
            OBVIOUS
        <3>1. Answered(a).text = a
            BY DEF Answered
        <3>2. 1 \in DOMAIN a /\ a[1] = Word("No error")
            BY Single
        <3> QED
            BY <3>1, <3>2 DEF Says
    <2>2. a = <<Word("-222")>> => ~Says(Answered(a), "No error")
        <3> SUFFICES ASSUME a = <<Word("-222")>>
                     PROVE  ~Says(Answered(a), "No error")
            OBVIOUS
        <3>1. \A k \in DOMAIN a : a[k] = Word("-222")
            BY OnlyOne
        <3>2. Word("-222") # Word("No error")
            BY DEF Word
        <3> QED
            BY <3>1, <3>2, SaysNothingElse
    <2>3. Verdict(Answered(a)) =
             IF Says(Answered(a), "No error") THEN "bytes" ELSE "setfailed"
        BY DEF Verdict, Answered
    <2> QED
        BY <1>1, <2>1, <2>2, <2>3 DEF Verified, Return, Answer
<1>4. ASSUME NEW s \in session.focus
      PROVE  told'[s] =
                IF call.op = "set" /\ call.s = s
                  THEN IF status = "bytes" THEN call.v ELSE told[s]
                ELSE IF \/ call.op \in {"entry_copy", "entry_new"}
                             /\ s \in TemplateSettings /\ status = "bytes"
                        \/ call.op = "reset_pll" /\ s = "reference_pll"
                             /\ status = "bytes"
                  THEN Unknown
                ELSE told[s]
    BY <1>2, <1>3 DEF ToldAfter, Lost
<1>5. a = <<Word("-222")>> => a # <<Word("No error")>>
    BY <1>3
<1> QED
    BY <1>3, <1>4, <1>5 DEF Touched

LEMMA ToldAfterCommand ==
    ASSUME Control, pc = "recv", ~Unverified, ToldOf(before.values), NEW a,
           \/ a = <<Word("No error")>> /\ Done
           \/ a = <<Word("-222")>> /\ Same,
           Concluded(Answered(a)), UNCHANGED <<session, values>>
    PROVE  ToldOf(values)'
<1> SUFFICES ASSUME NEW s \in session.focus \ (Misrepresented \cup Derived),
                    told'[s] # Unknown
             PROVE  told'[s] = values[s]
    BY DEF ToldOf
<1>1. told[s] # Unknown => told[s] = before.values[s]
    BY DEF ToldOf
<1>2. \/ told'[s] = told[s] /\ (~Touched(s) \/ a = <<Word("-222")>>)
      \/ a = <<Word("No error")>> /\ call.op = "set" /\ call.s = s /\ told'[s] = call.v
    BY CommandReports
<1>3. <<Word("-222")>> # <<Word("No error")>>
    BY Single DEF Word
<1>4. CASE told'[s] = told[s] /\ (~Touched(s) \/ a = <<Word("-222")>>)
    <2>1. values[s] = before.values[s]
        BY <1>3, <1>4 DEF Done, Same
    <2> QED
        BY <1>1, <1>4, <2>1
<1>5. CASE /\ a = <<Word("No error")>> /\ call.op = "set" /\ call.s = s
           /\ told'[s] = call.v
    <2>1. values[s] = Written(s, call.v)
        BY <1>3, <1>5 DEF Done
    <2>2. Written(s, call.v) = call.v
        BY DEF Written, Misrepresented
    <2> QED
        BY <1>5, <2>1, <2>2
<1> QED
    BY <1>2, <1>4, <1>5

LEMMA BeliefAfterReceive ==
    ASSUME Texts, Control, CallFits, Agreed, Belief, Trusted,
           NEW n \in 1 .. Len(toCli), Receive(n)
    PROVE  Belief'
<1>1. /\ pc = "recv"
      /\ UNCHANGED <<session, link, toDev, lates, orphans, errs, call, before>>
      /\ UNCHANGED <<values, current, list, running>>
      /\ call.op # "capture_block"
    BY DEF Receive, device, Control
<1>2. toCli # <<>> /\ ToldOf(before.values)
    BY <1>1 DEF Belief
<1>3. ASSUME NEW status, NEW out, Return(status, out)
      PROVE  /\ pc' = "idle" /\ ret'.op = call.op /\ ret'.s = call.s
             /\ ret'.v = call.v /\ ret'.status = status /\ ret'.out = out
    BY <1>3 DEF Return, Answer
<1>4. call.op = "get" =>
         /\ call.s \in session.focus /\ ~NotAsked(call.s)
         /\ call.v = <<>> \/ call.s \in LanSettings
    BY <1>1 DEF CallFits
<1>5. CASE Unverified
    <2>1. PICK a : toCli = <<a>> /\ Same
        BY <1>1, <1>2, <1>5 DEF Agreed, Exchange, Asking
    <2>2. Concluded(Answered(a)) /\ IsReading(a)
        BY <1>1, <1>5, <2>1, OneReceived DEF Belief
    <2>3. CASE \E st \in StagesOf(call.op) : GoOn(st)
        <3>1. pc' = "send" /\ UNCHANGED <<told, ret>>
            BY <2>3 DEF GoOn
        <3>2. ToldOf(before.values)'
            BY <1>1, <1>2, <3>1 DEF ToldOf
        <3> QED
            BY <1>1, <3>1, <3>2 DEF Belief, Delivered
    <2>4. CASE pc' = "crashed" /\ UNCHANGED <<stage, told, ret>>
        BY <1>1, <2>4 DEF Belief, Delivered
    <2>5. CASE \E status, out : Return(status, out)
        <3>1. PICK status, out : Return(status, out)
            BY <2>5
        <3>2. ToldOf(values)'
            BY <1>1, <1>2, <1>5, <2>1, <2>2, <3>1, ToldAfterQuery
        <3>3. pc' = "idle" /\ ret'.op = call.op /\ ret'.s = call.s /\ ret'.v = call.v
            BY <1>3, <3>1
        <3>4. ASSUME ret'.status = "ok", call.op = "get"
              PROVE  (\/ ret.out = Held
                      \/ Unassigned(ret.s) /\ ret.out = <<Unwritten>>
                      \/ ret.out = <<Word("RUNNING")>> /\ running = "BLOCK")'
            <4> DEFINE r == ReadOut(RowOf(call.s), a)
            <4>1. stage = "get" /\ Return(r.status, r.out)
                BY <1>1, <2>2, <3>4, GetReturns
            <4>2. r.status = "ok" /\ ret'.out = r.out
                BY <1>3, <3>4, <4>1
            <4>3. \/ a = Holding(Request("GET", call.s, call.v))
                  \/ call.s = "sweep_status" /\ a = <<Word("RUNNING")>>
                                             /\ running = "BLOCK"
                BY <2>2, <4>1 DEF IsReading
            <4>4. r.out = a \/ (r.out = <<Unwritten>> /\ Unassigned(call.s))
                BY <1>4, <3>4, <4>2, <4>3, ReadingIsHeld
            <4>5. Held' = Holding(Request("GET", call.s, call.v))
                BY <1>1, <3>3 DEF Held, Holding
            <4>6. Unassigned(ret.s)' = Unassigned(call.s)
                BY <1>1, <3>3 DEF Unassigned, NotAsked, Descr
            <4> HIDE DEF r
            <4> QED
                BY <1>1, <4>2, <4>3, <4>4, <4>5, <4>6
        <3>5. ASSUME ret'.status = "ok", call.op = "entry_read"
              PROVE  IsRead(ret'.out, EntryText(list[call.v[1].n]))
            BY <1>1, <2>2, <3>3, <3>5, EntryReturns
        <3>6. Delivered'
            BY <1>1, <3>3, <3>4, <3>5 DEF Delivered
        <3> QED
            BY <1>1, <1>4, <3>2, <3>3, <3>6 DEF Belief
    <2> QED
        BY <1>1, <2>2, <2>3, <2>4, <2>5, Conclusions
<1>6. CASE ~Unverified
    <2>1. PICK a : /\ toCli = <<a>>
                   /\ a = <<Word("No error")>> \/ (a = <<Word("-222")>> /\ Same)
        BY <1>1, <1>2, <1>6 DEF Agreed, Exchange, Verifying
    <2>2. a = <<Word("No error")>> => Done
        BY <1>1, <1>6, <2>1 DEF Belief, Confirmed
    <2>3. Concluded(Answered(a))
        BY <2>1, OneReceived
    <2>4. ToldOf(values)'
        BY <1>1, <1>2, <1>6, <2>1, <2>2, <2>3, ToldAfterCommand
    <2>5. pc' = "idle" /\ ret'.op = call.op
        <3>1. Verified(Answered(a))
            BY <1>6, <2>3 DEF Concluded, Unverified
        <3> QED
            BY <1>3, <3>1 DEF Verified
    <2>6. call.op \notin {"get", "entry_read"}
        BY <1>1, <1>6 DEF Control, StagesOf, Unverified
    <2> QED
        BY <1>1, <2>4, <2>5, <2>6 DEF Belief, Delivered
<1> QED
    BY <1>5, <1>6

LEMMA BeliefAfterBegin ==
    ASSUME Belief, Trusted, CallFits, NEW op, NEW s, NEW v, BeginsAs(op, s, v)
    PROVE  Belief'
<1>1. /\ pc = "idle" /\ before'.values = values /\ ToldOf(values)
      /\ call'.op = op /\ call'.s = s /\ call'.v = v
      /\ UNCHANGED <<session, values, current, list, running>>
    BY DEF BeginsAs, Begin, Request, device, Belief
<1>2. op = "get" => s \in session.focus
    BY DEF BeginsAs
<1>3. CASE \E status, out :
              /\ AtOnce(status, out)
              /\ status = "ok" => op = "get" /\ NotAsked(s) /\ out = <<Unwritten>>
    <2>1. PICK status, out :
              /\ AtOnce(status, out)
              /\ status = "ok" => op = "get" /\ NotAsked(s) /\ out = <<Unwritten>>
        BY <1>3
    <2>2. /\ UNCHANGED <<pc, told>> /\ ret'.op = op /\ ret'.s = s
          /\ ret'.status = status /\ ret'.out = out
        BY <1>1, <2>1 DEF AtOnce, Answer
    <2>3. ToldOf(values)'
        BY <1>1, <2>2 DEF ToldOf
    <2>4. NotAsked(s) => Unassigned(ret.s)'
        BY <1>1, <2>2 DEF Unassigned, NotAsked, Descr
    <2>5. Delivered'
        BY <2>1, <2>2, <2>4 DEF Delivered
    <2> QED
        BY <1>1, <1>2, <2>2, <2>3, <2>5 DEF Belief
<1>4. CASE \E st : GoOn(st)
    <2>1. pc' = "send" /\ UNCHANGED <<told, ret>>
        BY <1>4 DEF GoOn
    <2>2. ToldOf(before.values)'
        BY <1>1, <2>1 DEF ToldOf
    <2> QED
        BY <1>1, <2>1, <2>2 DEF Belief, Delivered
<1> QED
    BY <1>3, <1>4 DEF BeginsAs

LEMMA BeliefAfterSend ==
    ASSUME Control, Agreed, Belief, Trusted, Send
    PROVE  Belief'
<1>1. /\ pc = "send" /\ toDev' = toDev \o Sends /\ Same /\ toCli = <<>>
      /\ toDev \in Seq({Block}) /\ ToldOf(before.values)
      /\ UNCHANGED <<session, toCli, errs, call, before, values, current, list, running>>
    BY DEF Send, Agreed, Exchange, Belief, Trusted, device
<1>2. CASE call.op = "capture_block"
    <2>1. /\ pc' = "idle" /\ ret'.op = call.op /\ ret'.status = "bytes"
          /\ told' = ToldAfter("bytes", <<>>)
        BY <1>2 DEF Send, Return, Answer
    <2>2. \A s \in session.focus : told'[s] = told[s]
        BY <1>2, <2>1 DEF ToldAfter
    <2>3. ToldOf(values)'
        BY <1>1, <2>2 DEF ToldOf, Same
    <2> QED
        BY <1>2, <2>1, <2>3 DEF Belief, Delivered
<1>3. CASE call.op # "capture_block"
    <2>1. pc' = "recv" /\ UNCHANGED <<stage, told, ret>>
        BY <1>3 DEF Send
    <2>2. ToldOf(before.values)'
        BY <1>1, <2>1 DEF ToldOf
    <2>3. \A a : <<a>> # <<>>
        OBVIOUS
    <2>4. ~Unverified => Len(toDev') # 1
        <3> SUFFICES ASSUME ~Unverified
                     PROVE  Len(toDev') # 1
            OBVIOUS
        <3>1. toDev' = toDev \o <<Asks, Verification>>
            BY <1>1, <1>3, Sent
        <3>2. toDev \in Seq({Block, Asks, Verification}) /\ Len(toDev) \in Nat
            BY <1>1
        <3>3. Len(toDev') = Len(toDev) + 2
            BY <3>1, <3>2, JoinedByTwo
        <3> QED
            BY <3>2, <3>3
    <2>5. ~Unverified => Confirmed'
        BY <1>1, <2>3, <2>4 DEF Confirmed
    <2> QED
        BY <1>1, <2>1, <2>2, <2>3, <2>5 DEF Belief, Delivered, Unverified
<1> QED
    BY <1>2, <1>3

LEMMA BeliefAfterSweep ==
    ASSUME Texts, Control, CallFits, Belief, Trusted, SweepEnds
    PROVE  Belief'
<1>1. /\ running = "SWEEPING" /\ running' = "BLOCK"
      /\ UNCHANGED <<session, values, current, list, errs, toDev, toCli>>
      /\ UNCHANGED <<pc, call, stage, told, before, ret>>
    BY DEF SweepEnds, wires, client
<1>2. \A s \in session.focus : s # "capture_mode"
    <2>1. session.focus \subseteq DOMAIN Rows(Descr)
        BY HoldsFit DEF Texts
    <2> QED
        BY <2>1 DEF Rows
<1>3. ASSUME NEW s \in session.focus, NEW v
      PROVE  \/ Holding(Request("GET", s, v))' = Holding(Request("GET", s, v))
             \/ /\ s = "sweep_status"
                /\ Holding(Request("GET", s, v)) = <<Word("RUNNING")>>
    <2>1. ASSUME NEW r, r.s # "capture_mode"
          PROVE  \/ Holding(r)' = Holding(r)
                 \/ r.s = "sweep_status" /\ Holding(r) = <<Word("RUNNING")>>
        <3>1. CASE r.s = "sweep_status"
            BY <1>1, <2>1, <3>1 DEF Holding, LanSettings
        <3>2. CASE r.s # "sweep_status"
            BY <1>1, <2>1, <3>2 DEF Holding, LanSettings
        <3> QED
            BY <3>1, <3>2
    <2>2. Request("GET", s, v).s = s /\ s # "capture_mode"
        BY <1>2 DEF Request
    <2> QED
        BY <2>1, <2>2
<1>4. ASSUME pc = "recv", NEW a, IsReading(a)
      PROVE  IsReading(a)'
    <2>1. stage = "entry" => (EntryAt(Id) /\ a = EntryText(list[Id]))'
        BY <1>1, <1>4 DEF IsReading, EntryAt, Id
    <2>2. ASSUME stage = "get"
          PROVE  \/ a = Holding(Request("GET", call.s, call.v))'
                 \/ call.s = "sweep_status" /\ a = <<Word("RUNNING")>>
        <3>1. call.s \in session.focus
            BY <1>4, <2>2 DEF Control, StagesOf, CallFits
        <3>2. \/ a = Holding(Request("GET", call.s, call.v))
              \/ call.s = "sweep_status" /\ a = <<Word("RUNNING")>>
            BY <1>4, <2>2 DEF IsReading
        <3> QED
            BY <1>1, <1>3, <3>1, <3>2
    <2> QED
        BY <1>1, <2>1, <2>2 DEF IsReading
<1>5. Delivered'
    <2>1. ASSUME ret.op = "get", ret.out = Held
          PROVE  ret.out = Held' \/ ret.out = <<Word("RUNNING")>>
        <3>1. ret.s \in session.focus
            BY <2>1 DEF Belief
        <3> QED
            BY <1>1, <1>3, <2>1, <3>1 DEF Held
    <2>2. \A s : Unassigned(s)' = Unassigned(s)
        BY <1>1 DEF Unassigned, NotAsked, Descr
    <2> QED
        BY <1>1, <2>1, <2>2 DEF Belief, Delivered
<1> QED
    BY <1>1, <1>4, <1>5 DEF Belief, ToldOf, Confirmed, Done, Touched, Unverified

\* A command changes the settings it is about, and no other.
LEMMA CommandDone ==
    ASSUME Texts, Control, CallFits, pc = "recv", ~Unverified, Same, Executes(Asks),
           UNCHANGED <<session, call, before>>
    PROVE  Done'
<1>1. values = before.values /\ DOMAIN values = session.focus
    BY DEF Same, Texts
<1>2. CASE stage = "set"
    <2>1. call.op = "set" /\ call.s \in session.focus
        BY <1>2 DEF Control, StagesOf, CallFits, Settable
    <2>2. /\ Asks.op = "SET" /\ Asks.s = call.s
          /\ Asks.v = Written(call.s, call.v)
        BY <1>2 DEF Asks, Request
    <2>3. values' = [values EXCEPT ![call.s] = Written(call.s, call.v)]
        BY <2>2 DEF Executes
    <2>4. /\ values'[call.s] = Written(call.s, call.v)
          /\ \A s \in session.focus : s # call.s => values'[s] = values[s]
        BY <1>1, <2>1, <2>3
    <2> QED
        BY <1>1, <2>1, <2>4 DEF Done, Touched
<1>3. CASE stage = "command"
    <2>1. call.op # "set" /\ Asks.op = "CMD" /\ Asks.s = call.op
        BY <1>3, Asked DEF Control, StagesOf, Request
    <2>2. CASE call.op = "reset_pll"
        <3>1. values' = [s \in session.focus |->
                            IF s = "reference_pll" THEN Holds[s][1] ELSE values[s]]
            BY <2>1, <2>2 DEF Executes
        <3> QED
            BY <1>1, <2>1, <2>2, <3>1 DEF Done, Touched
    <2>3. CASE call.op = "entry_new"
        <3>1. values' = [s \in session.focus |->
                            IF s \in TemplateSettings THEN Holds[s][1] ELSE values[s]]
            BY <2>1, <2>3 DEF Executes
        <3> QED
            BY <1>1, <2>1, <2>3, <3>1 DEF Done, Touched
    <2>4. CASE call.op = "entry_copy"
        <3>1. \E e : values' = [s \in session.focus |->
                            IF s \in TemplateSettings THEN e[s] ELSE values[s]]
            BY <2>1, <2>4 DEF Executes
        <3> QED
            BY <1>1, <2>1, <2>4, <3>1 DEF Done, Touched
    <2>5. CASE call.op \notin {"reset_pll", "entry_new", "entry_copy"}
        <3>1. values' = values
            BY <2>1, <2>5 DEF Executes
        <3> QED
            BY <1>1, <2>1, <3>1 DEF Done
    <2> QED
        BY <2>2, <2>3, <2>4, <2>5
<1> QED
    BY <1>2, <1>3 DEF Unverified

LEMMA BeliefAfterDevice ==
    ASSUME Texts, Control, CallFits, Counts, Agreed, Belief, Trusted,
           DeviceExecutes, orphans' = orphans
    PROVE  Belief'
<1>1. /\ toDev # <<>> /\ toDev' = Tail(toDev) /\ orphans \in Nat
      /\ UNCHANGED <<session, link, pc, call, stage, told, ret, before>>
      /\ Unverified' = Unverified
    BY DEF DeviceExecutes, client, Unverified, Counts
<1>2. CASE pc # "recv"
    <2>1. toDev \in Seq({Block})
        BY <1>2 DEF Agreed, Exchange
    <2>2. Head(toDev) = Block
        BY <1>1, <2>1, Tails
    <2>3. UNCHANGED <<toCli, values, current, list, running, errs>>
        BY <1>1, <2>2, BlockExecutes
    <2>4. Delivered'
        <3>1. Held' = Held
            BY <1>1, <2>3 DEF Held, Holding
        <3>2. Unassigned(ret.s)' = Unassigned(ret.s)
            BY <1>1, <2>3 DEF Unassigned, NotAsked, Descr
        <3> QED
            BY <1>1, <2>3, <3>1, <3>2 DEF Belief, Delivered
    <2> QED
        BY <1>1, <1>2, <2>3, <2>4 DEF Belief, ToldOf
<1>3. CASE pc = "recv"
    <2>1. ToldOf(before.values)' /\ Delivered'
        BY <1>1, <1>3 DEF Belief, ToldOf, Delivered
    <2>2. ASSUME Unverified, NEW a, toCli' = <<a>>
          PROVE  IsReading(a)'
        <3>1. /\ toCli = <<>> /\ toDev \in Seq({Block, Asks})
              /\ \A i \in DOMAIN toDev : toDev[i] = IF i = Len(toDev) THEN Asks ELSE Block
            BY <1>1, <1>3, <2>2 DEF Agreed, Exchange, Asking
        <3>2. CASE Head(toDev) = Block
            <4>1. toCli' = <<>>
                BY <1>1, <3>1, <3>2, BlockExecutes
            <4>2. <<a>> # <<>>
                OBVIOUS
            <4> QED
                BY <2>2, <4>1, <4>2
        <3>3. CASE Head(toDev) = Asks
            <4>1. Asks.op = "GET"
                BY <1>3, <2>2, Asked
            <4>2. Queried(Asks)
                BY <1>1, <3>3, <4>1, DeviceDoes DEF Commanded, AskedForErrors
            <4>3. a = Holding(Asks)
                <5>1. toCli' = <<Holding(Asks)>>
                    BY <3>1, <4>2, FirstAnswer DEF Queried
                <5> QED
                    BY <2>2, <5>1, Single
            <4>4. UNCHANGED <<values, current, list, running>> /\ Answerable(Asks)
                BY <4>2 DEF Queried
            <4>5. stage = "entry" => EntryAt(Id) /\ a = EntryText(list[Id])
                <5> SUFFICES ASSUME stage = "entry"
                             PROVE  EntryAt(Id) /\ a = EntryText(list[Id])
                    OBVIOUS
                <5>1. Asks.s = "entry" /\ Asks.v = call.v
                    BY DEF Asks, Request
                <5> QED
                    BY <4>3, <4>4, <5>1 DEF Answerable, Holding, Id, LanSettings
            <4>6. stage = "get" => Asks = Request("GET", call.s, call.v)
                BY DEF Asks
            <4>7. \A r : Holding(r)' = Holding(r)
                BY <4>4 DEF Holding
            <4> QED
                BY <1>1, <4>3, <4>4, <4>5, <4>6, <4>7 DEF IsReading, EntryAt, Id
        <3> QED
            BY <1>1, <3>1, <3>2, <3>3, Tails
    <2>3. ASSUME ~Unverified
          PROVE  Confirmed'
        <3>1. /\ toCli = <<>> /\ toDev \in Seq({Block, Asks, Verification})
              /\ \A i \in DOMAIN toDev :
                    toDev[i] = IF i = Len(toDev) THEN Verification
                               ELSE IF i = Len(toDev) - 1 THEN Asks ELSE Block
              /\ Len(toDev) > 1 => Same /\ errs = 0
            BY <1>1, <1>3, <2>3 DEF Agreed, Exchange, Verifying
        <3>2. /\ Len(toDev) \in Nat \ {0} /\ Len(toDev') = Len(toDev) - 1
              /\ 1 \in DOMAIN toDev /\ Head(toDev) = toDev[1]
            BY <1>1, <3>1, Tails
        <3>3. \A a : <<a>> # <<>>
            OBVIOUS
        <3>4. CASE Len(toDev) > 2
            <4>1. Head(toDev) = Block
                BY <3>1, <3>2, <3>4
            <4>2. toCli' = <<>>
                BY <1>1, <3>1, <4>1, BlockExecutes
            <4>3. Len(toDev') # 1
                BY <3>2, <3>4
            <4> QED
                BY <3>3, <4>2, <4>3 DEF Confirmed
        <3>5. CASE Len(toDev) = 2
            <4>1. Head(toDev) = Asks /\ Same /\ errs = 0
                BY <3>1, <3>2, <3>5
            <4>2. Commanded(Asks)
                <5>1. Asks.op \in {"SET", "CMD"}
                    BY <2>3, Asked
                <5> QED
                    BY <1>1, <4>1, <5>1, DeviceDoes DEF Queried, AskedForErrors
            <4>3. toCli' = <<>> /\ (errs' = 0 => Executes(Asks))
                BY <3>1, <4>1, <4>2 DEF Commanded
            <4>4. Executes(Asks) => Done'
                BY <1>1, <1>3, <2>3, <4>1, CommandDone
            <4> QED
                BY <3>3, <4>3, <4>4 DEF Confirmed
        <3>6. CASE Len(toDev) = 1
            <4>1. Head(toDev) = Verification
                BY <3>1, <3>2, <3>6
            <4>2. AskedForErrors(Verification)
                <5>1. Verification.op = "ERR"
                    BY DEF Verification, Request
                <5> QED
                    BY <1>1, <4>1, <5>1, DeviceDoes DEF Commanded, Queried
            <4>3. values' = values /\ Len(toDev') # 1
                <5>1. values' = values
                    BY <4>2 DEF AskedForErrors
                <5>2. Len(toDev') # 1
                    BY <3>2, <3>6
                <5> QED
                    BY <5>1, <5>2
            <4>4. errs = 0 => Done
                <5>1. Confirmed
                    BY <1>3, <2>3 DEF Belief
                <5> QED
                    BY <3>6, <5>1 DEF Confirmed
            <4>5. toCli' = <<<<Word(IF errs = 0 THEN "No error" ELSE "-222")>>>>
                BY <3>1, <4>2, FirstAnswer DEF AskedForErrors
            <4>6. errs # 0 => toCli' # <<<<Word("No error")>>>>
                <5>1. \A x, y : <<<<x>>>> = <<<<y>>>> => x = y
                    <6>1. \A x, y : <<x>> = <<y>> => x = y
                        BY Single
                    <6> QED
                        BY <6>1, Zenon
                <5>2. Word("-222") # Word("No error")
                    BY DEF Word
                <5> QED
                    BY <4>5, <5>1, <5>2
            <4>7. Done => Done'
                BY <1>1, <4>3 DEF Done, Touched
            <4> QED
                BY <4>3, <4>4, <4>6, <4>7 DEF Confirmed
        <3> QED
            BY <3>2, <3>4, <3>5, <3>6, OneTwoMore
    <2> QED
        BY <1>1, <1>3, <2>1, <2>2, <2>3 DEF Belief
<1> QED
    BY <1>2, <1>3

\* On a good connection nobody gives up but on an answer to come.
LEMMA NeverInVain ==
    ASSUME Agreed, lates = 0, lates' = 0
    PROVE  ~GiveUp
<1> SUFFICES ASSUME GiveUp
             PROVE  FALSE
    OBVIOUS
<1>1. pc = "recv" /\ (Asking \/ Verifying)
    BY DEF GiveUp, Agreed, Exchange
<1>2. \A a : <<a>> # <<>>
    OBVIOUS
<1>3. UnderWay
    BY <1>1, <1>2 DEF UnderWay, Asking, Verifying
<1> QED
    BY <1>3 DEF GiveUp

LEMMA BeliefStep ==
    ASSUME Inv, Belief, [Next]_vars
    PROVE  Belief'
<1> SUFFICES ASSUME Trusted'
             PROVE  Belief'
    BY DEF Belief
<1>1. /\ Texts /\ Control /\ CallFits /\ Counts /\ Agreed /\ Trusted
      /\ lates = 0 /\ lates' = 0 /\ orphans' = orphans /\ link = "up" /\ link' = "up"
    BY TrustedBefore DEF Inv, Agreement, Agreed, Trusted
<1>2. CASE Application
    BY <1>1, <1>2, CallsBegin, BeliefAfterBegin
<1>3. CASE Send
    BY <1>1, <1>3, BeliefAfterSend
<1>4. ~SendRefused /\ ~LinkDown
    BY <1>1 DEF SendRefused, LinkDown
<1>5. ASSUME NEW n \in 1 .. Len(toCli), Receive(n)
      PROVE  Belief'
    BY <1>1, <1>5, BeliefAfterReceive
<1>6. ~GiveUp
    BY <1>1, NeverInVain
<1>7. CASE DeviceExecutes
    BY <1>1, <1>7, BeliefAfterDevice
<1>8. CASE SweepEnds
    BY <1>1, <1>8, BeliefAfterSweep
<1>9. CASE UNCHANGED vars
    <2>1. /\ UNCHANGED <<session, values, current, list, running, errs, toDev, toCli>>
          /\ UNCHANGED <<pc, call, stage, told, before, ret>>
        BY <1>9 DEF vars, device, wires, client
    <2>2. \A r : Holding(r)' = Holding(r)
        BY <2>1 DEF Holding
    <2>3. Held' = Held /\ \A s : Unassigned(s)' = Unassigned(s)
        BY <2>1, <2>2 DEF Held, Unassigned, NotAsked, Descr
    <2>4. \A a : IsReading(a)' = IsReading(a)
        BY <2>1, <2>2 DEF IsReading, EntryAt, Id
    <2>5. Delivered' = Delivered
        BY <2>1, <2>3 DEF Delivered
    <2>6. Confirmed' = Confirmed
        BY <2>1 DEF Confirmed, Done, Touched
    <2> QED
        BY <1>1, <2>1, <2>4, <2>5, <2>6 DEF Belief, ToldOf, Unverified
<1> QED
    BY <1>2, <1>3, <1>4, <1>5, <1>6, <1>7, <1>8, <1>9 DEF Next, Library

LEMMA BeliefInit ==
    ASSUME Init
    PROVE  Belief
<1>1. /\ pc = "idle" /\ ret.op = "none"
      /\ told = [s \in session.focus |-> Unknown]
    BY DEF Init, NoRet
<1> QED
    BY <1>1 DEF Belief, ToldOf, Delivered

-----------------------------------------------------------------------------
(***************************************************************************)
(* What a set function lets out, the get function of the same setting reads *)
(* back.                                                                    *)
(***************************************************************************)
Kinds == {"int", "double", "text"}
Passes(row, v) == \A k \in DOMAIN row.takes : v[row.takes[k].of] \in row.takes[k].in
SoundChecks(row) ==
    DOMAIN row.takes \in SUBSET Nat /\ \A k \in DOMAIN row.takes : row.takes[k].err # "ok"

\* The limits of the two functions agree: what passes the checks of the set
\* function, the get function does not refuse.
Agrees(row) ==
    /\ SoundChecks(row)
    /\ \A k \in DOMAIN row.gives : row.gives[k].as \in Kinds
    /\ \A v : Passes(row, v) =>
          \A k \in DOMAIN row.gives :
              row.gives[k].in = Anything \/ v[k] \in row.gives[k].in

LEMMA RefusedIfNot ==
    ASSUME NEW row, NEW v, SoundChecks(row), Refusal(row, v) = "ok"
    PROVE  Passes(row, v)
<1> DEFINE fails == {k \in DOMAIN row.takes : v[row.takes[k].of] \notin row.takes[k].in}
           first == CHOOSE k \in fails : \A j \in fails : k <= j
<1>1. fails # {} => Refusal(row, v) = row.takes[first].err
    BY DEF Refusal
<1>2. fails \in SUBSET Nat
    BY DEF SoundChecks
<1>3. fails # {} => first \in fails
    <2> HIDE DEF fails
    <2> QED
        BY <1>2, Least
<1>4. fails = {}
    BY <1>1, <1>3 DEF SoundChecks
<1> QED
    BY <1>4 DEF Passes

\* What the get functions read.
LEMMA ReadKinds ==
    /\ AnInt.as \in Kinds /\ AnInt.in = Anything
    /\ ADouble.as \in Kinds /\ ADouble.in = Anything
    /\ AText.as \in Kinds /\ AText.in = Anything
    /\ \A S : CopiedMode(S).as \in Kinds /\ CopiedMode(S).in = S
    /\ \A as, S, e : Read(as, S, e).as = as /\ Read(as, S, e).in = S
<1>1. \A as, S, e : Read(as, S, e).as = as /\ Read(as, S, e).in = S
    BY DEF Read
<1>2. ASSUME NEW S
      PROVE  CopiedMode(S).as \in Kinds /\ CopiedMode(S).in = S
    <2> DEFINE x == Read("text", S, "INVRFEINPUTMODE")
    <2>1. x = [as |-> "text", in |-> S, err |-> "INVRFEINPUTMODE",
               writes |-> S, early |-> FALSE]
        BY DEF Read
    <2>2. CopiedMode(S) = [x EXCEPT !.early = TRUE, !.writes = Anything]
        BY DEF CopiedMode
    <2> QED
        BY <2>1, <2>2 DEF Kinds
<1> QED
    BY <1>1, <1>2 DEF AnInt, ADouble, AText, Kinds

LEMMA OneReadAgrees ==
    ASSUME NEW row, NEW x, row.gives = <<x>>, x.as \in Kinds, SoundChecks(row),
           x.in = Anything \/ \A v : Passes(row, v) => v[1] \in x.in
    PROVE  Agrees(row)
<1>1. DOMAIN row.gives = {1} /\ row.gives[1] = x
    OBVIOUS
<1> QED
    BY <1>1 DEF Agrees

LEMMA NoChecks ==
    ASSUME NEW row, row.takes = <<>>
    PROVE  SoundChecks(row)
BY DEF SoundChecks

LEMMA OneCheck ==
    ASSUME NEW row, NEW S, NEW e, e # "ok", row.takes = <<Check(1, S, e)>>
    PROVE  /\ SoundChecks(row)
           /\ \A v : Passes(row, v) => v[1] \in S
<1>1. DOMAIN row.takes = {1} /\ row.takes[1] = Check(1, S, e)
    OBVIOUS
<1>2. Check(1, S, e).of = 1 /\ Check(1, S, e).in = S /\ Check(1, S, e).err = e
    BY DEF Check
<1> QED
    BY <1>1, <1>2 DEF SoundChecks, Passes

LEMMA TwoChecks ==
    ASSUME NEW row, NEW i, NEW j, NEW S, NEW T, NEW e, NEW f, e # "ok", f # "ok",
           row.takes = <<Check(i, S, e), Check(j, T, f)>>
    PROVE  /\ SoundChecks(row)
           /\ \A v : Passes(row, v) => v[i] \in S /\ v[j] \in T
<1>1. /\ DOMAIN row.takes = {1, 2} /\ row.takes[1] = Check(i, S, e)
      /\ row.takes[2] = Check(j, T, f)
    OBVIOUS
<1>2. /\ Check(i, S, e).of = i /\ Check(i, S, e).in = S /\ Check(i, S, e).err = e
      /\ Check(j, T, f).of = j /\ Check(j, T, f).in = T /\ Check(j, T, f).err = f
    BY DEF Check
<1> QED
    BY <1>1, <1>2 DEF SoundChecks, Passes

\* Settings that are not checked, and whatever is read is taken.
LEMMA UncheckedAgree ==
    ASSUME NEW row, NEW x \in {AnInt, ADouble, AText},
           row.takes = <<>>, row.gives = <<x>>
    PROVE  Agrees(row)
BY NoChecks, OneReadAgrees, ReadKinds

\* Settings with one check; the second of these reads as the check says.
LEMMA CheckedAgree ==
    ASSUME NEW row, NEW S, NEW e, e # "ok", row.takes = <<Check(1, S, e)>>,
           NEW x, x.as \in Kinds, row.gives = <<x>>, x.in \in {Anything, S}
    PROVE  Agrees(row)
<1>1. SoundChecks(row) /\ \A v : Passes(row, v) => v[1] \in S
    BY OneCheck
<1> QED
    BY <1>1, OneReadAgrees

\* Settings of two or three numbers: the fields that are refused by the get
\* function are those the set function checks.
LEMMA NumbersAgree ==
    ASSUME NEW row, SoundChecks(row),
           \A k \in DOMAIN row.gives :
               /\ row.gives[k].as \in Kinds
               /\ \/ row.gives[k].in = Anything
                  \/ \A v : Passes(row, v) => v[k] \in row.gives[k].in
    PROVE  Agrees(row)
BY DEF Agrees

LEMMA UncheckedRowsAgree ==
    /\ Agrees(wsa_lan_config) /\ Agrees(wsa_lan_ip) /\ Agrees(wsa_lan_netmask)
    /\ Agrees(wsa_lan_gateway) /\ Agrees(wsa_trigger_sync_state)
    /\ Agrees(wsa_sweep_iteration)
BY UncheckedAgree
   DEF Row, Unchecked, wsa_lan_config, wsa_lan_ip, wsa_lan_netmask, wsa_lan_gateway,
       wsa_trigger_sync_state, wsa_sweep_iteration

LEMMA CheckedRowsAgree ==
    ASSUME NEW d
    PROVE  /\ Agrees(wsa_samples_per_packet) /\ Agrees(wsa_packets_per_block)
           /\ Agrees(wsa_decimation) /\ Agrees(wsa_freq(d)) /\ Agrees(wsa_freq_shift)
           /\ Agrees(wsa_rfe_input_mode) /\ Agrees(wsa_iq_output_mode)
           /\ Agrees(wsa_trigger_type) /\ Agrees(wsa_reference_pll)
           /\ Agrees(wsa_sweep_rfe_input_mode) /\ Agrees(wsa_sweep_packets_per_block)
           /\ Agrees(wsa_sweep_decimation) /\ Agrees(wsa_sweep_freq_shift)
           /\ Agrees(wsa_sweep_freq_step(d)) /\ Agrees(wsa_sweep_trigger_type)
<1>1. ASSUME NEW row, NEW S, NEW e, e # "ok", NEW x, x.as \in Kinds,
             x.in \in {Anything, S}, row = Row(<<Check(1, S, e)>>, <<x>>)
      PROVE  Agrees(row)
    <2>1. row.takes = <<Check(1, S, e)>> /\ row.gives = <<x>>
        BY <1>1 DEF Row
    <2> QED
        BY <1>1, <2>1, CheckedAgree
<1>2. ASSUME NEW row, NEW S, NEW e, e # "ok", NEW as \in Kinds, NEW f,
             row = Row(<<Check(1, S, e)>>, <<Read(as, S, f)>>)
      PROVE  Agrees(row)
    <2> DEFINE x == Read(as, S, f)
    <2>1. x.as = as /\ x.in = S
        BY DEF Read
    <2> HIDE DEF x
    <2>2. row = Row(<<Check(1, S, e)>>, <<x>>)
        BY <1>2 DEF x
    <2> QED
        BY <1>1, <1>2, <2>1, <2>2
<1>3. ASSUME NEW row, NEW S, NEW e, e # "ok", NEW x \in {AnInt, ADouble},
             row = Row(<<Check(1, S, e)>>, <<x>>)
      PROVE  Agrees(row)
    BY <1>1, <1>3, ReadKinds
<1>4. Agrees(wsa_samples_per_packet)
    <2> DEFINE S == Numbers(256 .. 64000)
    <2>1. wsa_samples_per_packet = Row(<<Check(1, S, "INVSAMPLESIZE")>>, <<AnInt>>)
        BY DEF wsa_samples_per_packet
    <2> HIDE DEF S
    <2> QED
        BY <1>3, <2>1
<1>5. Agrees(wsa_packets_per_block)
    BY <1>3 DEF wsa_packets_per_block
<1>6. Agrees(wsa_decimation)
    BY <1>3 DEF wsa_decimation
<1>7. Agrees(wsa_freq(d)) /\ Agrees(wsa_sweep_freq_step(d))
    BY <1>3 DEF wsa_freq, wsa_verify_freq, wsa_sweep_freq_step
<1>8. Agrees(wsa_sweep_freq_shift)
    BY <1>3 DEF wsa_sweep_freq_shift
<1>9. /\ Agrees(wsa_rfe_input_mode) /\ Agrees(wsa_iq_output_mode)
      /\ Agrees(wsa_sweep_rfe_input_mode) /\ Agrees(wsa_reference_pll)
    BY <1>1, ReadKinds DEF wsa_rfe_input_mode, wsa_iq_output_mode,
       wsa_sweep_rfe_input_mode, wsa_reference_pll
<1>10. Agrees(wsa_freq_shift) /\ Agrees(wsa_trigger_type) /\ Agrees(wsa_sweep_decimation)
    BY <1>2 DEF wsa_freq_shift, wsa_trigger_type, wsa_sweep_decimation, Kinds
<1> QED
    BY <1>9, <1>10, <1>4, <1>5, <1>6, <1>7, <1>8
       DEF wsa_sweep_packets_per_block, wsa_sweep_trigger_type

LEMMA DelayAgrees ==
    Agrees(wsa_trigger_sync_delay) /\ Agrees(wsa_sweep_trigger_sync_delay)
<1> DEFINE row == wsa_trigger_sync_delay
           S == Numbers(1 .. DelayMax - 1)
           T == Numbers(MultiplesOf8)
           R == Numbers(0 .. DelayMax) \cap Numbers(MultiplesOf8)
           x == Read("int", R, "INVTRIGGERDELAY")
<1>1. /\ row.takes = <<Check(1, S, "INVTRIGGERDELAY"), Check(1, T, "INVTRIGGERDELAY")>>
      /\ row.gives = <<x>>
    BY DEF wsa_trigger_sync_delay, Row
<1>2. S \cap T \subseteq R
    <2>1. DelayMax \in Int
        BY SMT DEF DelayMax
    <2>2. 1 .. DelayMax - 1 \subseteq 0 .. DelayMax
        BY <2>1
    <2> QED
        BY <2>2 DEF Numbers
<1>3. x.as \in Kinds /\ x.in = R
    BY ReadKinds DEF Kinds
<1> HIDE DEF row, S, T, R, x
<1>4. SoundChecks(row) /\ \A v : Passes(row, v) => v[1] \in S /\ v[1] \in T
    BY <1>1, TwoChecks
<1>5. Agrees(row)
    BY <1>1, <1>2, <1>3, <1>4, OneReadAgrees
<1> QED
    BY <1>5 DEF row, wsa_sweep_trigger_sync_delay

LEMMA PacketSizeAgrees == Agrees(wsa_sweep_samples_per_packet)
<1> DEFINE row == wsa_sweep_samples_per_packet
           T == Numbers({n \in Nat : n % 32 = 0})
           x == Read("int", PacketSizes, "RESPUNKNOWN")
<1>1. /\ row.takes = <<Check(1, PacketSizes, "INVSAMPLESIZE"),
                       Check(1, T, "INVSAMPLESIZE")>>
      /\ row.gives = <<x>>
    BY DEF wsa_sweep_samples_per_packet, Row
<1>2. x.as \in Kinds /\ x.in = PacketSizes
    BY ReadKinds DEF Kinds
<1> HIDE DEF row, T, x
<1>3. SoundChecks(row) /\ \A v : Passes(row, v) => v[1] \in PacketSizes /\ v[1] \in T
    BY <1>1, TwoChecks
<1>4. Agrees(row)
    BY <1>1, <1>2, <1>3, OneReadAgrees
<1> QED
    BY <1>4 DEF row

LEMMA PairsAgree ==
    ASSUME NEW d
    PROVE  /\ Agrees(wsa_trigger_level(d)) /\ Agrees(wsa_sweep_trigger_level(d))
           /\ Agrees(wsa_sweep_freq(d)) /\ Agrees(wsa_sweep_dwell)
<1>1. ASSUME NEW row, NEW e, NEW f, e # "ok", f # "ok", NEW S, NEW T,
             row.takes = <<Check(1, S, e), Check(2, T, f)>>,
             \/ row.gives = <<ADouble, ADouble>>
             \/ row.gives = <<ADouble, ADouble, ADouble>>
      PROVE  Agrees(row)
    <2>1. SoundChecks(row)
        BY <1>1, TwoChecks
    <2>2. \A k \in DOMAIN row.gives : row.gives[k] = ADouble
        BY <1>1
    <2> QED
        BY <2>1, <2>2, ReadKinds, NumbersAgree
<1> DEFINE checks == <<Check(1, Tunable(d), "STARTOOB"), Check(2, Tunable(d), "STOPOOB")>>
<1>2. Agrees(wsa_sweep_freq(d))
    <2>1. /\ wsa_sweep_freq(d).takes = checks
          /\ wsa_sweep_freq(d).gives = <<ADouble, ADouble>>
        BY DEF wsa_sweep_freq, Rising, wsa_verify_freq
    <2> QED
        BY <1>1, <2>1
<1>3. Agrees(wsa_sweep_trigger_level(d))
    <2>1. /\ wsa_sweep_trigger_level(d).takes = checks
          /\ wsa_sweep_trigger_level(d).gives = <<ADouble, ADouble, ADouble>>
        BY DEF wsa_sweep_trigger_level, Rising, wsa_verify_freq
    <2> QED
        BY <1>1, <2>1
<1>4. Agrees(wsa_sweep_dwell)
    <2>1. /\ wsa_sweep_dwell.takes = <<Check(1, Numbers(Nat), "INVDWELL"),
                                       Check(2, Numbers(Nat), "INVDWELL")>>
          /\ wsa_sweep_dwell.gives = <<ADouble, ADouble>>
        BY DEF wsa_sweep_dwell, Row
    <2> QED
        BY <1>1, <2>1
<1>5. Agrees(wsa_trigger_level(d))
    <2> DEFINE row == wsa_trigger_level(d)
               T == Tunable(d)
               x == Read("double", T, "RESPUNKNOWN")
    <2>1. /\ row.takes = <<Check(1, T, "STARTOOB"), Check(2, T, "STOPOOB")>>
          /\ row.gives = <<x, x, ADouble>>
        BY DEF wsa_trigger_level, Row, wsa_verify_freq
    <2>2. x.as \in Kinds /\ x.in = T
        BY ReadKinds DEF Kinds
    <2> HIDE DEF row, T, x
    <2>3. SoundChecks(row) /\ \A v : Passes(row, v) => v[1] \in T /\ v[2] \in T
        BY <2>1, TwoChecks
    <2>4. \A k \in DOMAIN row.gives :
             \/ k \in {1, 2} /\ row.gives[k] = x
             \/ row.gives[k] = ADouble
        BY <2>1
    <2>5. Agrees(row)
        BY <2>2, <2>3, <2>4, ReadKinds, NumbersAgree
    <2> QED
        BY <2>5 DEF row
<1> QED
    BY <1>2, <1>3, <1>4, <1>5

LEMMA RowsAgree ==
    ASSUME NEW d, NEW s \in DOMAIN Rows(d) \ ReadOnly,
           s \notin {"lan_dns", "sweep_attenuation"},
           d.prod_model = "WSA5000" \/ s # "attenuation"
    PROVE  Agrees(Rows(d)[s])
<1>1. d.prod_model = "WSA5000" => Agrees(wsa_attenuation(d))
    BY UncheckedAgree DEF wsa_attenuation, Row, Unchecked
<1>2. s = "attenuation" => d.prod_model = "WSA5000"
    OBVIOUS
<1> QED
    BY <1>1, <1>2, UncheckedRowsAgree, CheckedRowsAgree, DelayAgrees,
       PacketSizeAgrees, PairsAgree DEF Rows, ReadOnly

\* A text whose fields all convert and are in range is read to its end.
LEMMA ReadsToTheEnd ==
    ASSUME NEW row, NEW a \in Seq(Anything), NEW n \in Nat \ {0},
           Len(a) = n, DOMAIN row.gives = 1 .. n,
           n = 1 \/ \A k \in 1 .. n : row.gives[k].as = "double",
           \A k \in 1 .. n :
               Converts(row.gives[k].as, a[k]) /\ a[k] \in row.gives[k].in
    PROVE  ReadOut(row, a).status = "ok"
<1> DEFINE gives == row.gives
           fields == IF \E k \in DOMAIN gives : gives[k].as = "text"
                       THEN <<WholeText(a)>> ELSE a
           stops == {k \in DOMAIN gives :
                        ~(/\ k \in DOMAIN fields /\ Converts(gives[k].as, fields[k])
                          /\ fields[k] \in gives[k].in)}
<1>1. DOMAIN a = 1 .. n
    OBVIOUS
<1>2. \A k \in 1 .. n : fields[k] = a[k] /\ k \in DOMAIN fields
    <2>1. CASE n = 1
        <3>1. WholeText(a) = a[1] /\ a = <<a[1]>>
            BY <1>1, <2>1 DEF WholeText
        <3>2. fields[1] = a[1] /\ 1 \in DOMAIN fields
            BY <1>1, <2>1, <3>1
        <3> QED
            BY <2>1, <3>2
    <2>2. CASE \A k \in 1 .. n : gives[k].as = "double"
        <3>1. fields = a
            BY <2>2
        <3> QED
            BY <1>1, <3>1
    <2> QED
        BY <2>1, <2>2
<1>3. stops = {}
    <2> HIDE DEF fields
    <2> QED
        BY <1>2
<1>4. stops = {} => ReadOut(row, a).status = "ok"
    BY DEF ReadOut
<1> QED
    BY <1>3, <1>4

\* The set functions let out integers, as TextsAssumption and
\* ParametersAssumption say.
Integral(row, v) ==
    \A k \in DOMAIN row.gives :
        /\ row.gives[k].as = "double" => v[k] \in Numbers(Int)
        /\ row.gives[k].as = "int" => v[k] \in Numbers(-IntMax - 1 .. IntMax)
AtItsLimit(row, v) ==
    row.gives[1].as = "int" /\ v[1] \in Numbers({-IntMax - 1, IntMax})

LEMMA IntMaxIsInt == IntMax \in Int
BY SMT DEF IntMax

LEMMA IntsConvert ==
    ASSUME NEW x \in Numbers(-IntMax - 1 .. IntMax),
           x \notin Numbers({-IntMax - 1, IntMax})
    PROVE  Converts("int", x)
<1>1. IntMax \in Int
    BY IntMaxIsInt
<1>2. PICK i \in -IntMax - 1 .. IntMax : x = [is |-> "number", n |-> i]
    BY DEF Numbers
<1>3. i \notin {-IntMax - 1, IntMax}
    BY <1>2 DEF Numbers
<1>4. i \in -IntMax .. IntMax - 1
    BY <1>1, <1>3
<1>5. x \in Numbers(-IntMax .. IntMax - 1)
    BY <1>2, <1>4 DEF Numbers
<1> QED
    BY <1>5 DEF Converts

LEMMA SetReadsBack ==
    ASSUME NEW d, NEW s \in DOMAIN Rows(d) \ ReadOnly,
           s \notin {"lan_dns", "sweep_attenuation"},
           d.prod_model = "WSA5000" \/ s # "attenuation",
           NEW v, Fits(d, s, v), Refusal(Rows(d)[s], v) = "ok",
           Integral(Rows(d)[s], v), ~AtItsLimit(Rows(d)[s], v)
    PROVE  ReadOut(Rows(d)[s], v).status = "ok"
<1> DEFINE row == Rows(d)[s]
           n == Len(row.gives)
<1>1. Agrees(row) /\ (OneField(row.gives) \/ Fields(row.gives))
    BY RowsAgree, FieldsOfRows DEF ReadOnly
<1>2. v \in Seq(Anything) /\ Len(v) = n
    BY DEF Fits
<1>3. Passes(row, v)
    BY <1>1, RefusedIfNot DEF Agrees
<1>4. Integral(row, v) /\ ~AtItsLimit(row, v)
    OBVIOUS
<1> HIDE DEF row
<1>5. /\ n \in Nat \ {0} /\ DOMAIN row.gives = 1 .. n
      /\ n = 1 \/ \A k \in 1 .. n : row.gives[k].as = "double"
    BY <1>1, FieldsRead
<1>6. \A k \in 1 .. n : v[k] \in row.gives[k].in
    <2>1. \A k \in 1 .. n : v[k] \in Anything
        BY <1>2
    <2> QED
        BY <1>1, <1>3, <1>5, <2>1 DEF Agrees
<1>7. ASSUME NEW k \in 1 .. n
      PROVE  Converts(row.gives[k].as, v[k])
    <2>1. CASE row.gives[k].as = "double"
        <3>1. v[k] \in Numbers(Int)
            BY <1>4, <1>5, <1>7, <2>1 DEF Integral
        <3> QED
            BY <2>1, <3>1, Zenon DEF Converts
    <2>2. CASE row.gives[k].as = "text"
        BY <2>2, Zenon DEF Converts
    <2>3. CASE row.gives[k].as = "int"
        <3>1. n = 1
            BY <1>5, <1>7, <2>3
        <3>2. k = 1
            BY <1>7, <3>1
        <3>3. v[k] \in Numbers(-IntMax - 1 .. IntMax)
            BY <1>4, <1>5, <1>7, <2>3 DEF Integral
        <3>4. v[k] \notin Numbers({-IntMax - 1, IntMax})
            BY <1>4, <2>3, <3>2 DEF AtItsLimit
        <3> QED
            BY <2>3, <3>3, <3>4, IntsConvert
    <2>4. row.gives[k].as \in Kinds
        BY <1>1, <1>5, <1>7 DEF Agrees
    <2> QED
        BY <2>1, <2>2, <2>3, <2>4 DEF Kinds
<1>8. ReadOut(row, v).status = "ok"
    BY <1>2, <1>5, <1>6, <1>7, ReadsToTheEnd
<1> QED
    BY <1>8 DEF row

LEMMA SmallInts == {0, 1} \subseteq -IntMax .. IntMax - 1
<1>1. IntMax >= 2
    BY SMT DEF IntMax
<1> QED
    BY <1>1, IntMaxIsInt

LEMMA OneFieldReads ==
    ASSUME NEW row, NEW x, row.gives = <<x>>, NEW a \in Seq(Anything),
           Len(a) = Len(row.gives), Converts(x.as, a[1]), x.in = Anything \/ a[1] \in x.in
    PROVE  ReadOut(row, a).status = "ok"
<1>1. Len(row.gives) = 1 /\ DOMAIN row.gives = 1 .. 1 /\ row.gives[1] = x
    BY TheOne
<1>2. a[1] \in Anything
    BY <1>1
<1>3. \A k \in 1 .. 1 : Converts(row.gives[k].as, a[k]) /\ a[k] \in row.gives[k].in
    BY <1>1, <1>2
<1>4. 1 \in Nat \ {0} /\ Len(a) = 1
    BY <1>1
<1> QED
    BY <1>1, <1>3, <1>4, ReadsToTheEnd

\* Three settings by themselves: an attenuation that is on or off, the name
\* servers, whose text is not looked at, and the pointer that is written.
LEMMA AttenuationReadsBack ==
    ASSUME NEW d, NEW v, Fits(d, "sweep_attenuation", v), v[1] \in Numbers({0, 1})
    PROVE  ReadOut(Rows(d)["sweep_attenuation"], v).status = "ok"
<1> DEFINE x == Read("int", Numbers({0, 1}), "INVATTEN")
<1>1. Rows(d)["sweep_attenuation"].gives = <<x>>
    BY DEF Rows, wsa_sweep_attenuation, Row
<1>2. x.as = "int" /\ x.in = Numbers({0, 1})
    BY ReadKinds
<1>3. v \in Seq(Anything) /\ Len(v) = Len(Rows(d)["sweep_attenuation"].gives)
    BY DEF Fits
<1>4. Converts("int", v[1])
    <2>1. v[1] \in Numbers(-IntMax .. IntMax - 1)
        BY SmallInts DEF Numbers
    <2> QED
        BY <2>1, Zenon DEF Converts
<1> HIDE DEF x
<1> QED
    BY <1>1, <1>2, <1>3, <1>4, OneFieldReads

LEMMA NameServersRead ==
    ASSUME NEW d, NEW v, Fits(d, "lan_dns", v)
    PROVE  ReadOut(Rows(d)["lan_dns"], v).status = "ok"
<1> DEFINE x == [AText EXCEPT !.writes = {}]
<1>1. Rows(d)["lan_dns"].gives = <<x>>
    BY DEF Rows, wsa_lan_dns, Row
<1>2. x.as = "text" /\ x.in = Anything
    BY DEF AText, Read
<1>3. v \in Seq(Anything) /\ Len(v) = Len(Rows(d)["lan_dns"].gives)
    BY DEF Fits
<1>4. Converts("text", v[1])
    BY Zenon DEF Converts
<1> HIDE DEF x
<1> QED
    BY <1>1, <1>2, <1>3, <1>4, OneFieldReads

LEMMA PointerReadsBack ==
    ASSUME NEW d, Fits(d, "trigger_sync_state", APointer)
    PROVE  ReadOut(Rows(d)["trigger_sync_state"], APointer).status = "ok"
<1>1. Rows(d)["trigger_sync_state"].gives = <<ADouble>>
    BY DEF Rows, wsa_trigger_sync_state, Row
<1>2. ADouble.as = "double" /\ ADouble.in = Anything
    BY DEF ADouble, Read
<1>3. /\ APointer \in Seq(Anything)
      /\ Len(APointer) = Len(Rows(d)["trigger_sync_state"].gives)
    BY DEF Fits
<1>4. Converts("double", APointer[1])
    <2>1. APointer[1] \in Numbers(Int)
        BY SMT DEF APointer, Num, Numbers
    <2> QED
        BY <2>1, Zenon DEF Converts
<1> QED
    BY <1>1, <1>2, <1>3, <1>4, OneFieldReads

\* What a set function sent, reads back.
Readable(s, text) == ReadOut(RowOf(s), text).status = "ok"

LEMMA SentReadsBack ==
    ASSUME Texts, CallFits, pc = "recv", call.op = "set", ~NotAsked(call.s),
           ~Unreadable(call.s, call.v)
    PROVE  Readable(call.s, Written(call.s, call.v))
<1> DEFINE s == call.s
           v == call.v
           w == Written(s, v)
<1>1. s \in Settable /\ v \in Candidates[s] /\ Refusal(RowOf(s), v) = "ok"
    BY DEF CallFits
<1>2. session \in Sessions /\ s \in session.focus \ ReadOnly
    BY <1>1 DEF Texts, Settable
<1>3. Fits(Descr, s, w) /\ s \in DOMAIN Rows(Descr)
    BY <1>1, <1>2, TextsAssumption DEF Descr
<1>4. Integral(RowOf(s), v)
    BY <1>1, <1>2, ParametersAssumption DEF Integral, RowOf, Descr
<1>5. Descr.prod_model = "WSA5000" \/ s # "attenuation"
    BY OneProduct DEF NotAsked, Descr
<1>6. CASE s = "trigger_sync_state"
    BY <1>3, <1>6, PointerReadsBack DEF Written, Readable, RowOf
<1>7. CASE s = "lan_dns"
    BY <1>3, <1>7, NameServersRead DEF Readable, RowOf
<1>8. CASE s \notin {"trigger_sync_state", "lan_dns"}
    <2>1. w = v
        BY <1>8 DEF Written
    <2>2. CASE s = "sweep_attenuation"
        <3>1. v[1] \in Numbers({0, 1})
            BY <2>2 DEF Unreadable
        <3> QED
            BY <1>3, <2>1, <2>2, <3>1, AttenuationReadsBack DEF Readable, RowOf
    <2>3. CASE s # "sweep_attenuation"
        <3>1. ~AtItsLimit(RowOf(s), v)
            BY DEF Unreadable, AtItsLimit
        <3> QED
            BY <1>1, <1>2, <1>3, <1>4, <1>5, <1>8, <2>1, <2>3, <3>1, SetReadsBack
               DEF Readable, RowOf
    <2> QED
        BY <2>2, <2>3
<1> QED
    BY <1>6, <1>7, <1>8

\* The number of entries and the sweep's status are always read.
LEMMA DerivedAreRead ==
    ASSUME Texts, stage = "get", call.s \in Derived, call.v = <<>>,
           NEW a, IsReading(a)
    PROVE  ReadOut(RowOf(call.s), a).status = "ok"
<1> DEFINE r == Request("GET", call.s, call.v)
<1>1. r.s = call.s /\ r.v = <<>>
    BY DEF Request
<1>2. a = Holding(r) \/ (call.s = "sweep_status" /\ a = <<Word("RUNNING")>>)
    BY DEF IsReading
<1> HIDE DEF r
<1>3. CASE call.s = "sweep_status"
    <2>1. Holding(r) = <<Word(IF running = "SWEEPING" THEN "RUNNING" ELSE "STOPPED")>>
        BY <1>1, <1>3 DEF Holding, LanSettings
    <2>2. PICK w \in {"STOPPED", "RUNNING"} : a = <<Word(w)>>
        BY <1>2, <2>1
    <2>3. RowOf(call.s) = wsa_get_sweep_status
        BY <1>3 DEF RowOf, Rows
    <2>4. Outcome(wsa_get_sweep_status, Answered(a)) = ReadOut(RowOf(call.s), a)
        BY <2>3 DEF Outcome, Answered
    <2>5. Outcome(wsa_get_sweep_status, Answered(<<Word(w)>>)).status = "ok"
        BY StatusIsRead
    <2> QED
        BY <2>2, <2>4, <2>5
<1>4. CASE call.s = "sweep_entry_size"
    <2>1. a = <<Num(Len(list))>> /\ Len(list) \in Int
        BY <1>1, <1>2, <1>4 DEF Holding, LanSettings, Texts
    <2>2. RowOf(call.s) = wsa_get_sweep_entry_size
        BY <1>4 DEF RowOf, Rows
    <2>3. Outcome(wsa_get_sweep_entry_size, Answered(a)) = ReadOut(RowOf(call.s), a)
        BY <2>2 DEF Outcome, Answered
    <2>4. Outcome(wsa_get_sweep_entry_size, Answered(a)).status = "ok"
        BY <2>1, SizeIsRead
    <2> QED
        BY <2>3, <2>4
<1> QED
    BY <1>3, <1>4 DEF Derived

\* What the application was told of a setting is there to be read back.
Legible(vals) ==
    \A s \in session.focus \ Derived : told[s] # Unknown /\ ~NotAsked(s) =>
        Readable(s, vals[s]) \/ Unreadable(s, told[s])
ReadBack ==
    pc = "idle" /\ ret.op = "get" /\ ret.v = <<>> =>
        \/ ret.status = "ok" \/ told[ret.s] = Unknown
        \/ Unreadable(ret.s, told[ret.s])
Legibility ==
    Trusted =>
        /\ pc = "idle" => Legible(values)
        /\ pc \in {"send", "recv"} => Legible(before.values)
        /\ ReadBack

\* Whoever still believes what they did can still read it.
LEMMA LegibleStays ==
    ASSUME NEW vals, Legible(vals), session' = session,
           \A s \in session.focus : told'[s] # Unknown => told'[s] = told[s]
    PROVE  /\ values' = vals => Legible(values)'
           /\ before'.values = vals => Legible(before.values)'
BY DEF Legible, NotAsked, Readable, Unreadable, RowOf, Descr

LEMMA LegibleAfterQuery ==
    ASSUME Texts, Control, CallFits, pc = "recv", Unverified, Same,
           Legible(before.values), NEW a, IsReading(a), Concluded(Answered(a)),
           NEW status, NEW out, Return(status, out), UNCHANGED <<session, values>>
    PROVE  Legible(values)' /\ ReadBack'
<1>1. /\ told' = ToldAfter(status, out)
      /\ ret'.op = call.op /\ ret'.s = call.s /\ ret'.v = call.v
      /\ ret'.status = status
    BY DEF Return, Answer
<1>2. call.op # "set" /\ values = before.values
    BY DEF Control, StagesOf, Unverified, Same
<1>3. \A s \in session.focus :
         \/ told'[s] \in {Unknown, told[s]}
         \/ call.op = "get" /\ call.s = s /\ call.v = <<>> /\ status = "ok"
    BY <1>1, <1>2 DEF ToldAfter
<1>4. call.op = "get" => stage = "get" /\ status = ReadOut(RowOf(call.s), a).status
    <2> SUFFICES ASSUME call.op = "get"
                 PROVE  stage = "get" /\ status = ReadOut(RowOf(call.s), a).status
        OBVIOUS
    <2> DEFINE r == ReadOut(RowOf(call.s), a)
    <2>1. stage = "get" /\ Return(r.status, r.out)
        BY GetReturns
    <2> HIDE DEF r
    <2>2. ret'.status = r.status
        BY <2>1 DEF Return, Answer
    <2> QED
        BY <1>1, <2>1, <2>2 DEF r
<1>5. ASSUME call.op = "get", call.v = <<>>, call.s \notin Derived
      PROVE  a = values[call.s]
    <2>1. a = Holding(Request("GET", call.s, <<>>))
        BY <1>4, <1>5 DEF IsReading, Derived
    <2>2. call.s \notin {"sweep_entry_size", "sweep_status", "capture_mode", "entry"}
        <3>1. call.s \in DOMAIN Rows(Descr)
            BY <1>5, HoldsFit DEF Texts, CallFits
        <3> QED
            BY <1>5, <3>1 DEF Rows, Derived
    <2>3. LET r0 == Request("GET", call.s, <<>>) IN r0.s = call.s /\ r0.v = <<>>
        BY DEF Request
    <2> QED
        BY <2>1, <2>2, <2>3 DEF Holding
<1>6. Legible(values)'
    <2> SUFFICES ASSUME NEW s \in session.focus \ Derived,
                        told'[s] # Unknown, ~NotAsked(s),
                        ~Unreadable(s, told'[s])
                 PROVE  Readable(s, values[s])
        BY DEF Legible, NotAsked, Readable, Unreadable, RowOf, Descr
    <2>1. CASE told'[s] = told[s]
        BY <1>2, <2>1 DEF Legible
    <2>2. CASE call.op = "get" /\ call.s = s /\ call.v = <<>> /\ status = "ok"
        BY <1>4, <1>5, <2>2 DEF Readable
    <2> QED
        BY <1>3, <2>1, <2>2
<1>7. ReadBack'
    <2> SUFFICES ASSUME call.op = "get", call.v = <<>>, status # "ok",
                        told'[call.s] # Unknown
                 PROVE  Unreadable(call.s, told'[call.s])
        BY <1>1 DEF ReadBack, Unreadable, RowOf, Descr
    <2>1. call.s \in session.focus /\ ~NotAsked(call.s)
        BY DEF CallFits
    <2>2. told'[call.s] = told[call.s]
        BY <1>3, <2>1
    <2>3. call.s \notin Derived
        BY <1>4, DerivedAreRead
    <2>4. ~Readable(call.s, values[call.s])
        BY <1>4, <1>5, <2>3 DEF Readable
    <2> QED
        BY <1>2, <2>1, <2>2, <2>3, <2>4 DEF Legible
<1> QED
    BY <1>6, <1>7

LEMMA LegibleAfterCommand ==
    ASSUME Texts, Control, CallFits, pc = "recv", ~Unverified,
           Legible(before.values), NEW a,
           \/ a = <<Word("No error")>> /\ Done
           \/ a = <<Word("-222")>> /\ Same,
           Concluded(Answered(a)), UNCHANGED <<session, values>>
    PROVE  Legible(values)' /\ ReadBack'
<1>1. /\ ret'.op = call.op
      /\ \A s \in session.focus : told'[s] # Unknown =>
            \/ told'[s] = told[s] /\ (~Touched(s) \/ a = <<Word("-222")>>)
            \/ /\ a = <<Word("No error")>>
               /\ call.op = "set" /\ call.s = s /\ told'[s] = call.v
    BY CommandReports
<1>2. call.op # "get"
    BY DEF Control, StagesOf, Unverified
<1>3. <<Word("-222")>> # <<Word("No error")>>
    BY Single DEF Word
<1>4. Legible(values)'
    <2> SUFFICES ASSUME NEW s \in session.focus \ Derived,
                        told'[s] # Unknown, ~NotAsked(s),
                        ~Unreadable(s, told'[s])
                 PROVE  Readable(s, values[s])
        BY DEF Legible, NotAsked, Readable, Unreadable, RowOf, Descr
    <2>1. CASE told'[s] = told[s] /\ (~Touched(s) \/ a = <<Word("-222")>>)
        <3>1. values[s] = before.values[s]
            BY <1>3, <2>1 DEF Done, Same
        <3> QED
            BY <2>1, <3>1 DEF Legible
    <2>2. CASE /\ a = <<Word("No error")>> /\ call.op = "set" /\ call.s = s
               /\ told'[s] = call.v
        <3>1. values[s] = Written(s, call.v)
            BY <1>3, <2>2 DEF Done
        <3> QED
            BY <2>2, <3>1, SentReadsBack
    <2> QED
        BY <1>1, <2>1, <2>2
<1> QED
    BY <1>1, <1>2, <1>4 DEF ReadBack

LEMMA LegibilityAfterReceive ==
    ASSUME Texts, Control, CallFits, Agreed, Belief, Legibility, Trusted,
           NEW n \in 1 .. Len(toCli), Receive(n)
    PROVE  Legibility'
<1>1. /\ pc = "recv" /\ Legible(before.values) /\ toCli # <<>>
      /\ UNCHANGED <<session, values, before, call>>
    BY DEF Receive, device, Legibility
<1>2. CASE Unverified
    <2>1. PICK a : toCli = <<a>> /\ Same
        BY <1>1, <1>2 DEF Agreed, Exchange, Asking
    <2>2. Concluded(Answered(a)) /\ IsReading(a)
        BY <1>1, <1>2, <2>1, OneReceived DEF Belief
    <2>3. CASE \E st \in StagesOf(call.op) : GoOn(st)
        <3>1. pc' = "send" /\ told' = told
            BY <2>3 DEF GoOn
        <3>2. Legible(before.values)'
            BY <1>1, <3>1, LegibleStays
        <3> QED
            BY <3>1, <3>2 DEF Legibility, ReadBack
    <2>4. CASE pc' = "crashed" /\ UNCHANGED <<stage, told, ret>>
        BY <2>4 DEF Legibility, ReadBack
    <2>5. CASE \E status, out : Return(status, out)
        <3>1. PICK status, out : Return(status, out)
            BY <2>5
        <3>2. Legible(values)' /\ ReadBack'
            BY <1>1, <1>2, <2>1, <2>2, <3>1, LegibleAfterQuery
        <3>3. pc' = "idle"
            BY <3>1 DEF Return
        <3> QED
            BY <3>2, <3>3 DEF Legibility
    <2> QED
        BY <1>1, <2>2, <2>3, <2>4, <2>5, Conclusions
<1>3. CASE ~Unverified
    <2>1. PICK a : /\ toCli = <<a>>
                   /\ a = <<Word("No error")>> \/ (a = <<Word("-222")>> /\ Same)
        BY <1>1, <1>3 DEF Agreed, Exchange, Verifying
    <2>2. a = <<Word("No error")>> => Done
        BY <1>1, <1>3, <2>1 DEF Belief, Confirmed
    <2>3. Concluded(Answered(a))
        BY <2>1, OneReceived
    <2>4. Legible(values)' /\ ReadBack'
        BY <1>1, <1>3, <2>1, <2>2, <2>3, LegibleAfterCommand
    <2>5. pc' = "idle"
        <3>1. Verified(Answered(a))
            BY <1>3, <2>3 DEF Concluded, Unverified
        <3> QED
            BY <3>1 DEF Verified, Return
    <2> QED
        BY <2>4, <2>5 DEF Legibility
<1> QED
    BY <1>2, <1>3

LEMMA LegibilityAfterBegin ==
    ASSUME Legibility, Trusted, NEW op, NEW s, NEW v, BeginsAs(op, s, v)
    PROVE  Legibility'
<1>1. /\ pc = "idle" /\ before'.values = values /\ Legible(values)
      /\ call'.op = op /\ call'.s = s /\ call'.v = v
      /\ UNCHANGED <<session, values>>
    BY DEF BeginsAs, Begin, Request, device, Legibility
<1>2. told' = told
    BY DEF BeginsAs, AtOnce, GoOn
<1>3. Legible(values)' /\ Legible(before.values)'
    BY <1>1, <1>2, LegibleStays
<1>4. CASE \E status, out :
              AtOnce(status, out) /\ (op = "get" /\ v = <<>> => status = "ok")
    <2>1. PICK status, out :
              AtOnce(status, out) /\ (op = "get" /\ v = <<>> => status = "ok")
        BY <1>4
    <2>2. ret'.op = op /\ ret'.v = v /\ ret'.status = status
        BY <1>1, <2>1 DEF AtOnce, Answer
    <2>3. ReadBack'
        BY <2>1, <2>2 DEF ReadBack
    <2> QED
        BY <1>3, <2>3 DEF Legibility
<1>5. CASE \E st : GoOn(st)
    <2>1. pc' = "send"
        BY <1>5 DEF GoOn
    <2> QED
        BY <1>3, <2>1 DEF Legibility, ReadBack
<1> QED
    BY <1>4, <1>5 DEF BeginsAs

LEMMA LegibilityAfterSend ==
    ASSUME Agreed, Legibility, Trusted, Send
    PROVE  Legibility'
<1>1. /\ pc = "send" /\ Same /\ Legible(before.values)
      /\ UNCHANGED <<session, call, before, values>>
    BY DEF Send, Agreed, Exchange, Legibility, device
<1>2. CASE call.op = "capture_block"
    <2>1. /\ pc' = "idle" /\ ret'.op = call.op /\ told' = ToldAfter("bytes", <<>>)
        BY <1>2 DEF Send, Return, Answer
    <2>2. \A s \in session.focus : told'[s] = told[s]
        BY <1>2, <2>1 DEF ToldAfter
    <2>3. Legible(values)'
        BY <1>1, <2>2, LegibleStays DEF Same
    <2> QED
        BY <1>2, <2>1, <2>3 DEF Legibility, ReadBack
<1>3. CASE call.op # "capture_block"
    <2>1. pc' = "recv" /\ told' = told
        BY <1>3 DEF Send
    <2>2. Legible(before.values)'
        BY <1>1, <2>1, LegibleStays
    <2> QED
        BY <2>1, <2>2 DEF Legibility, ReadBack
<1> QED
    BY <1>2, <1>3

\* What the instrument does on its own account leaves the settings as they are,
\* unless a call waits.
LEMMA LegibilityStays ==
    ASSUME Legibility, Trusted, UNCHANGED <<session, pc, told, before, ret>>,
           pc = "idle" => values' = values
    PROVE  Legibility'
<1>1. pc = "idle" => Legible(values)'
    BY LegibleStays DEF Legibility
<1>2. pc \in {"send", "recv"} => Legible(before.values)'
    BY LegibleStays DEF Legibility
<1>3. ReadBack'
    BY DEF Legibility, ReadBack, Unreadable, RowOf, Descr
<1> QED
    BY <1>1, <1>2, <1>3 DEF Legibility

LEMMA LegibilityStep ==
    ASSUME Inv, Belief, Legibility, [Next]_vars
    PROVE  Legibility'
<1> SUFFICES ASSUME Trusted'
             PROVE  Legibility'
    BY DEF Legibility
<1>1. /\ Texts /\ Control /\ CallFits /\ Counts /\ Agreed /\ Trusted
      /\ lates = 0 /\ lates' = 0 /\ orphans' = orphans /\ link = "up" /\ link' = "up"
    BY TrustedBefore DEF Inv, Agreement, Agreed, Trusted
<1>2. CASE Application
    BY <1>1, <1>2, CallsBegin, LegibilityAfterBegin
<1>3. CASE Send
    BY <1>1, <1>3, LegibilityAfterSend
<1>4. ~SendRefused /\ ~LinkDown
    BY <1>1 DEF SendRefused, LinkDown
<1>5. ASSUME NEW n \in 1 .. Len(toCli), Receive(n)
      PROVE  Legibility'
    BY <1>1, <1>5, LegibilityAfterReceive
<1>6. ~GiveUp
    BY <1>1, NeverInVain
<1>7. CASE DeviceExecutes
    <2>1. /\ toDev # <<>> /\ orphans \in Nat
          /\ UNCHANGED <<session, pc, told, before, ret>>
        BY <1>1, <1>7 DEF DeviceExecutes, client, Counts
    <2>2. ASSUME pc = "idle"
          PROVE  values' = values
        <3>1. toDev \in Seq({Block})
            BY <1>1, <2>2 DEF Agreed, Exchange
        <3>2. Head(toDev) = Block
            BY <2>1, <3>1, Tails
        <3> QED
            BY <1>1, <1>7, <2>1, <3>2, BlockExecutes
    <2> QED
        BY <1>1, <2>1, <2>2, LegibilityStays
<1>8. CASE SweepEnds \/ UNCHANGED vars
    <2>1. UNCHANGED <<session, pc, told, before, ret, values>>
        BY <1>8 DEF SweepEnds, vars, device, client
    <2> QED
        BY <1>1, <2>1, LegibilityStays
<1> QED
    BY <1>2, <1>3, <1>4, <1>5, <1>6, <1>7, <1>8 DEF Next, Library

LEMMA LegibilityInit ==
    ASSUME Init
    PROVE  Legibility
<1>1. /\ pc = "idle" /\ ret.op = "none"
      /\ told = [s \in session.focus |-> Unknown]
    BY DEF Init, NoRet
<1> QED
    BY <1>1 DEF Legibility, Legible, ReadBack

-----------------------------------------------------------------------------
THEOREM InvHolds == Spec => []Inv
BY InvInit, InvStep, PTL DEF Spec

\* At most one answer is owed beyond those of abandoned exchanges; the errors
\* left in the queue between calls are those of requests nobody verifies; and
\* the process only dies of an answer out of its place: the exchanges of every
\* call of wsa_api.c on the settings, the sweep list and the capture.
THEOREM AnswersAndErrorsAccounted == Spec => []InstrumentInv
<1>1. Inv => InstrumentInv
    BY DEF Inv, Texts, Control, Accounts, Shape, Answers, Crashes, Backlog,
           IsVerified, InstrumentInv
<1> QED
    BY <1>1, InvHolds, PTL

\* A flush of the data, for which the status is asked first, never reaches an
\* instrument that sweeps: wsa_flush_data, whatever else the session does.
THEOREM NoFlushReachesASweep == Spec => FlushSpares
<1>1. ASSUME Inv, Trusted, running = "SWEEPING", toDev # <<>>
      PROVE  Head(toDev) # Request("CMD", "flush", <<>>)
    BY <1>1, FlushIsOurs DEF Inv, Agreement
<1>2. Inv =>
        [ Trusted /\ running = "SWEEPING" /\ toDev # <<>> /\ Len(toDev') < Len(toDev)
            => Head(toDev) # Request("CMD", "flush", <<>>) ]_vars
    BY <1>1
<1> QED
    BY <1>2, InvHolds, PTL DEF FlushSpares

\* A refusal, the library's or the instrument's, has changed neither a setting
\* nor the sweep list: the set functions and those on entries.
THEOREM RefusalsChangeNothing == Spec => []FailedChangesNothing
<1>1. Inv => FailedChangesNothing
    BY DEF Inv, Agreement, Reported, FailedChangesNothing, Returned, Same
<1> QED
    BY <1>1, InvHolds, PTL

\* WSA_ERR_SWEEPIDOOB means that no place in the list has the identifier: the
\* functions on sweep entries.
THEOREM OutOfBoundsMeansIt == Spec => []OutOfBoundsIsTrue
<1>1. Inv => OutOfBoundsIsTrue
    BY DEF Inv, Agreement, Reported, OutOfBoundsIsTrue, Returned
<1> QED
    BY <1>1, InvHolds, PTL

THEOREM BeliefHolds == Spec => [](Inv /\ Belief)
<1>1. Init => Inv /\ Belief
    BY InvInit, BeliefInit
<1>2. Inv /\ Belief /\ [Next]_vars => (Inv /\ Belief)'
    BY InvStep, BeliefStep
<1> QED
    BY <1>1, <1>2, PTL DEF Spec

\* What the application was told of a setting, by a set function reported done
\* or by a get function, is what the instrument holds: no call takes another's
\* answer or verification for its own, whatever it asks for in between.
THEOREM BelievedIsHeld == Spec => []ToldIsTrue
<1>1. Belief => ToldIsTrue
    BY DEF Belief, ToldOf, ToldIsTrue
<1> QED
    BY <1>1, BeliefHolds, PTL

\* A get function or wsa_sweep_entry_read that succeeds has put into the
\* caller's variables what the instrument holds, field by field, except what it
\* leaves unassigned.
THEOREM DeliveredIsHeld == Spec => []DeliveredIsTrue
<1>1. Belief => DeliveredIsTrue
    BY DEF Belief, Delivered, DeliveredIsTrue, Returned
<1> QED
    BY <1>1, BeliefHolds, PTL

\* What a set function lets out and the instrument takes, and what a get
\* function has read, the get function reads back as long as it is held: the
\* limits of the two functions agree for every setting, except at the ends of
\* an int and for the sweep's attenuation.
THEOREM SettingsReadBack == Spec => []ReadsBack
<1>1. Init => Inv /\ Belief /\ Legibility
    BY InvInit, BeliefInit, LegibilityInit
<1>2. Inv /\ Belief /\ Legibility /\ [Next]_vars => (Inv /\ Belief /\ Legibility)'
    BY InvStep, BeliefStep, LegibilityStep
<1>3. Legibility => ReadsBack
    BY DEF Legibility, ReadBack, ReadsBack, Returned
<1> QED
    BY <1>1, <1>2, <1>3, PTL DEF Spec
=============================================================================
