------------------------------ MODULE Settings ------------------------------
(***************************************************************************)
(* The instrument's settings as api/src/wsa_api.c knows them: for each,      *)
(* which values its set function lets out to the instrument, and what its    *)
(* get function makes of the text that comes back.  Every function of the    *)
(* kind has its row here; Instrument.tla makes the calls.                    *)
(*                                                                          *)
(* A value is a sequence of fields, the parts of a text between commas; a    *)
(* field is a number or a word.  Frequencies are in MHz, everything else is  *)
(* in the unit of the code.                                                  *)
(***************************************************************************)
EXTENDS Integers, Sequences

Num(n) == [is |-> "number", n |-> n]
Word(w) == [is |-> "word", w |-> w]
Numbers(S) == [is : {"number"}, n : S]
Words(S) == [is : {"word"}, w : S]
Anything == Numbers(Int) \cup Words(STRING)

\* What a variable of the caller holds that nothing was assigned to.
Unwritten == [is |-> "unwritten"]

IntMax == 2147483647

-----------------------------------------------------------------------------
(***************************************************************************)
(* _wsa_dev_init: what the product's name in the answer to *IDN? makes of    *)
(* the structure.  Names are matched as parts of the text, in this order, so *)
(* that the branch for the 408P is never reached; the RTSA7500-18 and -27 of *)
(* the R5500 family are taken by the branches of the WSA5000.                *)
(***************************************************************************)
wsa_dev_init(name) ==
    CASE name \in {"WSA5000-308", "WSA5000-408", "WSA5000-408P", "RTSA7500-8",
                   "RTSA7500-8P"} ->
            [prod_model |-> "WSA5000", dev_model |-> "WSA5000-408",
             max_tune_freq |-> 8000]
      [] name \in {"WSA5000-418", "RTSA7500-18"} ->
            [prod_model |-> "WSA5000", dev_model |-> "WSA5000-418",
             max_tune_freq |-> 18000]
      [] name \in {"WSA5000-427", "RTSA7500-27"} ->
            [prod_model |-> "WSA5000", dev_model |-> "WSA5000-427",
             max_tune_freq |-> 27000]
      [] name \in {"R5500-408", "R5500-308", "RTSA7500-408"} ->
            [prod_model |-> "R5500", dev_model |-> "R5500-408",
             max_tune_freq |-> 8000]
      [] name = "R5500-418" ->
            [prod_model |-> "R5500", dev_model |-> "WSA5000-418",
             max_tune_freq |-> 18000]
      [] name = "R5500-427" ->
            [prod_model |-> "R5500", dev_model |-> "R5500-427",
             max_tune_freq |-> 27000]
      [] OTHER ->
            [prod_model |-> "WSA5000", dev_model |-> "unset",
             max_tune_freq |-> 8000]

\* The limits it gives every model; the bandwidth in Hz.
MinDecimation == 4
MaxDecimation == 1024
InstBw == 125000000
MinTuneFreq == 0

-----------------------------------------------------------------------------
(***************************************************************************)
(* A row: the checks of the set function in their order, and the fields the  *)
(* get function reads in theirs.                                             *)
(*                                                                          *)
(* A check refuses, with err, a value whose field number "of" is not in the  *)
(* set.  "rise" holds the least difference the second field must have to the *)
(* first, if one is asked for.                                               *)
(*                                                                          *)
(* A field read is converted, refused with err if it is not in the set "in", *)
(* and assigned if it is in "writes"; "early" is a text that is copied       *)
(* before it is checked.                                                     *)
(***************************************************************************)
Check(k, S, e) == [of |-> k, in |-> S, err |-> e]

Read(as, S, e) ==
    [as |-> as, in |-> S, err |-> e, writes |-> S, early |-> FALSE]
AnInt == Read("int", Anything, "none")
ADouble == Read("double", Anything, "none")
AText == Read("text", Anything, "none")

Row(checks, reads) == [takes |-> checks, rise |-> <<>>, gives |-> reads]
Rising(least, checks, reads) ==
    [takes |-> checks, rise |-> <<least>>, gives |-> reads]
Unchecked == <<>>

MutNoSign(as, v) ==
    IF as = "text" THEN TRUE ELSE v \in Numbers(0 .. IntMax - 1)
\* wsa_to_int takes neither INT_MAX nor INT_MIN.
Converts(as, v) ==
    CASE as = "int" -> v \in Numbers(-IntMax .. IntMax - 1)
      [] as = "double" -> v \in Numbers(Int)
      [] as = "text" -> TRUE

\* What a set function says of a value before it sends anything.
Refusal(row, v) ==
    LET fails == {k \in DOMAIN row.takes :
                    v[row.takes[k].of] \notin row.takes[k].in}
        falls == row.rise # <<>> /\ v[2].n - v[1].n < row.rise[1]
    IN  IF fails # {}
          THEN row.takes[CHOOSE k \in fails : \A j \in fails : k <= j].err
          ELSE IF falls THEN "INVSTOPFREQ" ELSE "ok"

\* A text is copied as it is, commas included.
WholeText(fields) ==
    IF Len(fields) = 1 THEN fields[1] ELSE Word("several fields")

MutLastForgotten(row, answer) ==
    [status |-> "ok",
     out |-> [k \in DOMAIN row.gives |->
                IF k < Len(row.gives) /\ k < Len(answer) THEN answer[k]
                ELSE Unwritten]]
\* What a get function returns and leaves in the caller's variables: it stops
\* at the first field that is missing, does not convert or is out of range.
ReadOut(row, answer) ==
    LET gives == row.gives
        fields == IF \E k \in DOMAIN gives : gives[k].as = "text"
                    THEN <<WholeText(answer)>> ELSE answer
        converts(k) == k \in DOMAIN fields /\ Converts(gives[k].as, fields[k])
        passes(k) == converts(k) /\ fields[k] \in gives[k].in
        stops == {k \in DOMAIN gives : ~passes(k)}
        assigned(k) ==
            /\ \/ \A j \in stops : k < j
               \/ gives[k].early /\ \A j \in stops : k <= j
            /\ fields[k] \in gives[k].writes
        first == CHOOSE k \in stops : \A j \in stops : k <= j
    IN  [status |-> IF stops = {} THEN "ok"
                    ELSE IF converts(first) THEN gives[first].err
                    ELSE "RESPUNKNOWN",
         out |-> [k \in DOMAIN gives |->
                    IF assigned(k) THEN fields[k] ELSE Unwritten]]

-----------------------------------------------------------------------------
(***************************************************************************)
(* The rows.                                                                *)
(***************************************************************************)
wsa_lan_config == Row(Unchecked, <<AText>>)
wsa_lan_ip == Row(Unchecked, <<AText>>)
wsa_lan_netmask == Row(Unchecked, <<AText>>)
wsa_lan_gateway == Row(Unchecked, <<AText>>)

\* The answer is not copied at all.
wsa_lan_dns == Row(Unchecked, <<[AText EXCEPT !.writes = {}]>>)

\* Anything but "0" and "1" leaves the status as it was.
Flag == [AText EXCEPT !.writes = Numbers({0, 1})]
wsa_system_request_acq_access == Row(Unchecked, <<Flag>>)
wsa_system_acq_status == Row(Unchecked, <<Flag>>)

wsa_samples_per_packet ==
    Row(<<Check(1, Numbers(256 .. 64000), "INVSAMPLESIZE")>>, <<AnInt>>)

\* The largest number allowed is UINT_MAX, which no int exceeds.
wsa_packets_per_block ==
    Row(<<Check(1, Numbers(1 .. IntMax), "INVNUMBER")>>, <<AnInt>>)

Decimations == {1} \cup (MinDecimation .. MaxDecimation)
wsa_decimation ==
    Row(<<Check(1, Numbers(Decimations), "INVDECIMATIONRATE")>>, <<AnInt>>)

Tunable(d) == Numbers(MinTuneFreq .. d.max_tune_freq)
wsa_verify_freq(d, k, e) == Check(k, Tunable(d), e)

wsa_freq(d) == Row(<<wsa_verify_freq(d, 1, "FREQOUTOFBOUND")>>, <<ADouble>>)

Shifts == Numbers(-InstBw .. InstBw)
wsa_freq_shift ==
    Row(<<Check(1, Shifts, "FREQOUTOFBOUND")>>,
        <<Read("double", Shifts, "RESPUNKNOWN")>>)

wsa_spec_inv == Row(Unchecked, <<ADouble>>)

\* For the R5500 the model is compared with names of the WSA5000, and nothing
\* is assigned.
wsa_attenuation(d) ==
    Row(Unchecked, IF d.prod_model = "WSA5000" THEN <<AnInt>>
                   ELSE <<[AnInt EXCEPT !.writes = {}]>>)

InputModes == Words({"ZIF", "DD", "HDR", "SH", "SHN", "IQIN"})
CopiedMode(S) ==
    [Read("text", S, "INVRFEINPUTMODE") EXCEPT !.early = TRUE, !.writes = Anything]
wsa_rfe_input_mode ==
    Row(<<Check(1, InputModes, "INVRFEINPUTMODE")>>, <<CopiedMode(InputModes)>>)

OutputModes == Words({"DIGITIZER", "CONNECTOR"})
wsa_iq_output_mode ==
    Row(<<Check(1, OutputModes, "INVRFEINPUTMODE")>>,
        <<CopiedMode(OutputModes)>>)

wsa_trigger_level(d) ==
    Row(<<wsa_verify_freq(d, 1, "STARTOOB"), wsa_verify_freq(d, 2, "STOPOOB")>>,
        <<Read("double", Tunable(d), "RESPUNKNOWN"),
          Read("double", Tunable(d), "RESPUNKNOWN"), ADouble>>)

TriggerTypes == Words({"NONE", "LEVEL", "PULSE"})
wsa_trigger_type ==
    Row(<<Check(1, TriggerTypes, "INVTRIGGERMODE")>>,
        <<Read("text", TriggerTypes, "INVTRIGGERMODE")>>)

\* The set function excludes the limits themselves, the get function does not.
DelayMax == 2147483640
MultiplesOf8 == {n \in Nat : n % 8 = 0}
wsa_trigger_sync_delay ==
    Row(<<Check(1, Numbers(1 .. DelayMax - 1), "INVTRIGGERDELAY"),
          Check(1, Numbers(MultiplesOf8), "INVTRIGGERDELAY")>>,
        <<Read("int", Numbers(0 .. DelayMax) \cap Numbers(MultiplesOf8),
               "INVTRIGGERDELAY")>>)

wsa_trigger_sync_state == Row(Unchecked, <<ADouble>>)

wsa_reference_pll ==
    Row(<<Check(1, Words({"INT", "EXT"}), "INVPLLREFSOURCE")>>, <<AText>>)
wsa_lock_ref_pll == Row(Unchecked, <<ADouble>>)
wsa_lock_rf == Row(Unchecked, <<ADouble>>)
wsa_temperature == Row(Unchecked, <<ADouble, ADouble, ADouble>>)
=============================================================================
