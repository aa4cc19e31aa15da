----------------------------- MODULE SweepList -----------------------------
(***************************************************************************)
(* The sweep list of the instrument (api/src/wsa_api.c, the sweep control    *)
(* section): the settings of the entry template, the checks the functions on *)
(* entries make of an identifier, and the text of an entry taken apart by    *)
(* wsa_sweep_entry_read.                                                     *)
(***************************************************************************)
EXTENDS Settings

wsa_sweep_attenuation ==
    Row(Unchecked, <<Read("int", Numbers({0, 1}), "INVATTEN")>>)

wsa_sweep_rfe_input_mode ==
    Row(<<Check(1, InputModes, "INVRFEINPUTMODE")>>, <<CopiedMode(InputModes)>>)

PacketSizes == Numbers(256 .. 64000)
wsa_sweep_samples_per_packet ==
    Row(<<Check(1, PacketSizes, "INVSAMPLESIZE"),
          Check(1, Numbers({n \in Nat : n % 32 = 0}), "INVSAMPLESIZE")>>,
        <<Read("int", PacketSizes, "RESPUNKNOWN")>>)

wsa_sweep_packets_per_block == wsa_packets_per_block

wsa_sweep_decimation ==
    Row(<<Check(1, Numbers(Decimations), "INVDECIMATIONRATE")>>,
        <<Read("int", Numbers(Decimations), "RESPUNKNOWN")>>)

wsa_sweep_freq(d) ==
    Rising(0, <<wsa_verify_freq(d, 1, "STARTOOB"),
                wsa_verify_freq(d, 2, "STOPOOB")>>,
           <<ADouble, ADouble>>)

wsa_sweep_freq_shift ==
    Row(<<Check(1, Shifts, "FREQOUTOFBOUND")>>, <<ADouble>>)

wsa_sweep_freq_step(d) ==
    Row(<<wsa_verify_freq(d, 1, "FREQOUTOFBOUND")>>, <<ADouble>>)

wsa_sweep_dwell ==
    Row(<<Check(1, Numbers(Nat), "INVDWELL"), Check(2, Numbers(Nat), "INVDWELL")>>,
        <<ADouble, ADouble>>)

wsa_sweep_trigger_level(d) ==
    Rising(1, <<wsa_verify_freq(d, 1, "STARTOOB"),
                wsa_verify_freq(d, 2, "STOPOOB")>>,
           <<ADouble, ADouble, ADouble>>)

wsa_sweep_trigger_type == wsa_trigger_type

\* These two belong to the list, not to the template.
wsa_sweep_trigger_sync_delay == wsa_trigger_sync_delay
wsa_sweep_iteration == Row(Unchecked, <<ADouble>>)

wsa_get_sweep_entry_size == Row(Unchecked, <<ADouble>>)
wsa_get_sweep_status ==
    Row(Unchecked, <<Read("text", Words({"STOPPED", "RUNNING"}),
                          "SWEEPMODEUNDEF")>>)

\* The settings of the template, which an entry holds.
TemplateSettings ==
    {"sweep_rfe_input_mode", "sweep_freq", "sweep_freq_step",
     "sweep_freq_shift", "sweep_decimation", "sweep_attenuation",
     "sweep_samples_per_packet", "sweep_packets_per_block", "sweep_dwell",
     "sweep_trigger_type", "sweep_trigger_level"}

-----------------------------------------------------------------------------
(***************************************************************************)
(* What the functions on entries say of an identifier, once they have the    *)
(* size of the list.  Identifier 0, which the instrument does not give out,  *)
(* passes; wsa_sweep_entry_save takes it for the end of the list.            *)
(***************************************************************************)
MutOneTooFew(id, size) == id < 0 \/ id >= size
OutOfList(id, size) == id < 0 \/ id > size

OutOfSave(id, size) == id # 0 /\ (id < 0 \/ id > size + 1)

-----------------------------------------------------------------------------
(***************************************************************************)
(* The text of an entry, as wsa_sweep_entry_read takes it apart.  The        *)
(* seventh field is converted and dropped; no setting stands for it or for   *)
(* the two gains.  The trigger's level follows only a trigger of that type.  *)
(***************************************************************************)
Dropped == <<Num(7)>>
Gains == <<Num(0), Num(0)>>
HasLevel(type) == type = <<Word("LEVEL")>>

EntryText(e) ==
    e.sweep_rfe_input_mode \o e.sweep_freq \o e.sweep_freq_step
        \o e.sweep_freq_shift \o e.sweep_decimation \o Dropped
        \o e.sweep_attenuation \o Gains \o e.sweep_samples_per_packet
        \o e.sweep_packets_per_block \o e.sweep_dwell \o e.sweep_trigger_type
        \o IF HasLevel(e.sweep_trigger_type) THEN e.sweep_trigger_level
           ELSE <<>>

\* What field k of an entry must be: the first and the fifteenth are texts.
EntryField(k) == IF k \in {1, 15} THEN "text" ELSE "double"

\* How far the text is good, and whether strcpy or strstr meets a NULL: a text
\* field that is missing.  A stop at a number is WSA_ERR_RESPUNKNOWN.
EntryLength(text) ==
    IF Len(text) >= 15 /\ HasLevel(<<text[15]>>) THEN 18 ELSE 15

wsa_sweep_entry_read(text) ==
    LET last == EntryLength(text)
        bad == {k \in 1 .. last : k \notin DOMAIN text
                                  \/ ~Converts(EntryField(k), text[k])}
        stop == IF bad = {} THEN last + 1
                ELSE CHOOSE k \in bad : \A j \in bad : k <= j
    IN  [status |-> IF bad = {} THEN "ok"
                    ELSE IF EntryField(stop) = "text" THEN "crash"
                    ELSE "RESPUNKNOWN",
         out |-> [k \in 1 .. last |->
                    IF k < stop /\ k # 7 THEN text[k] ELSE Unwritten]]
=============================================================================
