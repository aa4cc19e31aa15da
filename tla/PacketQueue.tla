----------------------------- MODULE PacketQueue -----------------------------
(***************************************************************************)
(* What the data connection promises a caller of wsa_read_vrt_packet: the   *)
(* instrument's packets one by one, in order, none left out and none made   *)
(* up, for as long as the reader is in step with the stream.  Once it is    *)
(* not, nothing is promised until everything sent so far has been given up. *)
(***************************************************************************)
EXTENDS Naturals

CONSTANT MaxPackets   \* packets sent in a session (a bound of the model)

VARIABLES
    put,    \* packets sent
    got,    \* packets delivered or given up: the next one is got + 1
    lost    \* the reader is out of step

queueVars == <<put, got, lost>>

QueueInit == put = 0 /\ got = 0 /\ lost = FALSE

Put == put < MaxPackets /\ put' = put + 1 /\ UNCHANGED <<got, lost>>

Take == ~lost /\ got < put /\ got' = got + 1 /\ UNCHANGED <<put, lost>>

LoseStep == ~lost /\ lost' = TRUE /\ UNCHANGED <<put, got>>

GiveUp == got' = put /\ lost' = FALSE /\ UNCHANGED put

QueueSpec ==
    QueueInit /\ [][Put \/ Take \/ LoseStep \/ GiveUp]_queueVars
=============================================================================
