---------------------------- MODULE MCConnection ----------------------------
(***************************************************************************)
(* Model-checking instance of Connection: the device structures are alike.   *)
(***************************************************************************)
EXTENDS Connection, TLC

Alike == Permutations(Devices)
=============================================================================
