---------------------------- MODULE MCVrtReader ----------------------------
(***************************************************************************)
(* Model-checking instance of VrtReader: a packet of each kind, two sizes,  *)
(* and contents that pass for a header.                                     *)
(***************************************************************************)
EXTENDS VrtReader

Sizes == [digitizer |-> 3, data |-> 4, untimed |-> 3, foreign |-> 3]
Passing == {3}
DataOnly == [digitizer |-> 3, data |-> 3]
=============================================================================
