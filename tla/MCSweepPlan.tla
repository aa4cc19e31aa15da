----------------------------- MODULE MCSweepPlan -----------------------------
(***************************************************************************)
(* Model-checking instance of SweepPlan.  The frequencies are in units of   *)
(* 500 kHz: the bandwidths and the lower limit are the code's, the upper    *)
(* limit is brought down to 300 MHz, the tuning resolution up to a unit and *)
(* the packet sizes down, so that they keep their proportions to the        *)
(* resolutions.                                                             *)
(***************************************************************************)
EXTENDS SweepPlan

Table ==
    [m \in {"SH", "SHN", "DD"} |->
        [full_bw |-> 125,
         usable_bw |-> CASE m = "SH" -> 80 [] m = "SHN" -> 20 [] OTHER -> 100,
         usable_left |-> CASE m = "SH" -> 30 [] m = "SHN" -> 60 [] OTHER -> 0,
         usable_right |-> CASE m = "SH" -> 110 [] m = "SHN" -> 80 [] OTHER -> 100,
         min_tunable |-> 100, max_tunable |-> 600, tuning_resolution |-> 1]]

\* Ranges on both sides of the limits and of a band's width.
Starts == {0, 1, 40, 98, 99, 100, 101, 120, 139, 140, 250, 333, 499}
Widths == {0, 1, 2, 9, 10, 11, 12, 39, 40, 41, 42, 60, 100, 101, 237}
Ranges == {[fstart |-> a, fstop |-> a + w, rbw |-> r, mode |-> m] :
              a \in Starts, w \in Widths, r \in {1, 2, 3, 5, 9, 40, 500},
              m \in {"SH", "SHN", "DD"}}
Odd == {[fstart |-> 200, fstop |-> 190, rbw |-> 2, mode |-> "SH"],
        [fstart |-> 200, fstop |-> 210, rbw |-> 2, mode |-> "HDR"]}
AllRequests == Ranges \cup Odd

Errors == {-1, 0, 1}
=============================================================================
