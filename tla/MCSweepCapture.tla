---------------------------- MODULE MCSweepCapture ----------------------------
(***************************************************************************)
(* Model-checking instance of SweepCapture.  Frequencies are in units of    *)
(* 25 kHz: the bandwidths and the lower limit are the code's, the upper     *)
(* limits and the packet sizes are brought down.                            *)
(***************************************************************************)
EXTENDS SweepCapture

Table ==
    [m \in {"SH", "SHN"} |->
        [full_bw |-> 2500,
         usable_bw |-> IF m = "SH" THEN 1600 ELSE 400,
         usable_left |-> IF m = "SH" THEN 600 ELSE 1200,
         usable_right |-> IF m = "SH" THEN 2200 ELSE 1600,
         min_tunable |-> 2000, max_tunable |-> 14000, tuning_resolution |-> 1]]

Template == [mode |-> "ZIF", fcstart |-> 6000, fcstop |-> 6000, fstep |-> 400,
             spp |-> 60]

Resolution == 80
Ask(a, b, m) == [fstart |-> a, fstop |-> b, rbw |-> Resolution, mode |-> m]

Steps == Ask(3000, 6500, "SH")      \* three steps, the last ones inverted
Narrow ==                           \* inverted from the first step on, and fine
    [Ask(5100, 5400, "SHN") EXCEPT !.rbw = Resolution \div 2]
FromDd == Ask(1000, 4100, "SH")     \* the direct digitizer, then steps
DdOnly == Ask(200, 1480, "SH")
NoWidth == Ask(3000, 3000, "SH")    \* a spectrum without bins
TooHigh == Ask(9500, 10500, "SH")   \* in the planner's range, not the model's
Exactly == Ask(3000, 3201, "SHN")   \* one step wide, as the float errs
Backwards == Ask(3000, 2900, "SH")

FromDdCoarse == [FromDd EXCEPT !.rbw = 2 * Resolution]
JustAbove == Ask(1070, 2001, "SH")  \* ends just above the lower limit

AllAsked == {Steps, Narrow, FromDd, FromDdCoarse, JustAbove, DdOnly, NoWidth,
             TooHigh, Exactly, Backwards}
FewAsked == {FromDdCoarse}
OneError == {0}
Errors == {-1, 0}
=============================================================================
