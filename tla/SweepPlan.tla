------------------------------ MODULE SweepPlan ------------------------------
(***************************************************************************)
(* The sweep planner (api/src/wsa_sweep_device.c): how                      *)
(* wsa_power_spectrum_alloc and wsa_plan_sweep turn a frequency range and a *)
(* resolution bandwidth into the centre frequencies of a sweep entry, a     *)
(* number of samples per packet, the number of packets to wait for, and the *)
(* length of the spectrum's buffer.                                         *)
(*                                                                          *)
(* The property table and the limits on the packet size are constants, so   *)
(* that TLC can work on small ones; the planner's arithmetic is the code's, *)
(* integer division by integer division.  Its one computation in single     *)
(* precision is exact up to an error taken from FloatErrors.                *)
(***************************************************************************)
EXTENDS Integers

CONSTANTS
    Modes,        \* the modes of the property table
    Properties,   \* the property table: a record for each mode
    SppMultiple,  \* WSA_SPP_MULTIPLE
    MinSpp,       \* WSA_MIN_SPP
    MaxSpp,       \* WSA_MAX_SPP
    FloatErrors,  \* errors of the centre of the last step, in Hz
    Requests      \* what is asked: a range, a resolution and a mode

PropertyType ==
    [full_bw : Nat, usable_bw : Nat, usable_left : Nat, usable_right : Nat,
     min_tunable : Nat, max_tunable : Nat, tuning_resolution : Nat]

\* What the table of the code satisfies: the packet sizes are even, the
\* narrowest resolution is 1 Hz at least, a step is longer than the widest
\* resolution, and the float errors are small against the usable bandwidth.
ASSUME PlanAssumption ==
    /\ SppMultiple \in Nat \ {0}
    /\ MinSpp \in Nat /\ MaxSpp \in Nat
    /\ MinSpp >= 2 /\ MinSpp % 2 = 0 /\ MaxSpp % 2 = 0 /\ MinSpp <= MaxSpp
    /\ MinSpp % SppMultiple = 0 /\ MaxSpp % SppMultiple = 0
    /\ FloatErrors \subseteq Int
    /\ Properties \in [Modes -> PropertyType]
    /\ \A m \in Modes : LET p == Properties[m] IN
          /\ p.tuning_resolution >= 1
          /\ 2 * p.full_bw >= MaxSpp
          /\ p.usable_right - p.usable_left = p.usable_bw
          /\ p.usable_right <= p.full_bw
          /\ \A e \in FloatErrors :
                /\ 2 * (e + p.tuning_resolution) < p.usable_bw
                /\ 2 * (p.tuning_resolution - e) < p.usable_bw
          /\ 2 * (p.full_bw \div (MinSpp \div 2) + 2 * p.tuning_resolution)
                < p.usable_bw
          /\ p.tuning_resolution <= p.min_tunable
    /\ \A q \in Requests :
          /\ q.fstart \in Nat /\ q.fstop \in Nat /\ q.rbw \in Nat \ {0}
          /\ q.mode \in STRING

-----------------------------------------------------------------------------
Down(n, r) == (n \div r) * r

(***************************************************************************)
(* The packet size: the next multiple above full_bw/rbw, doubled because    *)
(* the samples are real, within the device's limits.  The resolution is     *)
(* then that of the packet size.                                            *)
(***************************************************************************)
MutNotDoubled(p, rbw) ==
    LET n == Down(p.full_bw \div rbw, SppMultiple) + SppMultiple
    IN  IF n < MinSpp THEN MinSpp ELSE IF n > MaxSpp THEN MaxSpp ELSE n
Points(p, rbw) ==
    LET n == 2 * (Down(p.full_bw \div rbw, SppMultiple) + SppMultiple)
    IN  IF n < MinSpp THEN MinSpp ELSE IF n > MaxSpp THEN MaxSpp ELSE n

Rbw(p, rbw) == p.full_bw \div (Points(p, rbw) \div 2)

HalfUsable(p) == p.usable_bw \div 2

\* Below the tunable range the spectrum comes from one packet of the direct
\* digitizer, which goes first.
NeedsDd(p, fstart) == fstart < p.min_tunable

Fcstart(p, fstart) ==
    Down(IF NeedsDd(p, fstart)
           THEN p.min_tunable + HalfUsable(p) - p.tuning_resolution
           ELSE fstart + HalfUsable(p),
         p.tuning_resolution)

\* A bit less than the usable bandwidth: one resolution less.
MutStepByFullBand(p, rbw) == Down(p.full_bw - Rbw(p, rbw), p.tuning_resolution)
Fstep(p, rbw) == Down(p.usable_bw - Rbw(p, rbw), p.tuning_resolution)

\* (fstop - fcstart) / fstep * fstep + fstep past fcstart, all in floats.
MutWholeSteps(p, q, err) ==
    IF q.fstop <= Fcstart(p, q.fstart) THEN Fcstart(p, q.fstart)
    ELSE Fcstart(p, q.fstart)
         + Down(q.fstop - Fcstart(p, q.fstart), Fstep(p, q.rbw))
Fcstop(p, q, err) ==
    LET c == q.fstop + Fstep(p, q.rbw) + err
    IN  IF q.fstop <= Fcstart(p, q.fstart) \/ c < Fcstart(p, q.fstart)
          THEN Fcstart(p, q.fstart) ELSE c

MutNoUpperLimit(p, q, err) ==
    /\ q.fstart <= q.fstop
    /\ NeedsDd(p, q.fstart) \/ Fcstart(p, q.fstart) >= p.min_tunable
InRange(p, q, err) ==
    /\ q.fstart <= q.fstop
    /\ NeedsDd(p, q.fstart) \/ Fcstart(p, q.fstart) >= p.min_tunable
    /\ Fcstop(p, q, err) <= p.max_tunable

-----------------------------------------------------------------------------
(***************************************************************************)
(* The packets to wait for: one for each step of an entry, and one for the  *)
(* direct digitizer.  (The code multiplies by the packets per block, which  *)
(* the planner always sets to 1.)                                           *)
(***************************************************************************)
MutOneStepShort(e) == (e.fcstop - e.fcstart) \div e.fstep
Packets(e) ==
    IF e.fcstop - e.fcstart <= e.fstep THEN 1
    ELSE (e.fcstop - e.fcstart) \div e.fstep + 1

\* The entry for what the main one leaves over at the end of the range.
NeedsCleanup(p, q, err) == Fcstop(p, q, err) + HalfUsable(p) < q.fstop

Cleanup(p, q, err) ==
    LET over == q.fstop - (Fcstop(p, q, err) + HalfUsable(p))
        fc == IF NeedsDd(p, q.fstart) THEN q.fstop + HalfUsable(p) \div 2
              ELSE Down(q.fstop - over \div 2, p.tuning_resolution)
    IN  [fcstart |-> fc, fcstop |-> fc, fstep |-> Fstep(p, q.rbw)]

OnlyDd(p, q) == NeedsDd(p, q.fstart) /\ q.fstop < p.min_tunable

PlanOf(p, q, err) ==
    LET main == [fcstart |-> Fcstart(p, q.fstart), fcstop |-> Fcstop(p, q, err),
                 fstep |-> Fstep(p, q.rbw)]
    IN  [status |-> "ok", mode |-> q.mode,
         fstart |-> q.fstart, fstop |-> q.fstop, rbw |-> Rbw(p, q.rbw),
         samples_per_packet |-> Points(p, q.rbw),
         entry |-> main,
         cleanup |-> NeedsCleanup(p, q, err),
         dd_mode |-> NeedsDd(p, q.fstart),
         only_dd |-> OnlyDd(p, q),
         packet_total |->
            IF OnlyDd(p, q) THEN 1
            ELSE (IF NeedsDd(p, q.fstart) THEN 1 ELSE 0) + Packets(main)
                 + (IF NeedsCleanup(p, q, err)
                      THEN Packets(Cleanup(p, q, err)) ELSE 0),
         buflen |-> (q.fstop - q.fstart) \div Rbw(p, q.rbw)]

-----------------------------------------------------------------------------
(***************************************************************************)
(* The configuration is allocated and planned, or an error is returned; and *)
(* freed again.                                                             *)
(***************************************************************************)
VARIABLES
    pscfg,    \* the power spectrum configuration
    asked     \* the request it was made for

planVars == <<pscfg, asked>>

NoCfg == [status |-> "none"]
NoRequest == [rbw |-> 0]

wsa_plan_sweep(q, err) ==
    IF q.mode \notin Modes THEN [status |-> "unsupported"]
    ELSE IF ~InRange(Properties[q.mode], q, err) THEN [status |-> "outofrange"]
    ELSE PlanOf(Properties[q.mode], q, err)

wsa_power_spectrum_alloc(q) ==
    /\ pscfg = NoCfg
    /\ asked' = q
    /\ \E err \in FloatErrors : pscfg' = wsa_plan_sweep(q, err)

\* (After an error there is nothing to free: the caller was given no
\* configuration.)
wsa_power_spectrum_free ==
    /\ pscfg # NoCfg /\ pscfg' = NoCfg
    /\ asked' = NoRequest

PlanInit == pscfg = NoCfg /\ asked = NoRequest

PlanNext ==
    \/ \E q \in Requests : wsa_power_spectrum_alloc(q)
    \/ wsa_power_spectrum_free

PlanSpec == PlanInit /\ [][PlanNext]_planVars

-----------------------------------------------------------------------------
(***************************************************************************)
(* What the planned sweep does.  The device tunes to the start frequency    *)
(* and steps as long as it does not pass the stop frequency; the spectrum   *)
(* of a step is good within half the usable bandwidth of its centre.        *)
(***************************************************************************)
Planned == pscfg.status = "ok"
Prop == Properties[pscfg.mode]
LastStep(e) == (e.fcstop - e.fcstart) \div e.fstep
Centre(e, k) == e.fcstart + k * e.fstep

Covered(f) ==
    \/ pscfg.dd_mode /\ f <= Prop.min_tunable
    \/ ~pscfg.only_dd
       /\ \E k \in 0 .. LastStep(pscfg.entry) :
             /\ Centre(pscfg.entry, k) - HalfUsable(Prop) <= f
             /\ f <= Centre(pscfg.entry, k) + HalfUsable(Prop)

\* The plan sees every frequency of the range that was asked for: the steps
\* leave no gap between their usable bands, and none at either end.
PlanCovers ==
    Planned => \A f \in pscfg.fstart .. pscfg.fstop : Covered(f)

\* No step tunes outside the tunable range.
StepsTunable ==
    Planned =>
        \A k \in 0 .. LastStep(pscfg.entry) :
            /\ Centre(pscfg.entry, k) >= Prop.min_tunable
            /\ Centre(pscfg.entry, k) <= Prop.max_tunable

\* The client waits for as many packets as the device will send, except when
\* the range of the entry is exactly one step.
PacketsAgree ==
    Planned =>
        \/ pscfg.entry.fcstop - pscfg.entry.fcstart = pscfg.entry.fstep
        \/ pscfg.only_dd /\ pscfg.packet_total = 1
        \/ ~pscfg.only_dd
           /\ pscfg.packet_total =
                 (IF pscfg.dd_mode THEN 1 ELSE 0) + LastStep(pscfg.entry) + 1

\* The resolution is at least as fine as asked, unless the packets cannot be
\* longer; and the packet size is one wsa_set_sweep_samples_per_packet takes.
ResolutionMet ==
    Planned =>
        /\ pscfg.rbw >= 1
        /\ pscfg.samples_per_packet < MaxSpp => pscfg.rbw <= asked.rbw
        /\ pscfg.samples_per_packet \in MinSpp .. MaxSpp
        /\ pscfg.samples_per_packet % SppMultiple = 0

\* The last part of wsa_plan_sweep's list is dead code: the main entry always
\* reaches the end of the range.
NeverCleanup == Planned => ~pscfg.cleanup

\* What the comment above the computation of fcstop says of it.
FcstopIsMultiple ==
    Planned =>
        (pscfg.entry.fcstop - pscfg.entry.fcstart) % pscfg.entry.fstep = 0

=============================================================================
