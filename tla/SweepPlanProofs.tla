--------------------------- MODULE SweepPlanProofs ---------------------------
(***************************************************************************)
(* Proofs about the sweep planner, for every property table, range,         *)
(* resolution and rounding error the assumption of SweepPlan allows.        *)
(***************************************************************************)
EXTENDS SweepPlan, TLAPS

(***************************************************************************)
(* Facts about integer division and rounding down.                          *)
(***************************************************************************)
LEMMA DivBounds ==
    ASSUME NEW a \in Nat, NEW b \in Nat \ {0}
    PROVE  /\ a \div b \in Nat
           /\ (a \div b) * b <= a
           /\ a < (a \div b) * b + b
  BY Z3

LEMMA DownBounds ==
    ASSUME NEW n \in Nat, NEW r \in Nat \ {0}
    PROVE  /\ Down(n, r) \in Nat
           /\ Down(n, r) <= n /\ n < Down(n, r) + r
           /\ Down(n, r) % r = 0
<1>1. /\ n \div r \in Nat /\ (n \div r) * r <= n
      /\ n < (n \div r) * r + r
  BY DivBounds
<1>2. ASSUME NEW k \in Nat PROVE k * r \in Nat /\ (k * r) % r = 0
  BY Z3
<1> QED BY <1>1, <1>2 DEF Down

LEMMA HalfBounds ==
    ASSUME NEW n \in Nat
    PROVE  n \div 2 \in Nat /\ 2 * (n \div 2) <= n /\ n <= 2 * (n \div 2) + 1
  OBVIOUS

(***************************************************************************)
(* One request: a row of the property table, a range and resolution, and    *)
(* the error of the float computation.                                      *)
(***************************************************************************)
Asked(p, q, err) ==
    /\ q \in Requests /\ err \in FloatErrors
    /\ q.mode \in Modes /\ p = Properties[q.mode]

LEMMA AskedFacts ==
    ASSUME NEW p, NEW q, NEW err, Asked(p, q, err)
    PROVE  /\ p.full_bw \in Nat /\ p.usable_bw \in Nat
           /\ p.min_tunable \in Nat /\ p.max_tunable \in Nat
           /\ p.tuning_resolution \in Nat \ {0}
           /\ q.fstart \in Nat /\ q.fstop \in Nat /\ q.rbw \in Nat \ {0}
           /\ err \in Int
           /\ 2 * p.full_bw >= MaxSpp
           /\ 2 * (err + p.tuning_resolution) < p.usable_bw
           /\ 2 * (p.tuning_resolution - err) < p.usable_bw
           /\ 2 * (p.full_bw \div (MinSpp \div 2) + 2 * p.tuning_resolution)
                 < p.usable_bw
           /\ p.tuning_resolution <= p.min_tunable
<1>1. p \in PropertyType
  BY PlanAssumption DEF Asked
<1>2. /\ p.full_bw \in Nat /\ p.usable_bw \in Nat
      /\ p.min_tunable \in Nat /\ p.max_tunable \in Nat
      /\ p.tuning_resolution \in Nat
  BY <1>1 DEF PropertyType
<1>3. p.tuning_resolution >= 1
  BY PlanAssumption DEF Asked
<1>4. q.fstart \in Nat /\ q.fstop \in Nat /\ q.rbw \in Nat \ {0} /\ err \in Int
  BY PlanAssumption DEF Asked
<1> QED BY <1>2, <1>3, <1>4, PlanAssumption DEF Asked

(***************************************************************************)
(* The packet size and the resolution.                                      *)
(***************************************************************************)
LEMMA PointsBounds ==
    ASSUME NEW p, NEW q, NEW err, Asked(p, q, err)
    PROVE  /\ Points(p, q.rbw) \in MinSpp .. MaxSpp
           /\ Points(p, q.rbw) % SppMultiple = 0
           /\ Points(p, q.rbw) < MaxSpp =>
                 Points(p, q.rbw) \div 2 >= p.full_bw \div q.rbw + 1
<1> DEFINE d == p.full_bw \div q.rbw
           w == Down(d, SppMultiple)
           n == 2 * (w + SppMultiple)
<1>1. /\ SppMultiple \in Nat \ {0} /\ MinSpp \in Nat /\ MaxSpp \in Nat
      /\ MinSpp <= MaxSpp /\ MinSpp % SppMultiple = 0
      /\ MaxSpp % SppMultiple = 0
  BY PlanAssumption
<1>2. d \in Nat
  BY AskedFacts, DivBounds
<1>3. w \in Nat /\ d < w + SppMultiple /\ w = (d \div SppMultiple) * SppMultiple
  BY <1>1, <1>2, DownBounds DEF Down
<1>4. n \in Nat /\ n \div 2 = w + SppMultiple /\ n \div 2 >= d + 1
  <2> HIDE DEF w, d
  <2>1. w + SppMultiple \in Nat
    BY <1>1, <1>3
  <2>2. \A a \in Nat : (2 * a) \div 2 = a
    OBVIOUS
  <2> QED BY <1>1, <1>2, <1>3, <2>1, <2>2
<1>5. n % SppMultiple = 0
  <2>1. d \div SppMultiple \in Nat
    BY <1>1, <1>2, DivBounds
  <2>2. \A k \in Nat : (2 * (k * SppMultiple + SppMultiple)) % SppMultiple = 0
    <3>1. \A k \in Nat : 2 * (k * SppMultiple + SppMultiple)
                            = (2 * k + 2) * SppMultiple
      BY <1>1, Z3
    <3>2. \A k \in Nat : (k * SppMultiple) % SppMultiple = 0
      BY <1>1, Z3
    <3> QED BY <3>1, <3>2
  <2> QED BY <1>3, <2>1, <2>2
<1>6. Points(p, q.rbw) =
        IF n < MinSpp THEN MinSpp ELSE IF n > MaxSpp THEN MaxSpp ELSE n
  BY DEF Points
<1> HIDE DEF n, d
<1>7. CASE n < MinSpp
  <2>1. n \div 2 <= MinSpp \div 2
    BY <1>1, <1>4, <1>7
  <2> QED BY <1>1, <1>2, <1>4, <1>6, <1>7, <2>1 DEF d
<1>8. CASE n >= MinSpp
  BY <1>1, <1>4, <1>5, <1>6, <1>8 DEF d
<1> QED BY <1>1, <1>4, <1>7, <1>8

LEMMA RbwBounds ==
    ASSUME NEW p, NEW q, NEW err, Asked(p, q, err)
    PROVE  /\ Rbw(p, q.rbw) \in Nat /\ Rbw(p, q.rbw) >= 1
           /\ Rbw(p, q.rbw) <= p.full_bw \div (MinSpp \div 2)
           /\ Points(p, q.rbw) < MaxSpp => Rbw(p, q.rbw) <= q.rbw
<1> DEFINE h == Points(p, q.rbw) \div 2
           m == MinSpp \div 2
<1>1. /\ MinSpp \in Nat /\ MaxSpp \in Nat /\ MinSpp >= 2
      /\ MinSpp <= MaxSpp /\ MaxSpp % 2 = 0
  BY PlanAssumption
<1>2. Points(p, q.rbw) \in MinSpp .. MaxSpp
  BY PointsBounds
<1>3. /\ h \in Nat /\ m \in Nat /\ m >= 1 /\ m <= h /\ 2 * h <= MaxSpp
  BY <1>1, <1>2
<1>4. Points(p, q.rbw) < MaxSpp => h >= p.full_bw \div q.rbw + 1
  BY PointsBounds
<1> HIDE DEF h, m
<1> DEFINE x == p.full_bw \div h
           y == p.full_bw \div m
           d == p.full_bw \div q.rbw
<1>5. /\ x \in Nat /\ x * h <= p.full_bw /\ p.full_bw < x * h + h
      /\ y \in Nat /\ y * m <= p.full_bw /\ p.full_bw < y * m + m
      /\ d \in Nat /\ d * q.rbw <= p.full_bw
      /\ p.full_bw < d * q.rbw + q.rbw
      /\ p.full_bw \in Nat /\ q.rbw \in Nat \ {0}
  <2>1. p.full_bw \in Nat /\ q.rbw \in Nat \ {0}
    BY AskedFacts
  <2>2. h \in Nat \ {0} /\ m \in Nat \ {0}
    BY <1>3
  <2>3. \A a \in Nat, b \in Nat \ {0} :
           a \div b \in Nat /\ (a \div b) * b <= a /\ a < (a \div b) * b + b
    BY DivBounds
  <2> QED BY <2>1, <2>2, <2>3, Zenon
<1>6. x >= 1
  <2>1. h <= p.full_bw
    BY <1>1, <1>3, AskedFacts
  <2> QED BY <1>3, <1>5, <2>1, Z3
<1>7. x <= y
  <2> SUFFICES ASSUME x >= y + 1 PROVE FALSE
    BY <1>5
  <2> HIDE DEF x, y
  <2>1. x * h >= (y + 1) * h
    BY <1>3, <1>5, Z3
  <2>2. (y + 1) * h >= (y + 1) * m
    BY <1>3, <1>5, Z3
  <2>3. (y + 1) * m = y * m + m
    BY <1>3, <1>5, Z3
  <2>4. x * h \in Nat /\ (y + 1) * h \in Nat /\ y * m + m \in Nat
    BY <1>3, <1>5
  <2> QED BY <1>5, <2>1, <2>2, <2>3, <2>4
<1>8. h >= d + 1 => x <= q.rbw
  <2> SUFFICES ASSUME h >= d + 1, x >= q.rbw + 1 PROVE FALSE
    BY <1>5
  <2> HIDE DEF x, y, d
  <2>1. x * h >= q.rbw * h
    BY <1>3, <1>5, Z3
  <2>2. q.rbw * h >= q.rbw * (d + 1)
    BY <1>3, <1>5, Z3
  <2>3. q.rbw * (d + 1) = d * q.rbw + q.rbw
    BY <1>5, Z3
  <2>4. x * h \in Nat /\ q.rbw * h \in Nat /\ d * q.rbw + q.rbw \in Nat
    BY <1>3, <1>5
  <2> QED BY <1>5, <2>1, <2>2, <2>3, <2>4
<1>9. Rbw(p, q.rbw) = x
  BY DEF Rbw, h
<1> QED BY <1>4, <1>5, <1>6, <1>7, <1>8, <1>9 DEF m

(***************************************************************************)
(* The step and the centres.  The widest resolution is less than half the   *)
(* usable bandwidth, so that a step is more than half of it.                *)
(***************************************************************************)
LEMMA StepBounds ==
    ASSUME NEW p, NEW q, NEW err, Asked(p, q, err)
    PROVE  /\ Fstep(p, q.rbw) \in Nat
           /\ Fstep(p, q.rbw) <= p.usable_bw - 1
           /\ 2 * Fstep(p, q.rbw) > p.usable_bw + 2 * p.tuning_resolution
           /\ Fstep(p, q.rbw) + err > 0
<1>1. /\ p.usable_bw \in Nat /\ p.tuning_resolution \in Nat \ {0} /\ err \in Int
      /\ 2 * (p.tuning_resolution - err) < p.usable_bw
      /\ 2 * (p.full_bw \div (MinSpp \div 2) + 2 * p.tuning_resolution)
            < p.usable_bw
  BY AskedFacts
<1>2. /\ Rbw(p, q.rbw) \in Nat /\ Rbw(p, q.rbw) >= 1
      /\ Rbw(p, q.rbw) <= p.full_bw \div (MinSpp \div 2)
  BY RbwBounds
<1>3. p.full_bw \div (MinSpp \div 2) \in Nat
  <2>1. p.full_bw \in Nat /\ MinSpp \div 2 \in Nat \ {0}
    BY AskedFacts, PlanAssumption
  <2> QED BY <2>1, DivBounds
<1> DEFINE w == p.usable_bw - Rbw(p, q.rbw)
<1>4. w \in Nat /\ 2 * w > p.usable_bw + 4 * p.tuning_resolution
  BY <1>1, <1>2, <1>3
<1>5. /\ Down(w, p.tuning_resolution) \in Nat
      /\ Down(w, p.tuning_resolution) <= w
      /\ w < Down(w, p.tuning_resolution) + p.tuning_resolution
  BY <1>1, <1>4, DownBounds
<1>6. Fstep(p, q.rbw) = Down(w, p.tuning_resolution)
  BY DEF Fstep
<1> HIDE DEF w
<1>7. w <= p.usable_bw - 1
  BY <1>1, <1>2 DEF w
<1> QED BY <1>1, <1>4, <1>5, <1>6, <1>7

LEMMA StartBounds ==
    ASSUME NEW p, NEW q, NEW err, Asked(p, q, err)
    PROVE  /\ Fcstart(p, q.fstart) \in Nat /\ HalfUsable(p) \in Nat
           /\ ~NeedsDd(p, q.fstart) =>
                 Fcstart(p, q.fstart) <= q.fstart + HalfUsable(p)
           /\ NeedsDd(p, q.fstart) =>
                 /\ Fcstart(p, q.fstart) <= p.min_tunable + HalfUsable(p)
                 /\ Fcstart(p, q.fstart) >= p.min_tunable
           /\ 2 * HalfUsable(p) <= p.usable_bw
           /\ p.usable_bw <= 2 * HalfUsable(p) + 1
<1>1. /\ p.usable_bw \in Nat /\ p.tuning_resolution \in Nat \ {0}
      /\ p.min_tunable \in Nat /\ q.fstart \in Nat
      /\ p.tuning_resolution <= p.min_tunable
  BY AskedFacts
<1>2. /\ HalfUsable(p) \in Nat
      /\ 2 * HalfUsable(p) <= p.usable_bw
      /\ p.usable_bw <= 2 * HalfUsable(p) + 1
  BY <1>1, HalfBounds DEF HalfUsable
<1>3. HalfUsable(p) >= 2 * p.tuning_resolution
  <2>1. 2 * (p.full_bw \div (MinSpp \div 2) + 2 * p.tuning_resolution)
            < p.usable_bw
    BY AskedFacts
  <2>2. p.full_bw \div (MinSpp \div 2) \in Nat
    <3>1. p.full_bw \in Nat /\ MinSpp \div 2 \in Nat \ {0}
      BY AskedFacts, PlanAssumption
    <3> QED BY <3>1, DivBounds
  <2> QED BY <1>1, <1>2, <2>1, <2>2
<1>4. CASE ~NeedsDd(p, q.fstart)
  <2> DEFINE n == q.fstart + HalfUsable(p)
  <2>1. n \in Nat /\ Fcstart(p, q.fstart) = Down(n, p.tuning_resolution)
    BY <1>1, <1>2, <1>4 DEF Fcstart
  <2>2. Down(n, p.tuning_resolution) \in Nat
        /\ Down(n, p.tuning_resolution) <= n
    BY <1>1, <2>1, DownBounds
  <2> QED BY <1>2, <1>4, <2>1, <2>2
<1>5. CASE NeedsDd(p, q.fstart)
  <2> DEFINE n == p.min_tunable + HalfUsable(p) - p.tuning_resolution
  <2>1. n \in Nat /\ Fcstart(p, q.fstart) = Down(n, p.tuning_resolution)
    BY <1>1, <1>2, <1>3, <1>5 DEF Fcstart
  <2>2. /\ Down(n, p.tuning_resolution) \in Nat
        /\ Down(n, p.tuning_resolution) <= n
        /\ n < Down(n, p.tuning_resolution) + p.tuning_resolution
    BY <1>1, <2>1, DownBounds
  <2> QED BY <1>1, <1>2, <1>3, <1>5, <2>1, <2>2
<1> QED BY <1>4, <1>5

\* The last centre is the stop frequency and one step, up to the float error.
LEMMA StopBounds ==
    ASSUME NEW p, NEW q, NEW err, Asked(p, q, err)
    PROVE  /\ Fcstop(p, q, err) \in Nat
           /\ Fcstop(p, q, err) >= Fcstart(p, q.fstart)
           /\ q.fstop <= Fcstart(p, q.fstart) =>
                 Fcstop(p, q, err) = Fcstart(p, q.fstart)
           /\ q.fstop > Fcstart(p, q.fstart) =>
                 Fcstop(p, q, err) = q.fstop + Fstep(p, q.rbw) + err
<1>1. Fcstart(p, q.fstart) \in Nat /\ q.fstop \in Nat /\ err \in Int
  BY AskedFacts, StartBounds
<1>2. Fstep(p, q.rbw) \in Nat /\ Fstep(p, q.rbw) + err > 0
  BY StepBounds
<1> QED BY <1>1, <1>2 DEF Fcstop

LEMMA CleanupNever ==
    ASSUME NEW p, NEW q, NEW err, Asked(p, q, err)
    PROVE  ~NeedsCleanup(p, q, err)
<1>1. /\ q.fstop \in Nat /\ err \in Int /\ HalfUsable(p) \in Nat
      /\ Fcstart(p, q.fstart) \in Nat
  BY AskedFacts, StartBounds
<1>2. Fstep(p, q.rbw) \in Nat /\ Fstep(p, q.rbw) + err > 0
  BY StepBounds
<1>3. Fcstop(p, q, err) >= q.fstop
  BY <1>1, <1>2, StopBounds
<1>4. Fcstop(p, q, err) \in Nat
  BY StopBounds
<1> QED BY <1>1, <1>3, <1>4 DEF NeedsCleanup

(***************************************************************************)
(* The plan in hand was made by PlanOf for the request asked.               *)
(***************************************************************************)
MadeFor(q, err) ==
    /\ Asked(Properties[q.mode], q, err)
    /\ InRange(Properties[q.mode], q, err)
    /\ asked = q
    /\ pscfg = PlanOf(Properties[q.mode], q, err)

PlanInv == Planned => \E q \in Requests, err \in FloatErrors : MadeFor(q, err)

LEMMA PlanStep == PlanInv /\ [PlanNext]_planVars => PlanInv'
<1> SUFFICES ASSUME PlanInv, [PlanNext]_planVars PROVE PlanInv'
  OBVIOUS
<1>1. ASSUME NEW q \in Requests, wsa_power_spectrum_alloc(q)
      PROVE  PlanInv'
  <2>1. PICK err \in FloatErrors : pscfg' = wsa_plan_sweep(q, err)
    BY <1>1 DEF wsa_power_spectrum_alloc
  <2>2. asked' = q
    BY <1>1 DEF wsa_power_spectrum_alloc
  <2>3. CASE q.mode \notin Modes
    <3>1. pscfg'.status = "unsupported"
      BY <2>1, <2>3 DEF wsa_plan_sweep
    <3> QED BY <3>1 DEF PlanInv, Planned
  <2>4. CASE q.mode \in Modes /\ ~InRange(Properties[q.mode], q, err)
    <3>1. pscfg'.status = "outofrange"
      BY <2>1, <2>4 DEF wsa_plan_sweep
    <3> QED BY <3>1 DEF PlanInv, Planned
  <2>5. CASE q.mode \in Modes /\ InRange(Properties[q.mode], q, err)
    <3>1. pscfg' = PlanOf(Properties[q.mode], q, err)
      BY <2>1, <2>5 DEF wsa_plan_sweep
    <3>2. MadeFor(q, err)'
      BY <2>2, <2>5, <3>1 DEF MadeFor, Asked
    <3> QED BY <3>2 DEF PlanInv
  <2> QED BY <2>3, <2>4, <2>5
<1>2. CASE wsa_power_spectrum_free
  BY <1>2 DEF wsa_power_spectrum_free, PlanInv, Planned, NoCfg
<1>3. CASE UNCHANGED planVars
  BY <1>3 DEF planVars, PlanInv, Planned, MadeFor
<1> QED BY <1>1, <1>2, <1>3 DEF PlanNext

\* Whatever is planned was planned for the request at hand, in range.
THEOREM PlanInvariant == PlanSpec => []PlanInv
<1>1. PlanInit => PlanInv
  BY DEF PlanInit, PlanInv, Planned, NoCfg
<1> QED BY <1>1, PlanStep, PTL DEF PlanSpec

LEMMA FieldsOf ==
    ASSUME NEW q, NEW err, MadeFor(q, err)
    PROVE  LET p == Properties[q.mode] IN
           /\ Prop = p /\ Asked(p, q, err) /\ asked = q
           /\ pscfg.fstart = q.fstart /\ pscfg.fstop = q.fstop
           /\ pscfg.rbw = Rbw(p, q.rbw)
           /\ pscfg.samples_per_packet = Points(p, q.rbw)
           /\ pscfg.entry.fcstart = Fcstart(p, q.fstart)
           /\ pscfg.entry.fcstop = Fcstop(p, q, err)
           /\ pscfg.entry.fstep = Fstep(p, q.rbw)
           /\ pscfg.cleanup = NeedsCleanup(p, q, err)
           /\ pscfg.dd_mode = NeedsDd(p, q.fstart)
           /\ pscfg.only_dd = OnlyDd(p, q)
           /\ pscfg.packet_total =
                 IF OnlyDd(p, q) THEN 1
                 ELSE (IF NeedsDd(p, q.fstart) THEN 1 ELSE 0)
                      + Packets(pscfg.entry)
                      + (IF NeedsCleanup(p, q, err)
                           THEN Packets(Cleanup(p, q, err)) ELSE 0)
  BY DEF MadeFor, PlanOf, Prop

\* The code after the main entry that would add a clean-up entry is dead.
THEOREM CleanupIsDead == PlanSpec => []NeverCleanup
<1>1. ASSUME PlanInv PROVE NeverCleanup
  <2> SUFFICES ASSUME Planned PROVE ~pscfg.cleanup
    BY DEF NeverCleanup
  <2>1. PICK q \in Requests, err \in FloatErrors : MadeFor(q, err)
    BY <1>1 DEF PlanInv
  <2> QED BY <2>1, FieldsOf, CleanupNever
<1> QED BY <1>1, PlanInvariant, PTL

\* The planned resolution is as fine as asked when the packets can be long
\* enough, and the packet size is one the device's setter accepts.
THEOREM PlanMeetsResolution == PlanSpec => []ResolutionMet
<1>1. ASSUME PlanInv PROVE ResolutionMet
  <2> SUFFICES ASSUME Planned
               PROVE  /\ pscfg.rbw >= 1
                      /\ pscfg.samples_per_packet < MaxSpp =>
                            pscfg.rbw <= asked.rbw
                      /\ pscfg.samples_per_packet \in MinSpp .. MaxSpp
                      /\ pscfg.samples_per_packet % SppMultiple = 0
    BY DEF ResolutionMet
  <2>1. PICK q \in Requests, err \in FloatErrors : MadeFor(q, err)
    BY <1>1 DEF PlanInv
  <2> QED BY <2>1, FieldsOf, PointsBounds, RbwBounds
<1> QED BY <1>1, PlanInvariant, PTL

(***************************************************************************)
(* The steps of an entry: k is one of them exactly if k steps fit.          *)
(***************************************************************************)
LEMMA StepsFit ==
    ASSUME NEW d \in Nat, NEW s \in Nat \ {0}, NEW k \in Nat
    PROVE  k <= d \div s <=> k * s <= d
<1> DEFINE n == d \div s
<1>1. n \in Nat /\ n * s <= d /\ d < n * s + s
  BY DivBounds
<1> HIDE DEF n
<1>2. ASSUME k <= n PROVE k * s <= d
  <2>1. k * s <= n * s
    BY <1>1, <1>2, Z3
  <2>2. k * s \in Nat /\ n * s \in Nat
    BY <1>1
  <2> QED BY <1>1, <2>1, <2>2
<1>3. ASSUME k * s <= d PROVE k <= n
  <2> SUFFICES ASSUME k >= n + 1 PROVE FALSE
    BY <1>1
  <2>1. k * s >= (n + 1) * s
    BY <1>1, Z3
  <2>2. (n + 1) * s = n * s + s
    BY <1>1, Z3
  <2>3. k * s \in Nat /\ n * s \in Nat
    BY <1>1
  <2> QED BY <1>1, <1>3, <2>1, <2>2, <2>3
<1> QED BY <1>2, <1>3 DEF n

\* What the entry of a plan in hand looks like.
LEMMA EntryFacts ==
    ASSUME NEW q, NEW err, MadeFor(q, err)
    PROVE  LET p == Properties[q.mode]
               e == pscfg.entry IN
           /\ Prop = p
           /\ e.fcstart \in Nat /\ e.fcstop \in Nat /\ e.fstep \in Nat \ {0}
           /\ e.fcstop - e.fcstart \in Nat
           /\ e.fcstart >= p.min_tunable /\ e.fcstop <= p.max_tunable
           /\ p.min_tunable \in Nat /\ p.max_tunable \in Nat
           /\ HalfUsable(p) \in Nat /\ e.fstep <= 2 * HalfUsable(p)
<1> DEFINE p == Properties[q.mode]
<1>1. Asked(p, q, err) /\ InRange(p, q, err)
  BY DEF MadeFor
<1>2. /\ Prop = p
      /\ pscfg.entry.fcstart = Fcstart(p, q.fstart)
      /\ pscfg.entry.fcstop = Fcstop(p, q, err)
      /\ pscfg.entry.fstep = Fstep(p, q.rbw)
  BY FieldsOf
<1>3. /\ Fcstart(p, q.fstart) \in Nat /\ HalfUsable(p) \in Nat
      /\ NeedsDd(p, q.fstart) => Fcstart(p, q.fstart) >= p.min_tunable
      /\ p.usable_bw <= 2 * HalfUsable(p) + 1
  BY <1>1, StartBounds
<1>4. /\ Fcstop(p, q, err) \in Nat
      /\ Fcstop(p, q, err) >= Fcstart(p, q.fstart)
  BY <1>1, StopBounds
<1>5. /\ Fstep(p, q.rbw) \in Nat
      /\ Fstep(p, q.rbw) <= p.usable_bw - 1
      /\ 2 * Fstep(p, q.rbw) > p.usable_bw + 2 * p.tuning_resolution
  BY <1>1, StepBounds
<1>6. /\ p.min_tunable \in Nat /\ p.max_tunable \in Nat
      /\ p.usable_bw \in Nat /\ p.tuning_resolution \in Nat
  BY <1>1, AskedFacts
<1>7. Fcstop(p, q, err) <= p.max_tunable
  BY <1>1 DEF InRange
<1>8. NeedsDd(p, q.fstart) \/ Fcstart(p, q.fstart) >= p.min_tunable
  BY <1>1 DEF InRange
<1> HIDE DEF p
<1>9. /\ Fstep(p, q.rbw) \in Nat \ {0}
      /\ Fstep(p, q.rbw) <= 2 * HalfUsable(p)
      /\ Fcstop(p, q, err) - Fcstart(p, q.fstart) \in Nat
      /\ Fcstart(p, q.fstart) >= p.min_tunable
  BY <1>3, <1>4, <1>5, <1>6, <1>8
<1> QED BY <1>2, <1>3, <1>4, <1>6, <1>7, <1>9 DEF p

\* No step of a plan tunes outside the range of the property table.
THEOREM PlanStaysTunable == PlanSpec => []StepsTunable
<1>1. ASSUME PlanInv PROVE StepsTunable
  <2> SUFFICES ASSUME Planned, NEW k \in 0 .. LastStep(pscfg.entry)
               PROVE  /\ Centre(pscfg.entry, k) >= Prop.min_tunable
                      /\ Centre(pscfg.entry, k) <= Prop.max_tunable
    BY DEF StepsTunable
  <2>1. PICK q \in Requests, err \in FloatErrors : MadeFor(q, err)
    BY <1>1 DEF PlanInv
  <2> DEFINE a == pscfg.entry.fcstart
             b == pscfg.entry.fcstop
             s == pscfg.entry.fstep
             lo == Prop.min_tunable
             hi == Prop.max_tunable
  <2>2. /\ a \in Nat /\ b \in Nat /\ s \in Nat \ {0} /\ b - a \in Nat
        /\ a >= lo /\ b <= hi /\ lo \in Nat /\ hi \in Nat
    BY <2>1, EntryFacts
  <2> HIDE DEF a, b, s, lo, hi
  <2>3. k \in Nat /\ k <= (b - a) \div s
    BY <2>2, DivBounds DEF LastStep, a, b, s
  <2>4. k * s <= b - a
    BY <2>2, <2>3, StepsFit
  <2>5. k * s \in Nat
    BY <2>2, <2>3
  <2>6. a + k * s >= lo /\ a + k * s <= hi
    BY <2>2, <2>4, <2>5
  <2> QED BY <2>6 DEF Centre, a, s, lo, hi
<1> QED BY <1>1, PlanInvariant, PTL

LEMMA PlanAgrees == ASSUME PlanInv PROVE PacketsAgree
<1> SUFFICES ASSUME Planned,
                    pscfg.entry.fcstop - pscfg.entry.fcstart
                       # pscfg.entry.fstep
             PROVE  \/ pscfg.only_dd /\ pscfg.packet_total = 1
                    \/ ~pscfg.only_dd
                       /\ pscfg.packet_total =
                             (IF pscfg.dd_mode THEN 1 ELSE 0)
                             + LastStep(pscfg.entry) + 1
  BY DEF PacketsAgree
<1>1. PICK q \in Requests, err \in FloatErrors : MadeFor(q, err)
  BY DEF PlanInv
<1> DEFINE p == Properties[q.mode]
           d == pscfg.entry.fcstop - pscfg.entry.fcstart
           s == pscfg.entry.fstep
<1>2. d \in Nat /\ s \in Nat \ {0}
  BY <1>1, EntryFacts
<1>3. ~NeedsCleanup(p, q, err)
  BY <1>1, FieldsOf, CleanupNever
<1>4. /\ pscfg.dd_mode = NeedsDd(p, q.fstart)
      /\ pscfg.only_dd = OnlyDd(p, q)
      /\ pscfg.packet_total =
           IF OnlyDd(p, q) THEN 1
           ELSE (IF NeedsDd(p, q.fstart) THEN 1 ELSE 0)
                + Packets(pscfg.entry) + 0
  BY <1>1, <1>3, FieldsOf
<1>5. LastStep(pscfg.entry) = d \div s
  BY DEF LastStep
<1>6. Packets(pscfg.entry) = IF d <= s THEN 1 ELSE d \div s + 1
  BY DEF Packets
<1>7. d # s
  OBVIOUS
<1> HIDE DEF d, s, p
<1>8. d < s => d \div s = 0
  BY <1>2
<1>9. Packets(pscfg.entry) = LastStep(pscfg.entry) + 1
  BY <1>2, <1>5, <1>6, <1>7, <1>8
<1>10. LastStep(pscfg.entry) \in Nat
  BY <1>2, <1>5, DivBounds
<1> QED BY <1>4, <1>9, <1>10

\* The client waits for as many packets as the device sends, except when the
\* range of the entry is exactly one step.
THEOREM PacketTotalAgrees == PlanSpec => []PacketsAgree
  BY PlanAgrees, PlanInvariant, PTL

(***************************************************************************)
(* A frequency above the band of the first step lies in the band of the     *)
(* step after the last one whose band ends below it; g is how far above.    *)
(***************************************************************************)
LEMMA NextStepCovers ==
    ASSUME NEW g \in Nat, NEW s \in Nat \ {0}, NEW h \in Nat, NEW d \in Nat,
           s <= 2 * h, g + s <= d
    PROVE  \E k \in 0 .. d \div s : g <= k * s /\ k * s <= g + 2 * h
<1> DEFINE j == g \div s
           k == j + 1
<1>1. j \in Nat /\ j * s <= g /\ g < j * s + s
  BY DivBounds
<1> HIDE DEF j
<1>2. k \in Nat /\ k * s = j * s + s
  BY <1>1, Z3
<1> HIDE DEF k
<1>3. g <= k * s /\ k * s <= g + s /\ j * s \in Nat
  BY <1>1, <1>2
<1>4. k * s <= d
  BY <1>1, <1>2, <1>3
<1>5. k <= d \div s
  BY <1>2, <1>4, StepsFit
<1>6. d \div s \in Nat
  BY DivBounds
<1>7. k \in 0 .. d \div s /\ k * s <= g + 2 * h
  BY <1>1, <1>2, <1>3, <1>5, <1>6
<1> QED BY <1>3, <1>7

\* The planned sweep sees every frequency of the range that was asked for.
THEOREM PlanSeesTheRange == PlanSpec => []PlanCovers
<1>1. ASSUME PlanInv PROVE PlanCovers
  <2> SUFFICES ASSUME Planned, NEW f \in pscfg.fstart .. pscfg.fstop
               PROVE  Covered(f)
    BY DEF PlanCovers
  <2>1. PICK q \in Requests, err \in FloatErrors : MadeFor(q, err)
    BY <1>1 DEF PlanInv
  <2> DEFINE p == Properties[q.mode]
             a == pscfg.entry.fcstart
             b == pscfg.entry.fcstop
             s == pscfg.entry.fstep
             h == HalfUsable(Prop)
  <2>2. /\ Prop = p /\ a \in Nat /\ b \in Nat /\ s \in Nat \ {0}
        /\ b - a \in Nat /\ h \in Nat /\ s <= 2 * h
        /\ p.min_tunable \in Nat
    BY <2>1, EntryFacts
  <2>3. Asked(p, q, err)
    BY <2>1 DEF MadeFor
  <2>4. /\ q.fstart \in Nat /\ q.fstop \in Nat /\ err \in Int
        /\ p.usable_bw \in Nat /\ p.tuning_resolution \in Nat \ {0}
        /\ 2 * (p.tuning_resolution - err) < p.usable_bw
    BY <2>3, AskedFacts
  <2>5. f \in Nat /\ q.fstart <= f /\ f <= q.fstop
    BY <2>1, <2>4, FieldsOf
  <2>6. /\ pscfg.dd_mode = NeedsDd(p, q.fstart)
        /\ pscfg.only_dd = OnlyDd(p, q)
        /\ NeedsDd(p, q.fstart) <=> q.fstart < p.min_tunable
    BY <2>1, FieldsOf DEF NeedsDd
  <2>7. /\ a = Fcstart(p, q.fstart) /\ b = Fcstop(p, q, err)
        /\ s = Fstep(p, q.rbw)
    BY <2>1, FieldsOf
  <2>8. /\ ~NeedsDd(p, q.fstart) => a <= q.fstart + h
        /\ NeedsDd(p, q.fstart) => a <= p.min_tunable + h
        /\ p.usable_bw <= 2 * h + 1
    BY <2>2, <2>3, <2>7, StartBounds
  <2>9. q.fstop > a => b = q.fstop + s + err
    BY <2>3, <2>7, StopBounds
  <2> HIDE DEF a, b, s, h, p
  <2>10. CASE NeedsDd(p, q.fstart) /\ f <= p.min_tunable
    BY <2>2, <2>6, <2>10 DEF Covered
  <2>11. CASE ~(NeedsDd(p, q.fstart) /\ f <= p.min_tunable)
    <3>1. ~pscfg.only_dd
      <4>1. OnlyDd(p, q) <=>
              NeedsDd(p, q.fstart) /\ q.fstop < p.min_tunable
        BY DEF OnlyDd
      <4> QED BY <2>2, <2>4, <2>5, <2>6, <2>11, <4>1
    <3>2. a <= f + h
      BY <2>2, <2>4, <2>5, <2>8, <2>11
    <3>3. ASSUME NEW k \in 0 .. (b - a) \div s,
                 (a + k * s) - h <= f, f <= a + k * s + h
          PROVE  Covered(f)
      <4>1. k \in 0 .. LastStep(pscfg.entry)
        BY DEF LastStep, a, b, s
      <4>2. /\ Centre(pscfg.entry, k) - HalfUsable(Prop) <= f
            /\ f <= Centre(pscfg.entry, k) + HalfUsable(Prop)
        <5>1. Centre(pscfg.entry, k) = a + k * s
          BY DEF Centre, a, s
        <5>2. HalfUsable(Prop) = h
          BY DEF h
        <5> QED BY <3>3, <5>1, <5>2
      <4> QED BY <3>1, <4>1, <4>2 DEF Covered
    <3>4. CASE f <= a + h
      <4>1. 0 \in 0 .. (b - a) \div s
        BY <2>2, DivBounds
      <4>2. 0 * s = 0
        BY <2>2
      <4>3. (a + 0 * s) - h <= f /\ f <= a + 0 * s + h
        BY <2>2, <2>5, <3>2, <3>4, <4>2
      <4> QED BY <3>3, <4>1, <4>3
    <3>5. CASE f > a + h
      <4> DEFINE g == f - a - h
      <4>1. g \in Nat
        BY <2>2, <2>5, <3>5
      <4>2. g + s <= b - a
        BY <2>2, <2>4, <2>5, <2>8, <2>9, <3>5
      <4>3. PICK k \in 0 .. (b - a) \div s :
               g <= k * s /\ k * s <= g + 2 * h
        BY <2>2, <4>1, <4>2, NextStepCovers
      <4>4. k * s \in Nat
        BY <2>2, DivBounds
      <4>5. (a + k * s) - h <= f /\ f <= a + k * s + h
        BY <2>2, <2>5, <4>3, <4>4
      <4> QED BY <3>3, <4>5
    <3> QED BY <2>2, <2>5, <3>4, <3>5
  <2> QED BY <2>10, <2>11
<1> QED BY <1>1, PlanInvariant, PTL

=============================================================================
