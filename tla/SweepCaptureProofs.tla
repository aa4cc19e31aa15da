-------------------------- MODULE SweepCaptureProofs --------------------------
(***************************************************************************)
(* The measurements make their plans as SweepPlan says, and so inherit what *)
(* SweepPlanProofs proves of a plan, whatever happens to the capture.  What *)
(* a capture does with its packets: no bin of the spectrum is written       *)
(* twice, whatever is refused, lost or late; and as long as nothing is, no  *)
(* packet is left for the next measurement, the spectrum is whole, and its   *)
(* bins are near the frequencies they are taken for.                        *)
(***************************************************************************)
EXTENDS SweepCapture, SweepPlanProofs, WellFoundedInduction

\* Every step of the client and of the instrument makes a plan, frees one, or
\* leaves the plan alone.
THEOREM MeasurementsPlan == CaptureSpec => PlanSpec
<1>1. CaptureInit => PlanInit
  BY DEF CaptureInit
<1>2. ASSUME [CaptureNext]_capVars PROVE [PlanNext]_planVars
  <2>1. ASSUME NEW q \in Requests, Measure(q) PROVE [PlanNext]_planVars
    BY <2>1 DEF Measure, PlanNext
  <2>2. CASE IdentityLost \/ LoadCommand
    BY <2>2 DEF IdentityLost, LoadCommand, planVars
  <2>3. CASE StartCapture
    BY <2>3 DEF StartCapture, planVars
  <2>4. CASE ReadPacket
    BY <2>4 DEF ReadPacket, planVars
  <2>5. CASE ReadTimeout
    BY <2>5 DEF ReadTimeout, planVars
  <2>6. CASE AbortCapture
    BY <2>6 DEF AbortCapture, planVars
  <2>7. CASE ReadError
    BY <2>7 DEF ReadError, planVars
  <2>8. CASE peak_find
    BY <2>8 DEF peak_find, planVars
  <2>9. CASE calculate_channel_power
    BY <2>9 DEF calculate_channel_power, planVars
  <2>10. CASE Return
    BY <2>10 DEF Return, PlanNext
  <2>11. CASE DeviceSends
    BY <2>11 DEF DeviceSends, planVars
  <2>12. CASE UNCHANGED capVars
    BY <2>12 DEF capVars, planVars
  <2> QED BY <1>2, <2>1, <2>2, <2>3, <2>4, <2>5, <2>6, <2>7, <2>8, <2>9,
             <2>10, <2>11, <2>12 DEF CaptureNext, ClientNext
<1> QED BY <1>1, <1>2, PTL DEF CaptureSpec, PlanSpec

\* So whatever a measurement captures was planned over the whole range, within
\* the tunable range, at a resolution the packets can give.
THEOREM MeasurementsArePlanned ==
    CaptureSpec => [](PlanCovers /\ StepsTunable /\ ResolutionMet)
  BY MeasurementsPlan, PlanSeesTheRange, PlanStaysTunable, PlanMeetsResolution,
     PTL

(***************************************************************************)
(* The shape of a capture.  Inductive together with the plan's invariant     *)
(* and the room left for the sweep about to be counted.                     *)
(***************************************************************************)
Inv == PlanInv /\ CaptureInv /\ (pc = "load" => sweeps < MaxMeasurements)

LEMMA SomePacket ==
    ASSUME PlanInv, Planned
    PROVE  pscfg.packet_total \in Nat \ {0}
<1>1. PICK q \in Requests, err \in FloatErrors : MadeFor(q, err)
  BY DEF PlanInv
<1> DEFINE p == Properties[q.mode]
           d == pscfg.entry.fcstop - pscfg.entry.fcstart
           s == pscfg.entry.fstep
<1>2. d \in Nat /\ s \in Nat \ {0}
  BY <1>1, EntryFacts
<1>3. ~NeedsCleanup(p, q, err)
  BY <1>1, FieldsOf, CleanupNever
<1>4. pscfg.packet_total =
        IF OnlyDd(p, q) THEN 1
        ELSE (IF NeedsDd(p, q.fstart) THEN 1 ELSE 0) + Packets(pscfg.entry) + 0
  BY <1>1, <1>3, FieldsOf
<1>5. Packets(pscfg.entry) = IF d <= s THEN 1 ELSE d \div s + 1
  BY DEF Packets
<1> HIDE DEF d, s, p
<1>6. Packets(pscfg.entry) \in Nat \ {0}
  BY <1>2, <1>5, DivBounds
<1> QED BY <1>4, <1>6

LEMMA InvInit == CaptureInit => Inv
<1> SUFFICES ASSUME CaptureInit PROVE Inv
  OBVIOUS
<1>1. PlanInv
  BY DEF CaptureInit, PlanInit, PlanInv, Planned, NoCfg
<1> QED BY <1>1, CaptureAssumption
        DEF Inv, CaptureInv, CaptureInit, PlanInit, NoOutcome

LEMMA InvNext == Inv /\ [CaptureNext]_capVars => Inv'
<1> SUFFICES ASSUME Inv, [CaptureNext]_capVars PROVE Inv'
  OBVIOUS
<1>1. PlanInv /\ CaptureInv /\ (pc = "load" => sweeps < MaxMeasurements)
  BY DEF Inv
<1>2. sweeps \in Nat /\ faults \in Nat /\ sweeps <= MaxMeasurements
      /\ faults <= MaxFaults /\ MaxMeasurements \in Nat /\ MaxFaults \in Nat
  BY <1>1, CaptureAssumption DEF CaptureInv
<1>3. Planned => pscfg.packet_total \in Nat \ {0}
  BY <1>1, SomePacket
<1>4. ASSUME NEW q \in Requests, Measure(q) PROVE Inv'
  <2>1. wsa_power_spectrum_alloc(q) /\ pc = "idle" /\ sweeps < MaxMeasurements
    BY <1>4 DEF Measure
  <2>2. PlanInv'
    BY <1>1, <2>1, PlanStep DEF PlanNext
  <2>3. CASE pscfg'.status = "ok"
    BY <1>1, <1>2, <1>4, <2>1, <2>2, <2>3
       DEF Inv, CaptureInv, Measure, Planned
  <2>4. CASE pscfg'.status # "ok"
    BY <1>1, <1>2, <1>4, <2>1, <2>2, <2>4
       DEF Inv, CaptureInv, Measure, Planned
  <2> QED BY <2>3, <2>4
<1>5. CASE IdentityLost \/ LoadCommand
  BY <1>1, <1>2, <1>5
     DEF IdentityLost, LoadCommand, Inv, PlanInv, MadeFor, Planned, CaptureInv
<1>6. CASE StartCapture
  <2>1. pc = "load" /\ Planned /\ sweeps < MaxMeasurements
    BY <1>1, <1>6 DEF StartCapture, CaptureInv
  <2>2. /\ cap'.count = 0
        /\ DOMAIN cap'.buf = 0 .. pscfg.buflen
    BY <1>6 DEF StartCapture, NoCapture
  <2> QED BY <1>1, <1>2, <1>3, <1>6, <2>1, <2>2
          DEF StartCapture, Inv, PlanInv, MadeFor, Planned, CaptureInv
<1>7. CASE ReadPacket
  <2>1. /\ cap'.count = cap.count + 1
        /\ DOMAIN cap'.buf = 0 .. pscfg.buflen
    BY <1>7 DEF ReadPacket, Paste
  <2>2. pc = "read" /\ Planned /\ cap.count \in 0 .. pscfg.packet_total - 1
    BY <1>1, <1>7 DEF ReadPacket, CaptureInv
  <2>3. CASE LastPacket
    BY <1>1, <1>2, <1>3, <1>7, <2>1, <2>2, <2>3
       DEF ReadPacket, Inv, PlanInv, MadeFor, Planned, CaptureInv
  <2>4. CASE ~LastPacket
    <3>1. cap'.count \in 0 .. pscfg.packet_total - 1
      BY <1>3, <2>1, <2>2, <2>4 DEF LastPacket
    <3> QED BY <1>1, <1>2, <1>7, <2>1, <2>2, <2>4, <3>1
            DEF ReadPacket, Inv, PlanInv, MadeFor, Planned, CaptureInv
  <2> QED BY <2>3, <2>4
<1>8. CASE ReadTimeout
  BY <1>1, <1>2, <1>8
     DEF ReadTimeout, TimedOut, Inv, PlanInv, MadeFor, Planned, CaptureInv
<1>9. CASE AbortCapture
  BY <1>1, <1>2, <1>9
     DEF AbortCapture, Inv, PlanInv, MadeFor, Planned, CaptureInv
<1>10. CASE ReadError
  BY <1>1, <1>2, <1>10
     DEF ReadError, Inv, PlanInv, MadeFor, Planned, CaptureInv
<1>11. CASE peak_find
  BY <1>1, <1>2, <1>11
     DEF peak_find, PowerOfPeak, Inv, PlanInv, MadeFor, Planned, CaptureInv
<1>12. CASE calculate_channel_power
  BY <1>1, <1>2, <1>12
     DEF calculate_channel_power, Inv, PlanInv, MadeFor, Planned, CaptureInv
<1>13. CASE Return
  <2>1. pscfg' = NoCfg /\ ~Planned'
    BY <1>13 DEF Return, wsa_power_spectrum_free, Planned, NoCfg
  <2> QED BY <1>1, <1>2, <1>13, <2>1
          DEF Return, Inv, PlanInv, CaptureInv, NoOutcome
<1>14. CASE DeviceSends
  BY <1>1, <1>2, <1>14
     DEF DeviceSends, Inv, PlanInv, MadeFor, Planned, CaptureInv
<1>15. CASE UNCHANGED capVars
  BY <1>1, <1>2, <1>15
     DEF capVars, Inv, PlanInv, MadeFor, Planned, CaptureInv
<1> QED BY <1>4, <1>5, <1>6, <1>7, <1>8, <1>9, <1>10, <1>11, <1>12, <1>13,
           <1>14, <1>15 DEF CaptureNext, ClientNext

\* A capture under way has a plan and reads no packet past packet_total,
\* whatever the instrument sends or refuses.
THEOREM CaptureKept == CaptureSpec => []CaptureInv
<1>1. Inv => CaptureInv
  BY DEF Inv
<1> QED BY <1>1, InvInit, InvNext, PTL DEF CaptureSpec

(***************************************************************************)
(* Sequences of anything.                                                   *)
(***************************************************************************)
IsQueue(q) == \E S : q \in Seq(S)

LEMMA QueueLengths ==
    ASSUME NEW q, IsQueue(q)
    PROVE  Len(q) \in Nat /\ DOMAIN q = 1 .. Len(q) /\ (q = <<>> <=> Len(q) = 0)
<1> PICK S : q \in Seq(S)
  BY DEF IsQueue
<1> QED OBVIOUS

LEMMA Literals ==
    /\ IsQueue(<<>>)
    /\ \A a : /\ IsQueue(<<a>>) /\ Len(<<a>>) = 1 /\ <<a>>[1] = a
    /\ \A a, b, c :
          /\ IsQueue(<<a, b, c>>) /\ Len(<<a, b, c>>) = 3
          /\ <<a, b, c>>[1] = a /\ <<a, b, c>>[2] = b /\ <<a, b, c>>[3] = c
    /\ \A a, b, c, d :
          /\ IsQueue(<<a, b, c, d>>) /\ Len(<<a, b, c, d>>) = 4
          /\ <<a, b, c, d>>[1] = a /\ <<a, b, c, d>>[2] = b
          /\ <<a, b, c, d>>[3] = c /\ <<a, b, c, d>>[4] = d
<1>1. IsQueue(<<>>)
  <2>1. <<>> \in Seq({})
    OBVIOUS
  <2> QED BY <2>1 DEF IsQueue
<1>2. ASSUME NEW a
      PROVE  IsQueue(<<a>>) /\ Len(<<a>>) = 1 /\ <<a>>[1] = a
  <2>1. <<a>> \in Seq({a})
    OBVIOUS
  <2> QED BY <2>1 DEF IsQueue
<1>3. ASSUME NEW a, NEW b, NEW c
      PROVE  /\ IsQueue(<<a, b, c>>) /\ Len(<<a, b, c>>) = 3
             /\ <<a, b, c>>[1] = a /\ <<a, b, c>>[2] = b /\ <<a, b, c>>[3] = c
  <2>1. <<a, b, c>> \in Seq({a, b, c})
    OBVIOUS
  <2> QED BY <2>1 DEF IsQueue
<1>4. ASSUME NEW a, NEW b, NEW c, NEW d
      PROVE  /\ IsQueue(<<a, b, c, d>>) /\ Len(<<a, b, c, d>>) = 4
             /\ <<a, b, c, d>>[1] = a /\ <<a, b, c, d>>[2] = b
             /\ <<a, b, c, d>>[3] = c /\ <<a, b, c, d>>[4] = d
  <2>1. <<a, b, c, d>> \in Seq({a, b, c, d})
    OBVIOUS
  <2> QED BY <2>1 DEF IsQueue
<1> QED BY <1>1, <1>2, <1>3, <1>4

IsJoin(r, p, q) ==
    /\ IsQueue(r) /\ Len(r) = Len(p) + Len(q)
    /\ \A i \in 1 .. Len(p) : r[i] = p[i]
    /\ \A i \in 1 .. Len(q) : r[Len(p) + i] = q[i]

LEMMA Joined ==
    ASSUME NEW p, NEW q, IsQueue(p), IsQueue(q), NEW r, r = p \o q
    PROVE  IsJoin(r, p, q)
<1> PICK S1, S2 : p \in Seq(S1) /\ q \in Seq(S2)
  BY DEF IsQueue
<1> DEFINE S == S1 \cup S2
<1>1. p \in Seq(S) /\ q \in Seq(S)
  OBVIOUS
<1> HIDE DEF S
<1>2. p \o q \in Seq(S)
  BY <1>1
<1>3. /\ Len(p \o q) = Len(p) + Len(q)
      /\ \A i \in 1 .. Len(p) : (p \o q)[i] = p[i]
      /\ \A i \in 1 .. Len(q) : (p \o q)[Len(p) + i] = q[i]
  BY <1>1
<1> QED BY <1>2, <1>3 DEF IsQueue, IsJoin

LEMMA Appended ==
    ASSUME NEW q, IsQueue(q), NEW x
    PROVE  /\ IsQueue(Append(q, x)) /\ Len(Append(q, x)) = Len(q) + 1
           /\ Append(q, x)[Len(q) + 1] = x
           /\ \A i \in 1 .. Len(q) : Append(q, x)[i] = q[i]
<1> PICK S1 : q \in Seq(S1)
  BY DEF IsQueue
<1> DEFINE S == S1 \cup {x}
<1>1. q \in Seq(S) /\ x \in S
  OBVIOUS
<1> HIDE DEF S
<1>2. Append(q, x) \in Seq(S)
  BY <1>1
<1>3. /\ Len(Append(q, x)) = Len(q) + 1
      /\ Append(q, x)[Len(q) + 1] = x
      /\ \A i \in 1 .. Len(q) : Append(q, x)[i] = q[i]
  BY <1>1
<1> QED BY <1>2, <1>3 DEF IsQueue

LEMMA Shifted ==
    ASSUME NEW q, IsQueue(q), q # <<>>
    PROVE  /\ IsQueue(Tail(q)) /\ Len(Tail(q)) = Len(q) - 1 /\ Head(q) = q[1]
           /\ \A i \in 1 .. Len(q) - 1 : Tail(q)[i] = q[i + 1]
<1> PICK S : q \in Seq(S)
  BY DEF IsQueue
<1>1. Tail(q) \in Seq(S)
  OBVIOUS
<1>2. /\ Len(Tail(q)) = Len(q) - 1 /\ Head(q) = q[1]
      /\ \A i \in 1 .. Len(q) - 1 : Tail(q)[i] = q[i + 1]
  OBVIOUS
<1> QED BY <1>1, <1>2 DEF IsQueue

(***************************************************************************)
(* The commands that load a plan.  Before(c) come before those of the main   *)
(* entry, which is saved unless the plan is of the direct digitizer alone.  *)
(***************************************************************************)
Before(c) == IF c.dd_mode THEN 6 ELSE 3
Commands(c) == Before(c) + (IF c.only_dd THEN 4 ELSE 5)

LEMMA CommandsAre ==
    ASSUME NEW c
    PROVE  LET load == wsa_sweep_plan_load(c)
               m == Before(c) IN
           /\ IsQueue(load) /\ Len(load) = Commands(c)
           /\ load[1] = [op |-> "delete all"]
           /\ load[2] = [op |-> "new"]
           /\ load[3] = [op |-> "once"]
           /\ c.dd_mode => /\ load[4] = Set([mode |-> "DD"])
                           /\ load[5] = Set([spp |-> c.samples_per_packet])
                           /\ load[6] = [op |-> "save"]
           /\ load[m + 1] = Set([mode |-> c.mode])
           /\ load[m + 2] = Set([fcstart |-> c.entry.fcstart,
                                 fcstop |-> c.entry.fcstop])
           /\ load[m + 3] = Set([fstep |-> c.entry.fstep])
           /\ load[m + 4] = Set([spp |-> c.samples_per_packet])
           /\ ~c.only_dd => load[m + 5] = [op |-> "save"]
<1> DEFINE first == <<[op |-> "delete all"], [op |-> "new"], [op |-> "once"]>>
           dd == <<Set([mode |-> "DD"]), Set([spp |-> c.samples_per_packet]),
                   [op |-> "save"]>>
           entry == <<Set([mode |-> c.mode]),
                      Set([fcstart |-> c.entry.fcstart,
                           fcstop |-> c.entry.fcstop]),
                      Set([fstep |-> c.entry.fstep]),
                      Set([spp |-> c.samples_per_packet])>>
           last == <<[op |-> "save"]>>
           A == IF c.dd_mode THEN dd ELSE <<>>
           B == IF c.only_dd THEN <<>> ELSE last
           load == wsa_sweep_plan_load(c)
<1>1. load = ((first \o A) \o entry) \o B
  BY DEF wsa_sweep_plan_load
<1>2. /\ IsQueue(first) /\ Len(first) = 3 /\ first[1] = [op |-> "delete all"]
      /\ first[2] = [op |-> "new"] /\ first[3] = [op |-> "once"]
  BY Zenon, Literals
<1>3. /\ IsQueue(dd) /\ Len(dd) = 3 /\ dd[1] = Set([mode |-> "DD"])
      /\ dd[2] = Set([spp |-> c.samples_per_packet]) /\ dd[3] = [op |-> "save"]
  BY Zenon, Literals
<1>4. /\ IsQueue(entry) /\ Len(entry) = 4 /\ entry[1] = Set([mode |-> c.mode])
      /\ entry[2] = Set([fcstart |-> c.entry.fcstart,
                         fcstop |-> c.entry.fcstop])
      /\ entry[3] = Set([fstep |-> c.entry.fstep])
      /\ entry[4] = Set([spp |-> c.samples_per_packet])
  BY Zenon, Literals
<1>5. IsQueue(last) /\ Len(last) = 1 /\ last[1] = [op |-> "save"]
  BY Zenon, Literals
<1>6. IsQueue(<<>>) /\ Len(<<>>) = 0
  BY Literals
<1> HIDE DEF first, dd, entry, last, load
<1>7. /\ IsQueue(A) /\ Len(A) = (IF c.dd_mode THEN 3 ELSE 0)
      /\ c.dd_mode => A = dd
  <2>1. CASE c.dd_mode
    <3>1. A = dd
      BY Zenon, <2>1
    <3> HIDE DEF A
    <3> QED BY <1>3, <2>1, <3>1
  <2>2. CASE ~c.dd_mode
    <3>1. A = <<>>
      BY Zenon, <2>2
    <3> HIDE DEF A
    <3> QED BY <1>6, <2>2, <3>1
  <2> QED BY <2>1, <2>2
<1>8. /\ IsQueue(B) /\ Len(B) = (IF c.only_dd THEN 0 ELSE 1)
      /\ ~c.only_dd => B = last
  <2>1. CASE c.only_dd
    <3>1. B = <<>>
      BY Zenon, <2>1
    <3> HIDE DEF B
    <3> QED BY <1>6, <2>1, <3>1
  <2>2. CASE ~c.only_dd
    <3>1. B = last
      BY Zenon, <2>2
    <3> HIDE DEF B
    <3> QED BY <1>5, <2>2, <3>1
  <2> QED BY <2>1, <2>2
<1> HIDE DEF A, B
<1> DEFINE opening == first \o A
           m == Before(c)
<1>9. /\ IsQueue(opening) /\ Len(opening) = m /\ m \in {3, 6}
      /\ opening[1] = first[1] /\ opening[2] = first[2] /\ opening[3] = first[3]
      /\ c.dd_mode => opening[4] = dd[1] /\ opening[5] = dd[2] /\ opening[6] = dd[3]
  <2>1. /\ IsQueue(opening) /\ Len(opening) = 3 + Len(A)
        /\ \A i \in 1 .. 3 : opening[i] = first[i]
        /\ \A i \in 1 .. Len(A) : opening[3 + i] = A[i]
    <3>1. IsJoin(opening, first, A)
      BY <1>2, <1>7, Joined
    <3> HIDE DEF opening
    <3> QED BY <1>2, <3>1 DEF IsJoin
  <2> HIDE DEF opening
  <2>2. c.dd_mode => /\ opening[3 + 1] = dd[1] /\ opening[3 + 2] = dd[2]
                     /\ opening[3 + 3] = dd[3]
    BY <1>7, <2>1
  <2> QED BY <1>7, <2>1, <2>2 DEF Before
<1> HIDE DEF opening, m
<1> DEFINE nearly == opening \o entry
<1>10. /\ IsQueue(nearly) /\ Len(nearly) = m + 4 /\ \A i \in 1 .. m : nearly[i] = opening[i]
       /\ nearly[m + 1] = entry[1] /\ nearly[m + 2] = entry[2]
       /\ nearly[m + 3] = entry[3] /\ nearly[m + 4] = entry[4]
  <2>1. /\ IsQueue(nearly) /\ Len(nearly) = m + 4
        /\ \A i \in 1 .. m : nearly[i] = opening[i]
        /\ \A i \in 1 .. 4 : nearly[m + i] = entry[i]
    <3>1. IsJoin(nearly, opening, entry)
      BY <1>4, <1>9, Joined
    <3> HIDE DEF nearly
    <3> QED BY <1>4, <1>9, <3>1 DEF IsJoin
  <2> HIDE DEF nearly
  <2> QED BY <2>1
<1> HIDE DEF nearly
<1>11. /\ IsQueue(load) /\ Len(load) = m + 4 + Len(B)
       /\ \A i \in 1 .. m + 4 : load[i] = nearly[i]
       /\ ~c.only_dd => load[m + 5] = last[1]
  <2>1. load = nearly \o B
    BY <1>1 DEF nearly, opening
  <2>2. /\ IsQueue(load) /\ Len(load) = m + 4 + Len(B)
        /\ \A i \in 1 .. m + 4 : load[i] = nearly[i]
        /\ \A i \in 1 .. Len(B) : load[m + 4 + i] = B[i]
    <3>1. IsJoin(load, nearly, B)
      BY <1>8, <1>10, <2>1, Joined
    <3> QED BY <1>10, <3>1 DEF IsJoin
  <2>3. ~c.only_dd => load[m + 4 + 1] = B[1]
    BY <1>8, <2>2
  <2> QED BY <1>8, <1>9, <2>2, <2>3
<1>12. Len(load) = Commands(c)
  BY <1>8, <1>9, <1>11 DEF Commands, m
<1>13. /\ \A i \in 1 .. m : load[i] = opening[i]
       /\ load[m + 1] = entry[1] /\ load[m + 2] = entry[2]
       /\ load[m + 3] = entry[3] /\ load[m + 4] = entry[4]
  BY <1>9, <1>10, <1>11
<1>14. c.dd_mode => m = 6
  BY DEF m, Before
<1>15. /\ load[1] = opening[1] /\ load[2] = opening[2] /\ load[3] = opening[3]
       /\ c.dd_mode => load[4] = opening[4] /\ load[5] = opening[5] /\ load[6] = opening[6]
  BY <1>9, <1>13, <1>14
<1> QED BY <1>2, <1>3, <1>4, <1>5, <1>9, <1>11, <1>12, <1>13, <1>15 DEF load, m

(***************************************************************************)
(* What the instrument holds of the plan after k commands, when none was     *)
(* refused or lost: the list, the template and whether it sweeps once.       *)
(***************************************************************************)
Fields == {"mode", "fcstart", "fcstop", "fstep", "spp"}
OneStep(e) == LastStep(e) = 0
IsDd(e) ==
    OneStep(e) /\ e.mode = "DD" /\ e.spp = pscfg.samples_per_packet
IsMain(e) ==
    /\ e.fcstart = pscfg.entry.fcstart
    /\ e.fcstop = pscfg.entry.fcstop
    /\ e.fstep = pscfg.entry.fstep
    /\ e.mode = pscfg.mode /\ e.spp = pscfg.samples_per_packet

SavedOf(k) == IF pscfg.dd_mode /\ k >= 6 THEN 1 ELSE 0
AllSaved(k) == k = Before(pscfg) + 5

TemplateHeld(k) ==
    /\ DOMAIN device.template = Fields
    /\ k >= 2 /\ k < 6 /\ pscfg.dd_mode => OneStep(device.template)
    /\ k \in {4, 5} /\ pscfg.dd_mode => device.template.mode = "DD"
    /\ k = 5 /\ pscfg.dd_mode =>
          device.template.spp = pscfg.samples_per_packet
    /\ k >= Before(pscfg) + 1 => device.template.mode = pscfg.mode
    /\ k >= Before(pscfg) + 2 =>
          /\ device.template.fcstart = pscfg.entry.fcstart
          /\ device.template.fcstop = pscfg.entry.fcstop
    /\ k >= Before(pscfg) + 3 => device.template.fstep = pscfg.entry.fstep
    /\ k >= Before(pscfg) + 4 =>
          device.template.spp = pscfg.samples_per_packet

ListHeld(k) ==
    k >= 1 =>
        /\ IsQueue(device.list)
        /\ Len(device.list) = SavedOf(k) + (IF AllSaved(k) THEN 1 ELSE 0)
        /\ SavedOf(k) = 1 => IsDd(device.list[1])
        /\ AllSaved(k) => IsMain(device.list[SavedOf(k) + 1])

Held(k) == TemplateHeld(k) /\ ListHeld(k) /\ (k >= 3 => device.once)

DeviceShape ==
    /\ DOMAIN device = {"template", "list", "once", "air"}
    /\ DOMAIN device.template = Fields

LEMMA OneStepTemplate == DOMAIN DefaultEntry = Fields /\ OneStep(DefaultEntry)
<1> DEFINE d == DefaultEntry.fcstop - DefaultEntry.fcstart
<1>1. d \in Nat /\ DefaultEntry.fstep \in Nat \ {0} /\ d < DefaultEntry.fstep
  BY CaptureAssumption, TemplateAssumption
<1>2. LastStep(DefaultEntry) = d \div DefaultEntry.fstep
  BY DEF LastStep
<1> HIDE DEF d
<1>3. d \div DefaultEntry.fstep = 0
  BY <1>1
<1>4. DOMAIN DefaultEntry = Fields
  BY CaptureAssumption DEF Fields
<1> QED BY <1>2, <1>3, <1>4 DEF OneStep

\* What a command does to the parts.
LEMMA Executed ==
    ASSUME DeviceShape, NEW cmd, device' = DeviceExecutes(cmd),
           cmd.op \in {"delete all", "new", "once", "save", "set"}
    PROVE  /\ DeviceShape' /\ device'.air = device.air
           /\ cmd.op = "delete all" =>
                 /\ device'.list = <<>> /\ device'.template = device.template
                 /\ device'.once = device.once
           /\ cmd.op = "new" =>
                 /\ device'.list = device.list
                 /\ device'.template = DefaultEntry
                 /\ device'.once = device.once
           /\ cmd.op = "once" =>
                 /\ device'.list = device.list
                 /\ device'.template = device.template
                 /\ device'.once = TRUE
           /\ cmd.op = "save" =>
                 /\ device'.list = Append(device.list, device.template)
                 /\ device'.template = device.template
                 /\ device'.once = device.once
           /\ cmd.op = "set" =>
                 /\ device'.list = device.list /\ device'.once = device.once
                 /\ device'.template =
                       [f \in Fields |-> IF f \in DOMAIN cmd.to THEN cmd.to[f]
                                         ELSE device.template[f]]
<1>1. CASE cmd.op = "delete all"
  BY <1>1 DEF DeviceExecutes, DeviceShape
<1>2. CASE cmd.op = "new"
  BY <1>2, OneStepTemplate DEF DeviceExecutes, DeviceShape
<1>3. CASE cmd.op = "once"
  BY <1>3 DEF DeviceExecutes, DeviceShape
<1>4. CASE cmd.op = "save"
  BY <1>4 DEF DeviceExecutes, DeviceShape
<1>5. CASE cmd.op = "set"
  BY <1>5 DEF DeviceExecutes, DeviceShape
<1> QED BY <1>1, <1>2, <1>3, <1>4, <1>5

\* The list after a save, and the template after a set.
LEMMA SavedAgain ==
    ASSUME NEW k \in Nat, TemplateHeld(k), ListHeld(k), k >= 1, ~AllSaved(k),
           pscfg' = pscfg, device'.list = Append(device.list, device.template),
           \/ k = 5 /\ pscfg.dd_mode
           \/ k = Before(pscfg) + 4
    PROVE  ListHeld(k + 1)'
<1> DEFINE q == device.list
<1>1. IsQueue(q) /\ Len(q) = SavedOf(k) /\ (SavedOf(k) = 1 => IsDd(q[1]))
  BY DEF ListHeld, SavedOf
<1>2. /\ IsQueue(device'.list) /\ Len(device'.list) = SavedOf(k) + 1
      /\ device'.list[SavedOf(k) + 1] = device.template
      /\ \A i \in 1 .. SavedOf(k) : device'.list[i] = q[i]
  BY <1>1, Appended
<1>3. /\ AllSaved(k + 1)' <=> AllSaved(k + 1)
      /\ SavedOf(k + 1)' = SavedOf(k + 1)
      /\ \A e : (IsMain(e)' <=> IsMain(e)) /\ (IsDd(e)' <=> IsDd(e))
  BY DEF AllSaved, SavedOf, IsMain, IsDd, OneStep, LastStep
<1>4. CASE k = 5 /\ pscfg.dd_mode
  <2>1. SavedOf(k) = 0 /\ SavedOf(k + 1) = 1 /\ ~AllSaved(k + 1)
    BY <1>4 DEF SavedOf, AllSaved, Before
  <2>2. IsDd(device.template)
    BY <1>4 DEF TemplateHeld, IsDd
  <2> HIDE DEF q
  <2>3. IsDd(device'.list[1])
    BY <1>2, <2>1, <2>2
  <2> QED BY <1>2, <1>3, <2>1, <2>3 DEF ListHeld
<1>5. CASE k = Before(pscfg) + 4
  <2>1. AllSaved(k + 1) /\ SavedOf(k + 1) = SavedOf(k) /\ SavedOf(k) \in {0, 1}
    BY <1>5 DEF SavedOf, AllSaved, Before
  <2>2. IsMain(device.template)
    <3>1. /\ k >= Before(pscfg) + 1 /\ k >= Before(pscfg) + 2
          /\ k >= Before(pscfg) + 3 /\ k >= Before(pscfg) + 4
      BY <1>5 DEF Before
    <3> QED BY <3>1 DEF TemplateHeld, IsMain
  <2> HIDE DEF q
  <2>3. IsMain(device'.list[SavedOf(k) + 1])
    BY <1>2, <2>2
  <2>4. SavedOf(k) = 1 => IsDd(device'.list[1])
    BY <1>1, <1>2, <2>1
  <2> QED BY <1>2, <1>3, <2>1, <2>3, <2>4 DEF ListHeld
<1> QED BY <1>4, <1>5

\* A command that saves nothing keeps what is known of the list.
LEMMA NoneSaved ==
    ASSUME NEW k \in Nat, ListHeld(k), k >= 1, ~AllSaved(k), ~AllSaved(k + 1),
           pscfg.dd_mode => k # 5,
           pscfg' = pscfg, device'.list = device.list
    PROVE  ListHeld(k + 1)'
<1>1. AllSaved(k + 1)' <=> AllSaved(k + 1)
  BY DEF AllSaved
<1>2. SavedOf(k + 1)' = SavedOf(k)
  BY DEF SavedOf
<1>3. \A e : IsDd(e)' <=> IsDd(e)
  BY DEF IsDd, OneStep, LastStep
<1> QED BY <1>1, <1>2, <1>3 DEF ListHeld

LEMMA HeldStep ==
    ASSUME DeviceShape, NEW k \in 0 .. Commands(pscfg) - 1, Held(k),
           device' = DeviceExecutes(wsa_sweep_plan_load(pscfg)[k + 1]),
           pscfg' = pscfg
    PROVE  DeviceShape' /\ Held(k + 1)' /\ device'.air = device.air
<1> DEFINE m == Before(pscfg)
           load == wsa_sweep_plan_load(pscfg)
           cmd == load[k + 1]
<1>1. m \in {3, 6} /\ (pscfg.dd_mode <=> m = 6)
  BY DEF Before
<1>2. Commands(pscfg) = m + (IF pscfg.only_dd THEN 4 ELSE 5)
  BY DEF Commands
<1>3. /\ load[1] = [op |-> "delete all"]
      /\ load[2] = [op |-> "new"]
      /\ load[3] = [op |-> "once"]
      /\ pscfg.dd_mode => /\ load[4] = Set([mode |-> "DD"])
                          /\ load[5] = Set([spp |-> pscfg.samples_per_packet])
                          /\ load[6] = [op |-> "save"]
      /\ load[m + 1] = Set([mode |-> pscfg.mode])
      /\ load[m + 2] = Set([fcstart |-> pscfg.entry.fcstart,
                            fcstop |-> pscfg.entry.fcstop])
      /\ load[m + 3] = Set([fstep |-> pscfg.entry.fstep])
      /\ load[m + 4] = Set([spp |-> pscfg.samples_per_packet])
      /\ ~pscfg.only_dd => load[m + 5] = [op |-> "save"]
  BY CommandsAre
<1>22. /\ load[1].op = "delete all" /\ load[2].op = "new"
       /\ load[3].op = "once" /\ (pscfg.dd_mode => load[6].op = "save")
       /\ ~pscfg.only_dd => load[m + 5].op = "save"
  <2>1. \A r, x : r = [op |-> x] => r.op = x
    OBVIOUS
  <2> HIDE DEF load, m
  <2> QED BY Zenon, <1>3, <2>1
<1>4. device' = DeviceExecutes(cmd)
  OBVIOUS
<1>5. k \in Nat /\ k < m + 5 /\ (pscfg.only_dd => k < m + 4)
  BY <1>1, <1>2
<1> HIDE DEF m, load
<1>6. Before(pscfg)' = m /\ Before(pscfg) = m
  BY DEF Before, m
<1>7. ~AllSaved(k) /\ (AllSaved(k + 1) <=> k = m + 4)
  BY <1>1, <1>5, <1>6 DEF AllSaved
<1>8. CASE k = 0
  <2>0. k + 1 = 1
    BY <1>1, <1>5, <1>8
  <2>1. cmd.op = "delete all"
    BY <1>22, <1>8, <2>0
  <2>2. /\ DeviceShape' /\ device'.air = device.air /\ device'.list = <<>>
        /\ device'.template = device.template
    BY <1>4, <2>1, Executed
  <2>3. TemplateHeld(k + 1)'
    BY <1>1, <1>6, <1>8, <2>2 DEF TemplateHeld, DeviceShape
  <2>4. IsQueue(<<>>) /\ Len(<<>>) = 0
    BY Literals
  <2>5. SavedOf(k + 1)' = 0 /\ ~AllSaved(k + 1)'
    BY <1>1, <1>6, <1>8 DEF SavedOf, AllSaved
  <2>6. ListHeld(k + 1)'
    BY <2>2, <2>4, <2>5 DEF ListHeld
  <2> QED BY <1>8, <2>2, <2>3, <2>6 DEF Held
<1>9. CASE k = 1
  <2>0. k + 1 = 2
    BY <1>1, <1>5, <1>9
  <2>1. cmd.op = "new"
    BY <1>22, <1>9, <2>0
  <2>2. /\ DeviceShape' /\ device'.air = device.air
        /\ device'.list = device.list /\ device'.template = DefaultEntry
    BY <1>4, <2>1, Executed
  <2>3. TemplateHeld(k + 1)'
    <3>1. OneStep(device'.template) /\ DOMAIN device'.template = Fields
      BY <2>2, OneStepTemplate
    <3> QED BY <1>1, <1>6, <1>9, <3>1 DEF TemplateHeld
  <2>4. ListHeld(k + 1)'
    BY <1>1, <1>7, <1>9, <2>2, NoneSaved DEF Held
  <2> QED BY <1>9, <2>2, <2>3, <2>4 DEF Held
<1>10. CASE k = 2
  <2>0. k + 1 = 3
    BY <1>1, <1>5, <1>10
  <2>1. cmd.op = "once"
    BY <1>22, <1>10, <2>0
  <2>2. /\ DeviceShape' /\ device'.air = device.air
        /\ device'.list = device.list /\ device'.template = device.template
        /\ device'.once
    BY <1>4, <2>1, Executed
  <2>3. TemplateHeld(k + 1)'
    BY <1>1, <1>6, <1>10, <2>2 DEF TemplateHeld, Held
  <2>4. ListHeld(k + 1)'
    BY <1>1, <1>7, <1>10, <2>2, NoneSaved DEF Held
  <2> QED BY <2>2, <2>3, <2>4 DEF Held
<1>11. ASSUME cmd.op = "save", k >= 3, device.once,
              (k = 5 /\ pscfg.dd_mode) \/ k = m + 4
       PROVE  DeviceShape' /\ Held(k + 1)' /\ device'.air = device.air
  <2>1. /\ DeviceShape' /\ device'.air = device.air
        /\ device'.list = Append(device.list, device.template)
        /\ device'.template = device.template /\ device'.once = device.once
    BY <1>4, <1>11, Executed
  <2>2. TemplateHeld(k + 1)'
    BY <1>1, <1>5, <1>6, <1>11, <2>1 DEF TemplateHeld, Held
  <2>3. ListHeld(k + 1)'
    BY <1>5, <1>6, <1>7, <1>11, <2>1, SavedAgain DEF Held
  <2> QED BY <1>11, <2>1, <2>2, <2>3 DEF Held
<1>12. ASSUME NEW to, cmd = Set(to), k >= 3, device.once, k # m + 4,
              pscfg.dd_mode => k # 5
       PROVE  /\ DeviceShape' /\ device'.air = device.air
              /\ device'.once /\ ListHeld(k + 1)'
              /\ DOMAIN device'.template = Fields
              /\ \A f \in Fields :
                    device'.template[f] =
                        IF f \in DOMAIN to THEN to[f] ELSE device.template[f]
  <2>1. cmd.op = "set" /\ cmd.to = to
    BY <1>12 DEF Set
  <2>2. /\ DeviceShape' /\ device'.air = device.air
        /\ device'.list = device.list /\ device'.once = device.once
        /\ \A f \in Fields :
              device'.template[f] =
                  IF f \in DOMAIN to THEN to[f] ELSE device.template[f]
    <3>1. /\ DeviceShape' /\ device'.air = device.air
          /\ device'.list = device.list /\ device'.once = device.once
          /\ device'.template =
                [f \in Fields |-> IF f \in DOMAIN cmd.to THEN cmd.to[f]
                                  ELSE device.template[f]]
      BY <1>4, <2>1, Executed
    <3> HIDE DEF cmd
    <3> QED BY <1>12, <2>1, <3>1
  <2>3. ListHeld(k + 1)'
    BY <1>5, <1>7, <1>12, <2>2, NoneSaved DEF Held
  <2> QED BY <1>12, <2>2, <2>3 DEF DeviceShape
<1>13. k >= 3 => device.once
  BY DEF Held
<1>14. CASE k = 3 /\ pscfg.dd_mode
  <2> DEFINE to == [mode |-> "DD"]
  <2>0. k + 1 = 4
    BY <1>1, <1>5, <1>14
  <2>1. cmd = Set(to)
    BY <1>3, <1>14, <2>0
  <2>2. DOMAIN to = {"mode"}
    OBVIOUS
  <2>5. to["mode"] = "DD"
    OBVIOUS
  <2> HIDE DEF to
  <2>3. /\ DeviceShape' /\ device'.air = device.air
        /\ device'.once /\ ListHeld(k + 1)'
        /\ DOMAIN device'.template = Fields
        /\ \A f \in {"fcstart", "fcstop", "fstep"} :
              device'.template[f] = device.template[f]
        /\ device'.template["mode"] = "DD"
    BY <1>1, <1>12, <1>13, <1>14, <2>1, <2>2, <2>5 DEF Fields
  <2>4. TemplateHeld(k + 1)'
    BY <1>1, <1>6, <1>14, <2>3 DEF TemplateHeld, Held, OneStep, LastStep
  <2> QED BY <2>3, <2>4 DEF Held
<1>15. CASE k = 4 /\ pscfg.dd_mode
  <2> DEFINE to == [spp |-> pscfg.samples_per_packet]
  <2>0. k + 1 = 5
    BY <1>1, <1>5, <1>15
  <2>1. cmd = Set(to)
    BY <1>3, <1>15, <2>0
  <2>2. DOMAIN to = {"spp"}
    OBVIOUS
  <2>5. to["spp"] = pscfg.samples_per_packet
    OBVIOUS
  <2> HIDE DEF to
  <2>3. /\ DeviceShape' /\ device'.air = device.air
        /\ device'.once /\ ListHeld(k + 1)'
        /\ DOMAIN device'.template = Fields
        /\ \A f \in {"mode", "fcstart", "fcstop", "fstep"} :
              device'.template[f] = device.template[f]
        /\ device'.template["spp"] = pscfg.samples_per_packet
    BY <1>1, <1>12, <1>13, <1>15, <2>1, <2>2, <2>5 DEF Fields
  <2>4. TemplateHeld(k + 1)'
    BY <1>1, <1>6, <1>15, <2>3 DEF TemplateHeld, Held, OneStep, LastStep
  <2> QED BY <2>3, <2>4 DEF Held
<1>16. CASE k = 5 /\ pscfg.dd_mode
  <2>1. k + 1 = 6
    BY <1>5, <1>16
  <2>2. cmd.op = "save"
    BY Zenon, <1>16, <1>22, <2>1
  <2> QED BY <1>11, <1>13, <1>16, <2>2
<1>17. CASE k = m
  <2> DEFINE to == [mode |-> pscfg.mode]
  <2>1. cmd = Set(to)
    BY <1>1, <1>3, <1>5, <1>17
  <2>2. DOMAIN to = {"mode"}
    OBVIOUS
  <2>5. to["mode"] = pscfg.mode
    OBVIOUS
  <2> HIDE DEF to
  <2>3. /\ DeviceShape' /\ device'.air = device.air
        /\ device'.once /\ ListHeld(k + 1)'
        /\ DOMAIN device'.template = Fields
        /\ device'.template["mode"] = pscfg.mode
    BY <1>1, <1>12, <1>13, <1>17, <2>1, <2>2, <2>5 DEF Fields
  <2>4. TemplateHeld(k + 1)'
    BY <1>1, <1>6, <1>17, <2>3 DEF TemplateHeld
  <2> QED BY <2>3, <2>4 DEF Held
<1>18. CASE k = m + 1
  <2> DEFINE to == [fcstart |-> pscfg.entry.fcstart,
                    fcstop |-> pscfg.entry.fcstop]
  <2>0. k + 1 = m + 2
    BY <1>1, <1>5, <1>18
  <2>1. cmd = Set(to)
    BY <1>3, <1>18, <2>0
  <2>2. /\ DOMAIN to = {"fcstart", "fcstop"}
        /\ to["fcstart"] = pscfg.entry.fcstart
        /\ to["fcstop"] = pscfg.entry.fcstop
    OBVIOUS
  <2> HIDE DEF to
  <2>3. /\ DeviceShape' /\ device'.air = device.air
        /\ device'.once /\ ListHeld(k + 1)'
        /\ DOMAIN device'.template = Fields
        /\ device'.template["fcstart"] = pscfg.entry.fcstart
        /\ device'.template["fcstop"] = pscfg.entry.fcstop
        /\ device'.template["mode"] = device.template["mode"]
    BY <1>1, <1>12, <1>13, <1>18, <2>1, <2>2 DEF Fields
  <2>4. TemplateHeld(k + 1)'
    BY <1>1, <1>6, <1>18, <2>3 DEF TemplateHeld, Held
  <2> QED BY <2>3, <2>4 DEF Held
<1>19. CASE k = m + 2
  <2> DEFINE to == [fstep |-> pscfg.entry.fstep]
  <2>0. k + 1 = m + 3
    BY <1>1, <1>5, <1>19
  <2>1. cmd = Set(to)
    BY <1>3, <1>19, <2>0
  <2>2. DOMAIN to = {"fstep"} /\ to["fstep"] = pscfg.entry.fstep
    OBVIOUS
  <2> HIDE DEF to
  <2>3. /\ DeviceShape' /\ device'.air = device.air
        /\ device'.once /\ ListHeld(k + 1)'
        /\ DOMAIN device'.template = Fields
        /\ device'.template["fcstart"] = device.template["fcstart"]
        /\ device'.template["fcstop"] = device.template["fcstop"]
        /\ device'.template["fstep"] = pscfg.entry.fstep
        /\ device'.template["mode"] = device.template["mode"]
    BY <1>1, <1>12, <1>13, <1>19, <2>1, <2>2 DEF Fields
  <2>4. TemplateHeld(k + 1)'
    BY <1>1, <1>6, <1>19, <2>3 DEF TemplateHeld, Held
  <2> QED BY <2>3, <2>4 DEF Held
<1>20. CASE k = m + 3
  <2> DEFINE to == [spp |-> pscfg.samples_per_packet]
  <2>0. k + 1 = m + 4
    BY <1>1, <1>5, <1>20
  <2>1. cmd = Set(to)
    BY <1>3, <1>20, <2>0
  <2>2. DOMAIN to = {"spp"}
    OBVIOUS
  <2>5. to["spp"] = pscfg.samples_per_packet
    OBVIOUS
  <2> HIDE DEF to
  <2>3. /\ DeviceShape' /\ device'.air = device.air
        /\ device'.once /\ ListHeld(k + 1)'
        /\ DOMAIN device'.template = Fields
        /\ \A f \in {"mode", "fcstart", "fcstop", "fstep"} :
              device'.template[f] = device.template[f]
        /\ device'.template["spp"] = pscfg.samples_per_packet
    BY <1>1, <1>12, <1>13, <1>20, <2>1, <2>2, <2>5 DEF Fields
  <2>4. TemplateHeld(k + 1)'
    BY <1>1, <1>6, <1>20, <2>3 DEF TemplateHeld, Held
  <2> QED BY <2>3, <2>4 DEF Held
<1>21. CASE k = m + 4
  <2>1. ~pscfg.only_dd
    BY <1>1, <1>5, <1>21
  <2>0. k + 1 = m + 5
    BY <1>1, <1>5, <1>21
  <2>2. cmd.op = "save"
    BY <1>22, <1>21, <2>0, <2>1
  <2> QED BY <1>1, <1>11, <1>13, <1>21, <2>2
<1> QED BY <1>1, <1>5, <1>8, <1>9, <1>10, <1>14, <1>15, <1>16, <1>17, <1>18,
           <1>19, <1>20, <1>21

(***************************************************************************)
(* The packets of a sweep over one or two entries.                          *)
(***************************************************************************)
LEMMA PacketsOfEntry ==
    ASSUME NEW e, LastStep(e) \in Nat, NEW n
    PROVE  /\ IsQueue(EntryPackets(e, n))
           /\ Len(EntryPackets(e, n)) = LastStep(e) + 1
<1> DEFINE l == LastStep(e) + 1
           P(k) == [dd |-> e.mode = "DD", centre |-> Centre(e, k - 1),
                    spp |-> e.spp,
                    inv |-> e.mode # "DD" /\ Centre(e, k - 1) >= InvertedFrom,
                    sweep |-> n]
           S == {P(k) : k \in 1 .. l}
<1>1. EntryPackets(e, n) = [k \in 1 .. l |-> P(k)]
  BY DEF EntryPackets
<1>2. l \in Nat /\ \A k \in 1 .. l : P(k) \in S
  OBVIOUS
<1> HIDE DEF P, S, l
<1>3. [k \in 1 .. l |-> P(k)] \in Seq(S) /\ Len([k \in 1 .. l |-> P(k)]) = l
  BY <1>2
<1> QED BY <1>1, <1>3 DEF IsQueue, l

\* A sweep list of two entries at most has at most three places to be at.
LEMMA UpToTwo ==
    ASSUME NEW l \in {1, 2}, NEW i \in 0 .. l
    PROVE  i = 0 \/ i = 1 \/ i = 2
  OBVIOUS

LEMMA SweepOfTwo ==
    ASSUME NEW list, NEW n, Len(list) \in {1, 2}
    PROVE  \E first : /\ first = <<>> \o EntryPackets(list[1], n)
                      /\ Len(list) = 1 => SweepOf(list, n) = first
                      /\ Len(list) = 2 =>
                            SweepOf(list, n) = first \o EntryPackets(list[2], n)
<1> DEFINE F(g) == [i \in 0 .. Len(list) |->
                       IF i = 0 THEN <<>>
                       ELSE g[i - 1] \o EntryPackets(list[i], n)]
           up == CHOOSE g : g = F(g)
<1>1. SweepOf(list, n) = up[Len(list)]
  BY DEF SweepOf
<1>2. \E g : g = F(g)
  <2> DEFINE first == <<>> \o EntryPackets(list[1], n)
             both == first \o EntryPackets(list[2], n)
             w == [i \in 0 .. Len(list) |->
                      IF i = 0 THEN <<>> ELSE IF i = 1 THEN first ELSE both]
  <2>1. ASSUME NEW i \in 0 .. Len(list)
        PROVE  w[i] = IF i = 0 THEN <<>>
                      ELSE w[i - 1] \o EntryPackets(list[i], n)
    <3>1. i = 0 \/ i = 1 \/ i = 2
      BY UpToTwo
    <3>2. CASE i = 0
      BY <3>2
    <3>3. CASE i = 1
      <4>1. w[i] = first /\ w[i - 1] = <<>>
        BY <3>3
      <4> QED BY Zenon, <3>3, <4>1
    <3>4. CASE i = 2
      <4>1. w[i] = both /\ w[i - 1] = first
        BY <3>4
      <4>2. i # 0
        BY <3>4
      <4> QED BY Zenon, <3>4, <4>1, <4>2
    <3> QED BY <3>1, <3>2, <3>3, <3>4
  <2>2. w = F(w)
    BY <2>1
  <2> QED BY <2>2
<1>3. up = F(up)
  BY Zenon, <1>2
<1> HIDE DEF up
<1>4. up[0] = <<>> /\ up[1] = up[0] \o EntryPackets(list[1], n)
  BY <1>3
<1>5. Len(list) = 2 => up[2] = up[1] \o EntryPackets(list[2], n)
  <2>1. ASSUME NEW i \in 1 .. Len(list), NEW j, j = i - 1
        PROVE  up[i] = up[j] \o EntryPackets(list[i], n)
    <3>1. i \in 0 .. Len(list) /\ i # 0
      BY <2>1
    <3>2. up[i] = IF i = 0 THEN <<>>
                  ELSE up[i - 1] \o EntryPackets(list[i], n)
      BY <1>3, <3>1
    <3> QED BY Zenon, <2>1, <3>1, <3>2
  <2> QED BY <2>1
<1> WITNESS up[1]
<1> QED BY <1>1, <1>4, <1>5

\* What the client counts on: as many packets as the steps of the entries.
LEMMA SweepPackets ==
    ASSUME NEW list, NEW n, Len(list) \in {1, 2},
           \A i \in 1 .. Len(list) : LastStep(list[i]) \in Nat
    PROVE  /\ IsQueue(SweepOf(list, n))
           /\ Len(list) = 1 => Len(SweepOf(list, n)) = LastStep(list[1]) + 1
           /\ Len(list) = 2 =>
                 Len(SweepOf(list, n)) =
                     LastStep(list[1]) + 1 + LastStep(list[2]) + 1
<1> DEFINE a == EntryPackets(list[1], n)
           b == EntryPackets(list[2], n)
           all == SweepOf(list, n)
<1>1. PICK first : /\ first = <<>> \o a
                   /\ Len(list) = 1 => all = first
                   /\ Len(list) = 2 => all = first \o b
  BY SweepOfTwo
<1>2. IsQueue(a) /\ Len(a) = LastStep(list[1]) + 1 /\ LastStep(list[1]) \in Nat
  BY PacketsOfEntry
<1>3. Len(list) = 2 =>
         IsQueue(b) /\ Len(b) = LastStep(list[2]) + 1 /\ LastStep(list[2]) \in Nat
  BY PacketsOfEntry
<1> HIDE DEF a, b, all
<1>4. IsQueue(first) /\ Len(first) = Len(a)
  <2>1. IsQueue(<<>>) /\ Len(<<>>) = 0
    BY Literals
  <2>2. IsJoin(first, <<>>, a)
    BY <1>1, <1>2, <2>1, Joined
  <2> QED BY <1>2, <2>1, <2>2 DEF IsJoin
<1>5. CASE Len(list) = 1
  BY <1>1, <1>2, <1>4, <1>5 DEF all
<1>6. CASE Len(list) = 2
  <2>1. IsJoin(all, first, b)
    BY <1>1, <1>3, <1>4, <1>6, Joined
  <2>2. IsQueue(all) /\ Len(all) = Len(first) + Len(b)
    BY <2>1 DEF IsJoin
  <2> QED BY <1>2, <1>3, <1>4, <1>6, <2>2 DEF all
<1> QED BY <1>5, <1>6

(***************************************************************************)
(* With nothing refused, lost or late: the load is as far as its script      *)
(* says, every packet still to be read is in the socket or on its way, and    *)
(* there is none before the sweep and after the last read.                  *)
(***************************************************************************)
ScriptFrom(k) ==
    /\ IsQueue(script) /\ Len(script) = Commands(pscfg) - k
    /\ \A i \in 1 .. Len(script) :
          script[i] = wsa_sweep_plan_load(pscfg)[k + i]

Loading == \E k \in 0 .. Commands(pscfg) : ScriptFrom(k) /\ Held(k)

Quiet == socket = <<>> /\ device.air = <<>>
OnItsWay ==
    /\ device.once
    /\ IsQueue(socket) /\ IsQueue(device.air)
    /\ Len(device.air) + Len(socket) + cap.count = pscfg.packet_total

Calm ==
    /\ DeviceShape
    /\ pc # "abort"
    /\ pc \in {"idle", "load", "measure", "ended"} => Quiet
    /\ pc = "load" => Loading
    /\ Planned => ~OneStepWide(pscfg)
    /\ pc = "read" => OnItsWay
    /\ pc \in {"measure", "ended"} /\ Planned => outcome.captured = "ok"

CalmInv == calm \in BOOLEAN /\ (calm => Calm)

\* The first command of a load is sent to whatever the instrument holds.
LEMMA ScriptBegins ==
    ASSUME script' = wsa_sweep_plan_load(pscfg')
    PROVE  0 \in 0 .. Commands(pscfg') /\ ScriptFrom(0)'
<1> DEFINE load == wsa_sweep_plan_load(pscfg')
           N == Commands(pscfg')
<1>1. IsQueue(script') /\ Len(script') = N
  BY CommandsAre
<1>2. N \in Nat
  BY DEF Commands, Before
<1>3. \A i \in 1 .. Len(script') : script'[i] = load[0 + i]
  BY <1>1, <1>2
<1>4. Len(script') = N - 0 /\ 0 \in 0 .. N
  BY <1>1, <1>2
<1> QED BY <1>1, <1>3, <1>4 DEF ScriptFrom

LEMMA LoadBegins ==
    ASSUME DeviceShape', script' = wsa_sweep_plan_load(pscfg')
    PROVE  Loading'
<1>1. Before(pscfg') \in {3, 6}
  BY DEF Before
<1>2. Held(0)'
  BY <1>1 DEF Held, TemplateHeld, ListHeld, DeviceShape
<1> QED BY <1>2, ScriptBegins DEF Loading

LEMMA ScriptGoesOn ==
    ASSUME NEW k \in 0 .. Commands(pscfg), ScriptFrom(k), script # <<>>,
           script' = Tail(script), pscfg' = pscfg
    PROVE  /\ k \in 0 .. Commands(pscfg) - 1 /\ k + 1 \in 0 .. Commands(pscfg)
           /\ Head(script) = wsa_sweep_plan_load(pscfg)[k + 1]
           /\ ScriptFrom(k + 1)'
<1> DEFINE load == wsa_sweep_plan_load(pscfg)
<1>1. /\ IsQueue(script) /\ Len(script) = Commands(pscfg) - k
      /\ \A i \in 1 .. Len(script) : script[i] = load[k + i]
  BY DEF ScriptFrom
<1>2. Commands(pscfg) \in Nat
  BY DEF Commands, Before
<1>3. /\ IsQueue(script') /\ Len(script') = Len(script) - 1
      /\ Head(script) = script[1]
      /\ \A i \in 1 .. Len(script) - 1 : script'[i] = script[i + 1]
  BY <1>1, Shifted
<1>4. Len(script) \in Nat \ {0}
  BY <1>1, QueueLengths
<1>5. k + 1 \in 0 .. Commands(pscfg) /\ k \in 0 .. Commands(pscfg) - 1
  BY <1>1, <1>2, <1>4
<1> HIDE DEF load
<1>6. Head(script) = load[k + 1]
  BY <1>1, <1>3, <1>4
<1>7. /\ Len(script') = Commands(pscfg) - (k + 1)
      /\ \A i \in 1 .. Len(script') : script'[i] = load[(k + 1) + i]
  <2>1. ASSUME NEW i \in 1 .. Len(script')
        PROVE  script'[i] = load[(k + 1) + i]
    <3>1. i \in Nat /\ i + 1 \in 1 .. Len(script) /\ k + (i + 1) = (k + 1) + i
      BY <1>3, <1>4, <2>1
    <3>2. script'[i] = script[i + 1]
      BY <1>3, <1>4, <2>1
    <3>3. script[i + 1] = load[k + (i + 1)]
      BY <1>1, <3>1
    <3> QED BY Zenon, <3>1, <3>2, <3>3
  <2> QED BY <1>1, <1>2, <1>3, <1>4, <2>1
<1>8. Commands(pscfg)' = Commands(pscfg) /\ load' = load
  BY DEF Commands, Before, load
<1> QED BY <1>3, <1>5, <1>6, <1>7, <1>8 DEF ScriptFrom, load

LEMMA LoadGoesOn ==
    ASSUME DeviceShape, Loading, script # <<>>, script' = Tail(script),
           device' = DeviceExecutes(Head(script)), pscfg' = pscfg
    PROVE  DeviceShape' /\ Loading' /\ device'.air = device.air
<1>1. PICK k \in 0 .. Commands(pscfg) : ScriptFrom(k) /\ Held(k)
  BY DEF Loading
<1>2. /\ k \in 0 .. Commands(pscfg) - 1 /\ k + 1 \in 0 .. Commands(pscfg)
      /\ Head(script) = wsa_sweep_plan_load(pscfg)[k + 1]
      /\ ScriptFrom(k + 1)'
  BY <1>1, ScriptGoesOn
<1>3. DeviceShape' /\ Held(k + 1)' /\ device'.air = device.air
  BY <1>1, <1>2, HeldStep
<1>4. Commands(pscfg)' = Commands(pscfg)
  BY DEF Commands, Before
<1> QED BY <1>2, <1>3, <1>4 DEF Loading

\* What the instrument has when a plan was loaded.
LEMMA LoadedList ==
    ASSUME PlanInv, Planned, Loading, script = <<>>
    PROVE  LET saved == IF pscfg.dd_mode THEN 1 ELSE 0 IN
           /\ device.once
           /\ Len(device.list) = saved + (IF pscfg.only_dd THEN 0 ELSE 1)
           /\ saved = 1 => IsDd(device.list[1])
           /\ ~pscfg.only_dd => IsMain(device.list[saved + 1])
           /\ LastStep(pscfg.entry) \in Nat
           /\ pscfg.only_dd => pscfg.dd_mode
<1> DEFINE list == device.list
           saved == IF pscfg.dd_mode THEN 1 ELSE 0
           N == Commands(pscfg)
<1>1. Held(N)
  <2>1. PICK k \in 0 .. Commands(pscfg) :
           Len(script) = Commands(pscfg) - k /\ Held(k)
    BY DEF Loading, ScriptFrom
  <2>2. Len(script) = 0 /\ Commands(pscfg) \in Nat
    BY Literals DEF Commands, Before
  <2>3. k = N
    BY <2>1, <2>2
  <2> QED BY <2>1, <2>3
<1>2. /\ N >= 7 /\ SavedOf(N) = saved
      /\ pscfg.only_dd => ~AllSaved(N)
      /\ ~pscfg.only_dd => AllSaved(N)
  BY DEF Commands, Before, SavedOf, AllSaved
<1>3. /\ device.once
      /\ Len(list) = saved + (IF pscfg.only_dd THEN 0 ELSE 1)
      /\ saved = 1 => IsDd(list[1])
      /\ ~pscfg.only_dd => IsMain(list[saved + 1])
  <2>1. N >= 3 /\ N >= 1
    BY <1>2 DEF Commands, Before
  <2> HIDE DEF N, saved, list
  <2> QED BY <1>1, <1>2, <2>1 DEF Held, ListHeld, list
<1>4. PICK q \in Requests, err \in FloatErrors : MadeFor(q, err)
  BY DEF PlanInv
<1>5. LastStep(pscfg.entry) \in Nat
  BY <1>4, EntryFacts, DivBounds DEF LastStep
<1>6. pscfg.only_dd => pscfg.dd_mode
  BY <1>4, FieldsOf DEF OnlyDd
<1> HIDE DEF saved, list
<1> QED BY <1>3, <1>5, <1>6 DEF saved, list

\* A plan that was loaded is swept in as many packets as are waited for.
LEMMA LoadedPackets ==
    ASSUME PlanInv, Planned, ~OneStepWide(pscfg), Loading, script = <<>>, NEW n
    PROVE  /\ device.once /\ IsQueue(SweepOf(device.list, n))
           /\ Len(SweepOf(device.list, n)) = pscfg.packet_total
<1> DEFINE list == device.list
           saved == IF pscfg.dd_mode THEN 1 ELSE 0
<1>3. /\ device.once
      /\ Len(list) = saved + (IF pscfg.only_dd THEN 0 ELSE 1)
      /\ saved = 1 => IsDd(list[1])
      /\ ~pscfg.only_dd => IsMain(list[saved + 1])
  BY LoadedList
<1>5. LastStep(pscfg.entry) \in Nat
  BY LoadedList
<1>6. pscfg.only_dd => pscfg.dd_mode
  BY LoadedList
<1>7. \/ pscfg.only_dd /\ pscfg.packet_total = 1
      \/ /\ ~pscfg.only_dd
         /\ pscfg.packet_total = saved + LastStep(pscfg.entry) + 1
  BY PlanAgrees DEF PacketsAgree, OneStepWide
<1>8. ~pscfg.only_dd => LastStep(list[saved + 1]) = LastStep(pscfg.entry)
  BY <1>3 DEF IsMain, LastStep
<1>9. saved = 1 => LastStep(list[1]) = 0
  BY <1>3 DEF IsDd, OneStep
<1>10. saved \in {0, 1} /\ (pscfg.only_dd => saved = 1)
  BY <1>6
<1> HIDE DEF list, saved
<1>11. CASE pscfg.only_dd
  <2>1. Len(list) = 1 /\ LastStep(list[1]) = 0
    BY <1>3, <1>9, <1>10, <1>11
  <2>2. \A i \in 1 .. Len(list) : LastStep(list[i]) \in Nat
    BY <2>1
  <2>3. IsQueue(SweepOf(list, n)) /\ Len(SweepOf(list, n)) = 1
    <3>1. /\ IsQueue(SweepOf(list, n))
          /\ Len(SweepOf(list, n)) = LastStep(list[1]) + 1
      <4>1. Len(list) \in {1, 2}
        BY <2>1
      <4>2. IsQueue(SweepOf(list, n))
        BY <2>2, <4>1, SweepPackets
      <4>3. Len(SweepOf(list, n)) = LastStep(list[1]) + 1
        <5>1. Len(list) = 1
          BY <2>1
        <5> QED BY <2>2, <5>1, SweepPackets
      <4> QED BY <4>2, <4>3
    <3> QED BY <2>1, <3>1
  <2> QED BY <1>3, <1>7, <1>11, <2>3 DEF list
<1>12. CASE ~pscfg.only_dd /\ saved = 0
  <2>1. Len(list) = 1 /\ LastStep(list[1]) = LastStep(pscfg.entry)
    BY <1>3, <1>8, <1>12
  <2>2. \A i \in 1 .. Len(list) : LastStep(list[i]) \in Nat
    BY <1>5, <2>1
  <2>3. /\ IsQueue(SweepOf(list, n))
        /\ Len(SweepOf(list, n)) = LastStep(pscfg.entry) + 1
    BY <2>1, <2>2, SweepPackets
  <2> QED BY <1>3, <1>5, <1>7, <1>12, <2>3 DEF list
<1>13. CASE ~pscfg.only_dd /\ saved = 1
  <2>1. /\ Len(list) = 2 /\ LastStep(list[1]) = 0
        /\ LastStep(list[2]) = LastStep(pscfg.entry)
    BY <1>3, <1>8, <1>9, <1>13
  <2>2. \A i \in 1 .. Len(list) : LastStep(list[i]) \in Nat
    BY <1>5, <2>1
  <2>3. /\ IsQueue(SweepOf(list, n))
        /\ Len(SweepOf(list, n)) = 1 + LastStep(pscfg.entry) + 1
    BY <1>5, <2>1, <2>2, SweepPackets
  <2> QED BY <1>3, <1>5, <1>7, <1>13, <2>3 DEF list
<1> QED BY <1>10, <1>11, <1>12, <1>13

LEMMA CalmInit == CaptureInit => CalmInv
<1> SUFFICES ASSUME CaptureInit PROVE CalmInv
  OBVIOUS
<1>1. DeviceShape
  BY OneStepTemplate DEF CaptureInit, DeviceShape
<1> QED BY <1>1 DEF CaptureInit, PlanInit, NoCfg, Planned, CalmInv, Calm, Quiet

LEMMA CalmStep == Inv /\ CalmInv /\ [CaptureNext]_capVars => CalmInv'
<1> SUFFICES ASSUME Inv, CalmInv, [CaptureNext]_capVars PROVE CalmInv'
  OBVIOUS
<1>1. PlanInv /\ CaptureInv
  BY DEF Inv
<1>2. calm \in BOOLEAN /\ (calm => Calm)
  BY DEF CalmInv
<1>3. ASSUME pscfg' = pscfg
      PROVE  /\ Planned' <=> Planned
             /\ OneStepWide(pscfg)' <=> OneStepWide(pscfg)
  BY <1>3 DEF Planned, OneStepWide
<1>4. ASSUME NEW q \in Requests, Measure(q) PROVE CalmInv'
  <2>1. /\ pc = "idle" /\ device' = device /\ socket' = socket
        /\ calm' \in BOOLEAN /\ (calm' => calm)
    BY <1>2, <1>4 DEF Measure
  <2>2. SUFFICES ASSUME calm' PROVE Calm'
    BY <2>1 DEF CalmInv
  <2>3. Calm /\ Quiet'
    BY <1>2, <2>1, <2>2 DEF Calm, Quiet
  <2>4. DeviceShape'
    BY <2>1, <2>3 DEF Calm, DeviceShape
  <2>5. CASE pscfg'.status = "ok"
    <3>1. /\ pc' = "load" /\ script' = wsa_sweep_plan_load(pscfg')
          /\ calm' = (calm /\ ~OneStepWide(pscfg'))
      BY <1>4, <2>5 DEF Measure
    <3>2. ~OneStepWide(pscfg')
      BY <2>2, <3>1
    <3>3. Loading'
      <4>1. DeviceShape' /\ script' = wsa_sweep_plan_load(pscfg)'
        BY <2>4, <3>1
      <4> QED BY <4>1, LoadBegins
    <3> QED BY <2>3, <2>4, <3>1, <3>2, <3>3 DEF Calm
  <2>6. CASE pscfg'.status # "ok"
    BY <1>4, <2>3, <2>4, <2>6 DEF Measure, Calm, Planned
  <2> QED BY <2>5, <2>6
<1>15. CASE IdentityLost
  BY <1>15 DEF IdentityLost, CalmInv
<1>5. CASE LoadCommand
  <2>1. /\ pc = "load" /\ pc' = "load" /\ script # <<>>
        /\ script' = Tail(script) /\ socket' = socket /\ pscfg' = pscfg
        /\ calm' \in BOOLEAN /\ (calm' => calm)
        /\ calm' => device' = DeviceExecutes(Head(script))
    <3> DEFINE done == device' = DeviceExecutes(Head(script))
    <3>1. (done /\ calm' = calm) \/ calm' = FALSE
      BY <1>5 DEF LoadCommand
    <3> HIDE DEF done
    <3>2. calm' \in BOOLEAN /\ (calm' => calm) /\ (calm' => done)
      <4>1. CASE calm' = FALSE
        BY <4>1
      <4>2. CASE done /\ calm' = calm
        BY <1>2, <4>2
      <4> QED BY <3>1, <4>1, <4>2
    <3>3. /\ pc = "load" /\ pc' = "load" /\ script # <<>>
          /\ script' = Tail(script) /\ socket' = socket /\ pscfg' = pscfg
      BY <1>5 DEF LoadCommand
    <3> QED BY <3>2, <3>3 DEF done
  <2>2. SUFFICES ASSUME calm' PROVE Calm'
    BY <2>1 DEF CalmInv
  <2>3. Calm /\ device' = DeviceExecutes(Head(script))
    BY <1>2, <2>1, <2>2
  <2>4. DeviceShape' /\ Loading' /\ device'.air = device.air
    BY <2>1, <2>3, LoadGoesOn DEF Calm
  <2>5. Quiet'
    BY <2>1, <2>3, <2>4 DEF Calm, Quiet
  <2> QED BY <1>3, <2>1, <2>3, <2>4, <2>5 DEF Calm
<1>6. CASE StartCapture
  <2>1. /\ pc = "load" /\ pc' = "read" /\ script = <<>> /\ socket' = socket
        /\ pscfg' = pscfg /\ cap'.count = 0
        /\ calm' \in BOOLEAN /\ (calm' => calm)
        /\ calm' => device' = [device EXCEPT !.air =
                                  SweepOf(device.list, sweeps + 1)]
    <3> DEFINE done == device' = [device EXCEPT !.air =
                                     SweepOf(device.list, sweeps + 1)]
    <3>1. (done /\ calm' = calm) \/ calm' = FALSE
      BY <1>6 DEF StartCapture
    <3> HIDE DEF done
    <3>2. calm' \in BOOLEAN /\ (calm' => calm) /\ (calm' => done)
      <4>1. CASE calm' = FALSE
        BY <4>1
      <4>2. CASE done /\ calm' = calm
        BY <1>2, <4>2
      <4> QED BY <3>1, <4>1, <4>2
    <3>3. /\ pc = "load" /\ pc' = "read" /\ script = <<>> /\ socket' = socket
          /\ pscfg' = pscfg /\ cap'.count = 0
      BY <1>6 DEF StartCapture, NoCapture
    <3> QED BY <3>2, <3>3 DEF done
  <2>2. SUFFICES ASSUME calm' PROVE Calm'
    BY <2>1 DEF CalmInv
  <2>3. Calm /\ Planned
    BY <1>1, <1>2, <2>1, <2>2 DEF CaptureInv
  <2>4. /\ DeviceShape' /\ device'.once = device.once
        /\ device'.air = SweepOf(device.list, sweeps + 1)
    BY <2>1, <2>2, <2>3 DEF Calm, DeviceShape
  <2>5. /\ device.once /\ IsQueue(device'.air)
        /\ Len(device'.air) = pscfg.packet_total
    BY <1>1, <2>1, <2>3, <2>4, LoadedPackets DEF Calm
  <2>6. IsQueue(socket') /\ Len(socket') = 0
    BY <2>1, <2>3, Literals DEF Calm, Quiet
  <2>7. pscfg.packet_total \in Nat
    BY <1>1, <2>3, SomePacket
  <2>8. OnItsWay'
    BY <2>1, <2>4, <2>5, <2>6, <2>7 DEF OnItsWay
  <2> QED BY <1>3, <2>1, <2>3, <2>4, <2>8 DEF Calm
<1>7. CASE ReadPacket
  <2>1. /\ pc = "read" /\ socket # <<>> /\ socket' = Tail(socket)
        /\ pscfg' = pscfg /\ device' = device /\ calm' = calm
        /\ cap'.count = cap.count + 1
        /\ \/ LastPacket /\ pc' = "measure" /\ outcome'.captured = "ok"
           \/ ~LastPacket /\ pc' = "read"
    BY <1>1, <1>7 DEF ReadPacket, Paste, CaptureInv
  <2>2. SUFFICES ASSUME calm PROVE Calm'
    BY <1>2, <2>1 DEF CalmInv
  <2>3. /\ Calm /\ Planned /\ OnItsWay
        /\ cap.count \in 0 .. pscfg.packet_total - 1
    BY <1>1, <1>2, <2>1, <2>2 DEF CaptureInv, Calm
  <2>4. pscfg.packet_total \in Nat
    BY <1>1, <2>3, SomePacket
  <2>5. /\ IsQueue(socket') /\ Len(socket') = Len(socket) - 1
        /\ Len(socket) \in Nat /\ Len(device.air) \in Nat
    BY <2>1, <2>3, Shifted, QueueLengths DEF OnItsWay
  <2>6. Len(device.air) + Len(socket') + cap'.count = pscfg.packet_total
    BY <2>1, <2>3, <2>4, <2>5 DEF OnItsWay
  <2>7. DeviceShape'
    BY <2>1, <2>3 DEF Calm, DeviceShape
  <2>8. CASE LastPacket /\ pc' = "measure" /\ outcome'.captured = "ok"
    <3>1. cap'.count = pscfg.packet_total
      BY <2>1, <2>3, <2>4, <2>8 DEF LastPacket
    <3>2. Len(socket') \in Nat
      BY <2>5, QueueLengths
    <3>3. Len(device.air) = 0 /\ Len(socket') = 0
      BY <2>4, <2>5, <2>6, <3>1, <3>2
    <3>4. Quiet'
      BY <2>1, <2>3, <2>5, <3>3, QueueLengths DEF OnItsWay, Quiet
    <3> QED BY <1>3, <2>1, <2>3, <2>7, <2>8, <3>4 DEF Calm
  <2>9. CASE ~LastPacket /\ pc' = "read"
    <3>1. OnItsWay'
      BY <2>1, <2>3, <2>5, <2>6 DEF OnItsWay
    <3> QED BY <1>3, <2>1, <2>3, <2>7, <2>9, <3>1 DEF Calm
  <2> QED BY <2>1, <2>8, <2>9
<1>8. CASE ReadTimeout
  <2>1. /\ pc = "read" /\ socket = <<>>
        /\ calm' \in BOOLEAN /\ (calm' => calm /\ device.air = <<>>)
    BY <1>2, <1>8 DEF ReadTimeout, TimedOut
  <2>2. ASSUME calm' PROVE FALSE
    <3>1. OnItsWay /\ Planned /\ cap.count \in 0 .. pscfg.packet_total - 1
      BY <1>1, <1>2, <2>1, <2>2 DEF Calm, CaptureInv
    <3>2. Len(socket) = 0 /\ Len(device.air) = 0
      BY <2>1, <2>2, Literals
    <3>3. pscfg.packet_total \in Nat
      BY <1>1, <3>1, SomePacket
    <3> QED BY <3>1, <3>2, <3>3 DEF OnItsWay
  <2> QED BY <2>1, <2>2 DEF CalmInv
<1>9. CASE AbortCapture
  <2>1. pc = "abort" /\ calm' \in BOOLEAN /\ (calm' => calm)
    <3>1. pc = "abort" /\ (calm' = calm \/ calm' = FALSE)
      BY <1>9 DEF AbortCapture
    <3>2. CASE calm' = FALSE
      BY <3>1, <3>2
    <3>3. CASE calm' = calm
      BY <1>2, <3>1, <3>3
    <3> QED BY <3>1, <3>2, <3>3
  <2> QED BY <1>2, <2>1 DEF CalmInv, Calm
<1>10. CASE ReadError
  BY <1>10 DEF ReadError, CalmInv
<1>11. CASE peak_find \/ calculate_channel_power
  <2>1. /\ pc = "measure" /\ pc' \in {"crashed", "ended"}
        /\ outcome'.captured = outcome.captured
        /\ pscfg' = pscfg /\ device' = device /\ socket' = socket
        /\ calm' = calm
    BY <1>1, <1>11 DEF peak_find, calculate_channel_power, CaptureInv
  <2>2. Quiet' <=> Quiet
    BY <2>1 DEF Quiet
  <2>3. DeviceShape' <=> DeviceShape
    BY <2>1 DEF DeviceShape
  <2> QED BY <1>2, <1>3, <2>1, <2>2, <2>3 DEF CalmInv, Calm
<1>12. CASE Return
  <2>1. /\ pc = "ended" /\ pc' = "idle" /\ ~Planned'
        /\ device' = device /\ socket' = socket /\ calm' = calm
    BY <1>12 DEF Return, wsa_power_spectrum_free, Planned, NoCfg
  <2>2. Quiet' <=> Quiet
    BY <2>1 DEF Quiet
  <2>3. DeviceShape' <=> DeviceShape
    BY <2>1 DEF DeviceShape
  <2> QED BY <1>2, <2>1, <2>2, <2>3 DEF CalmInv, Calm
<1>13. CASE DeviceSends
  <2>1. /\ device.air # <<>> /\ socket' = Append(socket, Head(device.air))
        /\ device' = [device EXCEPT !.air =
                         IF Len(@) = 1 /\ ~device.once
                           THEN SweepOf(device.list, sweeps) ELSE Tail(@)]
        /\ pscfg' = pscfg /\ pc' = pc /\ cap' = cap /\ outcome' = outcome
        /\ calm' = calm
    BY <1>13 DEF DeviceSends
  <2>2. SUFFICES ASSUME calm PROVE Calm'
    BY <1>2, <2>1 DEF CalmInv
  <2>3. Calm /\ ~Quiet
    BY <1>2, <2>1, <2>2 DEF Quiet
  <2>4. /\ DeviceShape' /\ device'.once = device.once
        /\ device.once => device'.air = Tail(device.air)
    BY <2>1, <2>3 DEF Calm, DeviceShape
  <2>5. CASE pc = "read"
    <3>1. OnItsWay /\ Planned /\ cap.count \in 0 .. pscfg.packet_total - 1
      BY <1>1, <2>3, <2>5 DEF Calm, CaptureInv
    <3>2. pscfg.packet_total \in Nat
      BY <1>1, <3>1, SomePacket
    <3>3. IsQueue(device'.air) /\ Len(device'.air) = Len(device.air) - 1
      BY <2>1, <2>4, <3>1, Shifted DEF OnItsWay
    <3>4. IsQueue(socket') /\ Len(socket') = Len(socket) + 1
      BY <2>1, <3>1, Appended DEF OnItsWay
    <3>5. Len(device.air) \in Nat /\ Len(socket) \in Nat
      BY <3>1, QueueLengths DEF OnItsWay
    <3>6. Len(device'.air) + Len(socket') + cap'.count = pscfg'.packet_total
      <4>1. cap.count \in Nat /\ cap'.count = cap.count
        BY <2>1, <3>1
      <4>2. Len(device.air) + Len(socket) + cap.count = pscfg.packet_total
        BY <3>1 DEF OnItsWay
      <4>3. Len(device'.air) + Len(socket') = Len(device.air) + Len(socket)
        <5> DEFINE a == Len(device.air)
                   w == Len(socket)
                   b == Len(device'.air)
                   v == Len(socket')
        <5>1. a \in Nat /\ w \in Nat /\ b = a - 1 /\ v = w + 1
          BY <3>3, <3>4, <3>5
        <5> HIDE DEF a, w, b, v
        <5>2. b + v = a + w
          BY <5>1
        <5> QED BY <5>2 DEF a, w, b, v
      <4> QED BY <2>1, <4>1, <4>2, <4>3
    <3>7. OnItsWay'
      BY <2>4, <3>1, <3>3, <3>4, <3>6 DEF OnItsWay
    <3> QED BY <1>3, <2>1, <2>3, <2>4, <2>5, <3>7 DEF Calm
  <2>6. CASE pc # "read"
    BY <1>1, <1>3, <2>1, <2>3, <2>4, <2>6 DEF Calm, CaptureInv
  <2> QED BY <2>5, <2>6
<1>14. CASE UNCHANGED capVars
  <2>1. /\ pscfg' = pscfg /\ pc' = pc /\ script' = script /\ device' = device
        /\ socket' = socket /\ cap' = cap /\ outcome' = outcome
        /\ calm' = calm
    BY <1>14 DEF capVars
  <2>2. Quiet' <=> Quiet
    BY <2>1 DEF Quiet
  <2>3. DeviceShape' <=> DeviceShape
    BY <2>1 DEF DeviceShape
  <2>4. OnItsWay' <=> OnItsWay
    BY <2>1 DEF OnItsWay
  <2>5. Loading' <=> Loading
    BY <2>1 DEF Loading, ScriptFrom, Held, TemplateHeld, ListHeld, SavedOf, AllSaved,
                Before, Commands, IsMain, IsDd, OneStep, LastStep
  <2>6. Calm' <=> Calm
    BY <1>3, <2>1, <2>2, <2>3, <2>4, <2>5 DEF Calm
  <2> QED BY <1>2, <2>1, <2>6 DEF CalmInv
<1> QED BY <1>4, <1>5, <1>6, <1>7, <1>8, <1>9, <1>10, <1>11, <1>12, <1>13,
           <1>14, <1>15 DEF CaptureNext, ClientNext

\* With nothing refused, lost or late, a measurement takes every packet of its
\* sweep: none is left in the socket or at the instrument for the next one.
THEOREM EveryPacketTaken == CaptureSpec => []NothingLeft
<1>1. CalmInv => NothingLeft
  BY DEF CalmInv, Calm, NothingLeft, Quiet
<1> QED BY <1>1, InvInit, InvNext, CalmInit, CalmStep, PTL DEF CaptureSpec

(***************************************************************************)
(* A sweep over a list of any length, entry by entry: by the least length    *)
(* for which it would go wrong.                                             *)
(***************************************************************************)
LEMMA Least ==
    ASSUME NEW T \in SUBSET Nat, T # {}
    PROVE  \E k \in T : \A j \in T : k <= j
<1> DEFINE R == OpToRel(<, Nat)
<1>1. \A x, y \in Nat : x < y => <<x, y>> \in R
  BY Zenon DEF OpToRel
<1>2. IsWellFoundedOn(R, Nat)
  BY NatLessThanWellFounded, Zenon
<1> HIDE DEF R
<1>3. PICK k \in T : \A j \in T : ~(<<j, k>> \in R)
  BY <1>2, WFMin
<1>4. \A j \in T : ~ (j < k)
  BY <1>1, <1>3
<1> QED BY <1>3, <1>4

LEMMA UpTo ==
    ASSUME NEW T, 0 \in T, \A n \in Nat : n \in T => n + 1 \in T
    PROVE  \A n \in Nat : n \in T
<1> DEFINE Out == {n \in Nat : n \notin T}
<1>1. CASE Out = {}
  BY <1>1
<1>2. CASE Out # {}
  <2>1. PICK k \in Out : \A j \in Out : k <= j
    BY <1>2, Least
  <2>2. k \in Nat /\ k # 0
    BY <2>1
  <2>3. k - 1 \in Nat /\ k - 1 \in T
    BY <2>1, <2>2
  <2>4. (k - 1) + 1 = k
    BY <2>2
  <2> QED BY <2>1, <2>3, <2>4
<1> QED BY <1>1, <1>2

LEMMA SweepIn ==
    ASSUME NEW list, Len(list) \in Nat, NEW n, NEW S,
           \A i \in 1 .. Len(list) : EntryPackets(list[i], n) \in Seq(S)
    PROVE  SweepOf(list, n) \in Seq(S)
<1> DEFINE L == Len(list)
           Next1(g, i) == IF i = 0 THEN <<>>
                          ELSE g[i - 1] \o EntryPackets(list[i], n)
           F(g) == [i \in 0 .. L |-> Next1(g, i)]
           up == CHOOSE g : g = F(g)
           Far(m) == \E g \in [0 .. m -> Seq(S)] :
                        \A i \in 0 .. m : g[i] = Next1(g, i)
           Good == {m \in Nat : m <= L => Far(m)}
<1>1. SweepOf(list, n) = up[L]
  BY DEF SweepOf
<1>2. 0 \in Good
  <2> DEFINE g == [i \in 0 .. 0 |-> <<>>]
  <2>1. g \in [0 .. 0 -> Seq(S)] /\ \A i \in 0 .. 0 : g[i] = Next1(g, i)
    OBVIOUS
  <2>2. Far(0)
    BY <2>1
  <2> HIDE DEF Far
  <2> QED BY <2>2
<1>3. ASSUME NEW m \in Nat, m \in Good
      PROVE  m + 1 \in Good
  <2> SUFFICES ASSUME m + 1 <= L PROVE Far(m + 1)
    <3> HIDE DEF Far
    <3> QED OBVIOUS
  <2>0. Far(m)
    <3> HIDE DEF Far
    <3> QED BY <1>3
  <2>1. PICK g \in [0 .. m -> Seq(S)] : \A i \in 0 .. m : g[i] = Next1(g, i)
    BY Zenon, <2>0
  <2> DEFINE h == [i \in 0 .. m + 1 |->
                      IF i = m + 1 THEN g[m] \o EntryPackets(list[m + 1], n)
                      ELSE g[i]]
  <2>2. m + 1 \in 1 .. L /\ m \in 0 .. m
    OBVIOUS
  <2>3. g[m] \o EntryPackets(list[m + 1], n) \in Seq(S)
    BY <2>2
  <2>4. h \in [0 .. m + 1 -> Seq(S)]
    BY <2>3
  <2>5. ASSUME NEW i \in 0 .. m + 1
        PROVE  h[i] = Next1(h, i)
    <3>1. CASE i = m + 1
      <4>1. h[i] = g[m] \o EntryPackets(list[m + 1], n)
        BY <3>1
      <4>2. i # 0 /\ i - 1 = m /\ h[m] = g[m]
        BY <2>2, <3>1
      <4> HIDE DEF h
      <4>3. Next1(h, i) = h[m] \o EntryPackets(list[i], n)
        BY Zenon, <4>2
      <4> QED BY Zenon, <3>1, <4>1, <4>2, <4>3
    <3>2. CASE i # m + 1
      <4>0. i \in 0 .. m
        BY <3>2
      <4>1. i \in 0 .. m /\ h[i] = g[i] /\ g[i] = Next1(g, i)
        <5>1. g[i] = Next1(g, i)
          BY Zenon, <2>1, <4>0
        <5>2. h[i] = g[i]
          BY <3>2
        <5> QED BY Zenon, <4>0, <5>1, <5>2
      <4>2. i # 0 => i - 1 \in 0 .. m + 1 /\ i - 1 # m + 1
        BY <3>2
      <4>3. i # 0 => h[i - 1] = g[i - 1]
        BY <4>2
      <4> HIDE DEF h
      <4>4. Next1(h, i) = Next1(g, i)
        BY Zenon, <4>3
      <4> QED BY <4>1, <4>4
    <3> QED BY <3>1, <3>2
  <2> HIDE DEF h
  <2> QED BY <2>4, <2>5
<1>4. PICK g \in [0 .. L -> Seq(S)] : \A i \in 0 .. L : g[i] = Next1(g, i)
  <2> HIDE DEF Good
  <2>1. L \in Good
    BY <1>2, <1>3, UpTo
  <2> HIDE DEF Far
  <2>2. Far(L)
    BY <2>1 DEF Good
  <2> QED BY Zenon, <2>2 DEF Far
<1>5. g = F(g)
  BY <1>4
<1>6. up = F(up)
  BY Zenon, <1>5
<1> HIDE DEF up
<1> DEFINE In == {m \in Nat : m <= L => up[m] \in Seq(S)}
<1>7. 0 \in In
  <2>1. up[0] = Next1(up, 0)
    BY <1>6
  <2>2. up[0] = <<>>
    BY Zenon, <2>1
  <2>3. <<>> \in Seq(S)
    OBVIOUS
  <2>4. up[0] \in Seq(S)
    BY Zenon, <2>2, <2>3
  <2> QED BY <2>4
<1>8. ASSUME NEW m \in Nat, m \in In
      PROVE  m + 1 \in In
  <2> SUFFICES ASSUME m + 1 <= L PROVE up[m + 1] \in Seq(S)
    OBVIOUS
  <2>1. m + 1 \in 1 .. L /\ up[m] \in Seq(S)
    BY <1>8
  <2>2. up[m + 1] = up[m] \o EntryPackets(list[m + 1], n)
    <3>1. m + 1 \in 0 .. L /\ m + 1 # 0 /\ (m + 1) - 1 = m
      BY <2>1
    <3>2. up[m + 1] = Next1(up, m + 1)
      BY <1>6, <3>1
    <3> QED BY Zenon, <3>1, <3>2
  <2> QED BY <2>1, <2>2
<1>9. L \in In
  <2> HIDE DEF In
  <2> QED BY <1>7, <1>8, UpTo
<1> QED BY <1>1, <1>9

(***************************************************************************)
(* The arithmetic of the blocks: division, the counters that wrap, and the   *)
(* number of bins copied.                                                   *)
(***************************************************************************)
LEMMA DivMonotone ==
    ASSUME NEW a \in Nat, NEW b \in Nat, NEW r \in Nat \ {0},
           NEW s \in Nat \ {0}, a <= b, s <= r
    PROVE  a \div r <= b \div s
<1> DEFINE x == a \div r
           y == b \div s
<1>1. x \in Nat /\ x * r <= a /\ y \in Nat /\ b < y * s + s
  BY DivBounds
<1> HIDE DEF x, y
<1> SUFFICES ASSUME x >= y + 1 PROVE FALSE
  BY <1>1 DEF x, y
<1>2. x * r >= (y + 1) * r
  BY <1>1, Z3
<1>3. (y + 1) * r >= (y + 1) * s
  BY <1>1, Z3
<1>4. (y + 1) * s = y * s + s
  BY <1>1, Z3
<1>5. x * r \in Nat /\ (y + 1) * r \in Nat /\ y * s \in Nat
  BY <1>1
<1> QED BY <1>1, <1>2, <1>3, <1>4, <1>5

LEMMA Wraps ==
    ASSUME NEW x \in Int
    PROVE  /\ Wrap(x) \in 0 .. Word - 1
           /\ x \in 0 .. Word - 1 => Wrap(x) = x
           /\ x \in -Word .. -1 => Wrap(x) = x + Word
           /\ x \in Word .. 2 * Word - 1 => Wrap(x) = x - Word
<1>1. Word \in Nat \ {0}
  BY CaptureAssumption
<1>2. Wrap(x) \in 0 .. Word - 1
  BY <1>1 DEF Wrap
<1>3. ASSUME NEW w \in Nat \ {0}, NEW k \in Int, k \in 0 .. w - 1
      PROVE  k % w = k /\ (k - w) % w = k /\ (k + w) % w = k
  BY <1>3, Z3
<1>4. ASSUME NEW k \in 0 .. Word - 1
      PROVE  Wrap(k) = k /\ Wrap(k - Word) = k /\ Wrap(k + Word) = k
  BY <1>1, <1>3 DEF Wrap
<1>5. x \in -Word .. -1 => Wrap(x) = x + Word
  <2> SUFFICES ASSUME x \in -Word .. -1 PROVE Wrap(x) = x + Word
    OBVIOUS
  <2>1. x + Word \in 0 .. Word - 1 /\ (x + Word) - Word = x
    BY <1>1
  <2> QED BY <1>4, <2>1
<1>6. x \in Word .. 2 * Word - 1 => Wrap(x) = x - Word
  <2> SUFFICES ASSUME x \in Word .. 2 * Word - 1 PROVE Wrap(x) = x - Word
    OBVIOUS
  <2>1. x - Word \in 0 .. Word - 1 /\ (x - Word) + Word = x
    BY <1>1
  <2> QED BY <1>4, <2>1
<1> QED BY <1>2, <1>4, <1>5, <1>6

LEMMA LeastOfThree ==
    ASSUME NEW a \in Int, NEW b \in Int, NEW c \in Int
    PROVE  LET m == Min({a, b, c}) IN
           m \in Int /\ m <= a /\ m <= b /\ m <= c /\ m \in {a, b, c}
<1> DEFINE S == {a, b, c}
           Low(x) == x \in S /\ \A y \in S : x =< y
<1>1. \E x : Low(x)
  <2>1. CASE a <= b /\ a <= c
    BY <2>1
  <2>2. CASE b <= a /\ b <= c
    BY <2>2
  <2>3. CASE c <= a /\ c <= b
    BY <2>3
  <2> QED BY <2>1, <2>2, <2>3
<1>2. Low(CHOOSE x : Low(x))
  <2> HIDE DEF Low
  <2> QED BY Zenon, <1>1
<1>3. Min(S) = CHOOSE x : Low(x)
  BY DEF Min
<1>4. Low(Min(S))
  BY Zenon, <1>2, <1>3
<1> QED BY <1>4

LEMMA NotBelowZero ==
    ASSUME NEW m \in Int
    PROVE  Max({0, m}) = IF m >= 0 THEN m ELSE 0
<1> DEFINE S == {0, m}
           High(x) == x \in S /\ \A y \in S : x >= y
<1>1. \E x : High(x)
  <2>1. CASE m >= 0
    BY <2>1
  <2>2. CASE m < 0
    BY <2>2
  <2> QED BY <2>1, <2>2
<1>2. High(CHOOSE x : High(x))
  <2> HIDE DEF High
  <2> QED BY Zenon, <1>1
<1>3. Max(S) = CHOOSE x : High(x)
  BY DEF Max
<1>4. High(Max(S))
  BY Zenon, <1>2, <1>3
<1> QED BY <1>4

\* What is copied of a block is no more than the block, the packet from the
\* block's first bin on, and the buffer from the offset on.
LEMMA CopiedBounds ==
    ASSUME NEW pkt, pkt.spp \in Nat, NEW block, block.len \in Nat,
           block.first \in Int, block.offset \in Int, pscfg.buflen \in Int
    PROVE  LET n == Copied(pkt, block)
               left == pkt.spp \div 2 - block.first + 1
               room == pscfg.buflen - block.offset + 1 IN
           /\ n \in Nat /\ n <= block.len
           /\ n > 0 => n <= left /\ n <= room
           /\ n < block.len => n >= left \/ n >= room
<1> DEFINE left == pkt.spp \div 2 - block.first + 1
           room == pscfg.buflen - block.offset + 1
           m == Min({block.len, left, room})
<1>1. left \in Int /\ room \in Int /\ block.len \in Int
  OBVIOUS
<1>2. Copied(pkt, block) = Max({0, m})
  BY DEF Copied
<1> HIDE DEF left, room
<1>3. m \in Int /\ m <= block.len /\ m <= left /\ m <= room /\ m \in {block.len, left, room}
  BY <1>1, LeastOfThree
<1> HIDE DEF m
<1>4. Max({0, m}) = IF m >= 0 THEN m ELSE 0
  BY <1>3, NotBelowZero
<1>5. /\ Copied(pkt, block) \in Nat /\ Copied(pkt, block) <= block.len
      /\ Copied(pkt, block) > 0 => Copied(pkt, block) <= left
                                   /\ Copied(pkt, block) <= room
      /\ Copied(pkt, block) < block.len => Copied(pkt, block) >= left
                                           \/ Copied(pkt, block) >= room
  BY <1>1, <1>2, <1>3, <1>4
<1> QED BY <1>5 DEF left, room

(***************************************************************************)
(* What the capture relies on of the plan in hand.                          *)
(***************************************************************************)
PlanTyped(c) ==
    LET p == Properties[c.mode] IN
    /\ c.mode \in Modes
    /\ c.samples_per_packet \in MinSpp .. MaxSpp
    /\ c.rbw \in Nat \ {0}
    /\ c.rbw = p.full_bw \div (c.samples_per_packet \div 2)
    /\ c.fstart \in Nat /\ c.fstop \in Nat /\ c.fstart <= c.fstop
    /\ c.fstop <= p.max_tunable
    /\ c.buflen = (c.fstop - c.fstart) \div c.rbw
    /\ c.dd_mode \in BOOLEAN /\ (c.dd_mode <=> c.fstart < p.min_tunable)
    /\ c.only_dd <=> c.dd_mode /\ c.fstop < p.min_tunable
    /\ c.entry.fcstart \in Nat /\ c.entry.fcstop \in Nat
    /\ c.entry.fstep \in Nat \ {0}
    /\ c.entry.fcstart >= p.min_tunable
    /\ c.only_dd => c.packet_total = 1
    /\ c.dd_mode /\ c.fstop = p.min_tunable => c.packet_total = 2

LEMMA PlanIsTyped == PlanInv /\ Planned => PlanTyped(pscfg)
<1> SUFFICES ASSUME PlanInv, Planned PROVE PlanTyped(pscfg)
  OBVIOUS
<1>1. PICK q \in Requests, err \in FloatErrors : MadeFor(q, err)
  BY DEF PlanInv
<1> DEFINE p == Properties[q.mode]
<1>2. /\ Asked(p, q, err) /\ InRange(p, q, err)
      /\ pscfg.mode = q.mode /\ q.mode \in Modes
      /\ pscfg.buflen = (q.fstop - q.fstart) \div pscfg.rbw
  BY <1>1 DEF MadeFor, PlanOf, Asked
<1>3. /\ pscfg.fstart = q.fstart /\ pscfg.fstop = q.fstop
      /\ pscfg.rbw = Rbw(p, q.rbw)
      /\ pscfg.samples_per_packet = Points(p, q.rbw)
      /\ pscfg.entry.fcstart = Fcstart(p, q.fstart)
      /\ pscfg.entry.fcstop = Fcstop(p, q, err)
      /\ pscfg.dd_mode = NeedsDd(p, q.fstart)
      /\ pscfg.only_dd = OnlyDd(p, q)
      /\ pscfg.packet_total =
            IF OnlyDd(p, q) THEN 1
            ELSE (IF NeedsDd(p, q.fstart) THEN 1 ELSE 0)
                 + Packets(pscfg.entry)
                 + (IF NeedsCleanup(p, q, err)
                      THEN Packets(Cleanup(p, q, err)) ELSE 0)
  BY <1>1, FieldsOf
<1>4. /\ q.fstart \in Nat /\ q.fstop \in Nat /\ err \in Int
      /\ p.min_tunable \in Nat /\ p.max_tunable \in Nat
  BY <1>2, AskedFacts
<1>5. /\ pscfg.entry.fcstart \in Nat /\ pscfg.entry.fcstop \in Nat
      /\ pscfg.entry.fstep \in Nat \ {0}
      /\ pscfg.entry.fcstart >= p.min_tunable
      /\ pscfg.entry.fcstop <= p.max_tunable
  BY <1>1, EntryFacts
<1>6. Points(p, q.rbw) \in MinSpp .. MaxSpp
  BY <1>2, PointsBounds
<1>7. Rbw(p, q.rbw) \in Nat \ {0}
  BY <1>2, RbwBounds
<1>8. q.fstart <= q.fstop
  BY <1>2 DEF InRange
<1>9. q.fstop <= p.max_tunable
  <2>1. /\ q.fstop <= Fcstart(p, q.fstart) =>
              Fcstop(p, q, err) = Fcstart(p, q.fstart)
        /\ q.fstop > Fcstart(p, q.fstart) =>
              Fcstop(p, q, err) = q.fstop + Fstep(p, q.rbw) + err
    BY <1>2, StopBounds
  <2>2. Fstep(p, q.rbw) \in Nat /\ Fstep(p, q.rbw) + err > 0
    BY <1>2, StepBounds
  <2> HIDE DEF p
  <2> QED BY <1>3, <1>4, <1>5, <2>1, <2>2
<1>10. pscfg.rbw = p.full_bw \div (pscfg.samples_per_packet \div 2)
  BY <1>3 DEF Rbw
<1>11. pscfg.dd_mode /\ q.fstop = p.min_tunable => pscfg.packet_total = 2
  <2> SUFFICES ASSUME pscfg.dd_mode, q.fstop = p.min_tunable
               PROVE  pscfg.packet_total = 2
    OBVIOUS
  <2>1. ~NeedsCleanup(p, q, err)
    BY <1>2, CleanupNever
  <2>2. ~OnlyDd(p, q) /\ NeedsDd(p, q.fstart)
    BY <1>3, <1>4 DEF OnlyDd
  <2>3. pscfg.entry.fcstop = pscfg.entry.fcstart
    <3>1. q.fstop <= Fcstart(p, q.fstart)
      BY <1>3, <1>5
    <3> QED BY <1>2, <1>3, <3>1, StopBounds
  <2>4. Packets(pscfg.entry) = 1
    <3>1. pscfg.entry.fcstop - pscfg.entry.fcstart = 0
      BY <1>5, <2>3
    <3> QED BY <1>5, <3>1 DEF Packets
  <2> HIDE DEF p
  <2> QED BY <1>3, <2>1, <2>2, <2>4
<1>12. /\ pscfg.dd_mode \in BOOLEAN
       /\ pscfg.dd_mode <=> q.fstart < p.min_tunable
       /\ pscfg.only_dd <=> pscfg.dd_mode /\ q.fstop < p.min_tunable
  <2>1. pscfg.dd_mode = (q.fstart < p.min_tunable)
    BY Zenon, <1>3 DEF NeedsDd
  <2>2. pscfg.only_dd = (q.fstart < p.min_tunable /\ q.fstop < p.min_tunable)
    BY Zenon, <1>3 DEF NeedsDd, OnlyDd
  <2>3. pscfg.dd_mode \in BOOLEAN
    BY <1>4, <2>1
  <2> QED BY Zenon, <2>1, <2>2, <2>3
<1> HIDE DEF p
<1>13. pscfg.only_dd => pscfg.packet_total = 1
  BY <1>3
<1> QED BY <1>2, <1>3, <1>4, <1>5, <1>6, <1>7, <1>8, <1>9, <1>10, <1>11,
           <1>12, <1>13 DEF PlanTyped, p

(***************************************************************************)
(* What the instrument can hold and send, whatever was refused or lost:      *)
(* entries of the client's or of the template, and packets no longer than    *)
(* the longest there are.                                                   *)
(***************************************************************************)
Fits(f, v) ==
    /\ f \in {"fcstart", "fcstop"} => v \in Nat
    /\ f = "fstep" => v \in Nat \ {0}
    /\ f = "spp" => v \in 0 .. MaxSpp

GoodEntry(e) == DOMAIN e = Fields /\ \A f \in Fields : Fits(f, e[f])

GoodCommand(cmd) ==
    /\ cmd.op \in {"delete all", "new", "once", "save", "set"}
    /\ cmd.op = "set" => \A f \in DOMAIN cmd.to : Fits(f, cmd.to[f])

Packet ==
    [dd : BOOLEAN, centre : Int, spp : 0 .. MaxSpp, inv : BOOLEAN, sweep : Nat]

Traffic ==
    /\ DeviceShape /\ GoodEntry(device.template)
    /\ IsQueue(device.list)
    /\ \A i \in 1 .. Len(device.list) : GoodEntry(device.list[i])
    /\ device.air \in Seq(Packet) /\ socket \in Seq(Packet)
    /\ pc = "load" => /\ IsQueue(script)
                      /\ \A i \in 1 .. Len(script) : GoodCommand(script[i])

LEMMA TemplateGood == GoodEntry(DefaultEntry)
<1>1. DOMAIN DefaultEntry = Fields
  BY OneStepTemplate
<1>2. /\ DefaultEntry["fcstart"] \in Nat /\ DefaultEntry["fcstop"] \in Nat
      /\ DefaultEntry["fstep"] \in Nat \ {0}
      /\ DefaultEntry["spp"] \in 0 .. MaxSpp
  BY CaptureAssumption, TemplateAssumption, PlanAssumption
<1> QED BY <1>1, <1>2 DEF GoodEntry, Fits, Fields

LEMMA EntrySends ==
    ASSUME NEW e, GoodEntry(e), NEW n \in Nat
    PROVE  EntryPackets(e, n) \in Seq(Packet)
<1> DEFINE l == LastStep(e) + 1
           P(k) == [dd |-> e.mode = "DD", centre |-> Centre(e, k - 1),
                    spp |-> e.spp,
                    inv |-> e.mode # "DD" /\ Centre(e, k - 1) >= InvertedFrom,
                    sweep |-> n]
<1>1. EntryPackets(e, n) = [k \in 1 .. l |-> P(k)]
  BY DEF EntryPackets
<1>2. /\ e.fcstart \in Nat /\ e.fcstop \in Nat /\ e.fstep \in Nat \ {0}
      /\ e.spp \in 0 .. MaxSpp
  BY DEF GoodEntry, Fits, Fields
<1>3. l \in Int
  BY <1>2 DEF LastStep
<1>4. ASSUME NEW k \in 1 .. l PROVE P(k) \in Packet
  <2>1. Centre(e, k - 1) \in Int
    <3>1. k - 1 \in Int
      BY <1>3
    <3>2. (k - 1) * e.fstep \in Int
      BY <1>2, <3>1
    <3> QED BY <1>2, <3>2 DEF Centre
  <2>2. (e.mode = "DD") \in BOOLEAN
        /\ (e.mode # "DD" /\ Centre(e, k - 1) >= InvertedFrom) \in BOOLEAN
    OBVIOUS
  <2> QED BY <1>2, <2>1, <2>2 DEF Packet
<1> HIDE DEF P, l
<1>5. CASE l >= 0
  <2>1. [k \in 1 .. l |-> P(k)] \in Seq(Packet)
    BY <1>3, <1>4, <1>5
  <2> QED BY <1>1, <2>1
<1>6. CASE l < 0
  <2>1. 1 .. l = 1 .. 0
    BY <1>3, <1>6
  <2>2. [k \in 1 .. 0 |-> P(k)] \in Seq(Packet)
    BY <2>1
  <2> QED BY <1>1, <2>1, <2>2
<1> QED BY <1>3, <1>5, <1>6

LEMMA ListSends ==
    ASSUME Traffic, NEW n \in Nat
    PROVE  SweepOf(device.list, n) \in Seq(Packet)
<1>1. IsQueue(device.list)
      /\ \A i \in 1 .. Len(device.list) : GoodEntry(device.list[i])
  BY DEF Traffic
<1>2. Len(device.list) \in Nat
  BY <1>1, QueueLengths
<1>3. \A i \in 1 .. Len(device.list) :
         EntryPackets(device.list[i], n) \in Seq(Packet)
  BY <1>1, EntrySends
<1> QED BY <1>2, <1>3, SweepIn

LEMMA CommandsGood ==
    ASSUME NEW c, PlanTyped(c)
    PROVE  LET load == wsa_sweep_plan_load(c) IN
           IsQueue(load) /\ \A i \in 1 .. Len(load) : GoodCommand(load[i])
<1> DEFINE load == wsa_sweep_plan_load(c)
           m == Before(c)
<1>1. /\ IsQueue(load) /\ Len(load) = Commands(c)
      /\ load[1] = [op |-> "delete all"]
      /\ load[2] = [op |-> "new"]
      /\ load[3] = [op |-> "once"]
      /\ c.dd_mode => /\ load[4] = Set([mode |-> "DD"])
                      /\ load[5] = Set([spp |-> c.samples_per_packet])
                      /\ load[6] = [op |-> "save"]
      /\ load[m + 1] = Set([mode |-> c.mode])
      /\ load[m + 2] = Set([fcstart |-> c.entry.fcstart,
                            fcstop |-> c.entry.fcstop])
      /\ load[m + 3] = Set([fstep |-> c.entry.fstep])
      /\ load[m + 4] = Set([spp |-> c.samples_per_packet])
      /\ ~c.only_dd => load[m + 5] = [op |-> "save"]
  BY CommandsAre
<1> HIDE DEF load
<1>2. /\ c.entry.fcstart \in Nat /\ c.entry.fcstop \in Nat
      /\ c.entry.fstep \in Nat \ {0}
      /\ c.samples_per_packet \in 0 .. MaxSpp
  BY PlanAssumption DEF PlanTyped
<1>3. \A x \in {"delete all", "new", "once", "save"} :
         GoodCommand([op |-> x])
  BY DEF GoodCommand
<1>4. ASSUME NEW to, \A f \in DOMAIN to : Fits(f, to[f])
      PROVE  GoodCommand(Set(to))
  BY <1>4 DEF GoodCommand, Set
<1>5. \A v : GoodCommand(Set([mode |-> v]))
  <2> SUFFICES ASSUME NEW v PROVE GoodCommand(Set([mode |-> v]))
    OBVIOUS
  <2> DEFINE to == [mode |-> v]
  <2>1. \A f \in DOMAIN to : Fits(f, to[f])
    BY DEF Fits
  <2> HIDE DEF to
  <2>2. GoodCommand(Set(to))
    BY <1>4, <2>1
  <2> QED BY <2>2 DEF to
<1>6. GoodCommand(Set([spp |-> c.samples_per_packet]))
  <2> DEFINE to == [spp |-> c.samples_per_packet]
  <2>1. \A f \in DOMAIN to : Fits(f, to[f])
    BY <1>2 DEF Fits
  <2> HIDE DEF to
  <2>2. GoodCommand(Set(to))
    BY <1>4, <2>1
  <2> QED BY <2>2 DEF to
<1>7. GoodCommand(Set([fcstart |-> c.entry.fcstart,
                       fcstop |-> c.entry.fcstop]))
  <2> DEFINE to == [fcstart |-> c.entry.fcstart, fcstop |-> c.entry.fcstop]
  <2>1. \A f \in DOMAIN to : Fits(f, to[f])
    BY <1>2 DEF Fits
  <2> HIDE DEF to
  <2>2. GoodCommand(Set(to))
    BY <1>4, <2>1
  <2> QED BY <2>2 DEF to
<1>8. GoodCommand(Set([fstep |-> c.entry.fstep]))
  <2> DEFINE to == [fstep |-> c.entry.fstep]
  <2>1. \A f \in DOMAIN to : Fits(f, to[f])
    BY <1>2 DEF Fits
  <2> HIDE DEF to
  <2>2. GoodCommand(Set(to))
    BY <1>4, <2>1
  <2> QED BY <2>2 DEF to
<1> HIDE DEF m
<1>9. /\ GoodCommand(load[1]) /\ GoodCommand(load[2]) /\ GoodCommand(load[3])
      /\ c.dd_mode => /\ GoodCommand(load[4]) /\ GoodCommand(load[5])
                      /\ GoodCommand(load[6])
  BY <1>1, <1>3, <1>5, <1>6
<1>10. /\ GoodCommand(load[m + 1]) /\ GoodCommand(load[m + 2])
       /\ GoodCommand(load[m + 3]) /\ GoodCommand(load[m + 4])
       /\ ~c.only_dd => GoodCommand(load[m + 5])
  BY <1>1, <1>3, <1>5, <1>6, <1>7, <1>8
<1>11. ASSUME NEW i \in 1 .. Commands(c)
       PROVE  GoodCommand(load[i])
  <2>1. /\ m \in {3, 6} /\ (c.dd_mode <=> m = 6)
        /\ i \in 1 .. m + (IF c.only_dd THEN 4 ELSE 5)
    BY DEF m, Before, Commands
  <2>2. \/ i \in {1, 2, 3} \/ (c.dd_mode /\ i \in {4, 5, 6})
        \/ i \in {m + 1, m + 2, m + 3, m + 4} \/ (~c.only_dd /\ i = m + 5)
    BY <2>1
  <2> QED BY <1>9, <1>10, <2>2
<1> QED BY <1>1, <1>11 DEF load

LEMMA ExecutedGood ==
    ASSUME Traffic, NEW cmd, GoodCommand(cmd), device' = DeviceExecutes(cmd)
    PROVE  /\ DeviceShape' /\ GoodEntry(device'.template)
           /\ IsQueue(device'.list)
           /\ \A i \in 1 .. Len(device'.list) : GoodEntry(device'.list[i])
           /\ device'.air = device.air
<1>1. /\ DeviceShape /\ GoodEntry(device.template) /\ IsQueue(device.list)
      /\ \A i \in 1 .. Len(device.list) : GoodEntry(device.list[i])
  BY DEF Traffic
<1>2. /\ cmd.op \in {"delete all", "new", "once", "save", "set"}
      /\ cmd.op = "set" => \A f \in DOMAIN cmd.to : Fits(f, cmd.to[f])
  BY DEF GoodCommand
<1>3. DeviceShape' /\ device'.air = device.air
  BY <1>1, <1>2, Executed
<1>4. CASE cmd.op = "delete all"
  <2>1. device'.list = <<>> /\ device'.template = device.template
    BY <1>1, <1>4, Executed
  <2>2. IsQueue(<<>>) /\ Len(<<>>) = 0
    BY Literals
  <2> QED BY <1>1, <1>3, <2>1, <2>2
<1>5. CASE cmd.op = "new"
  <2>1. device'.list = device.list /\ device'.template = DefaultEntry
    BY <1>1, <1>5, Executed
  <2> QED BY <1>1, <1>3, <2>1, TemplateGood
<1>6. CASE cmd.op = "once"
  <2>1. device'.list = device.list /\ device'.template = device.template
    BY <1>1, <1>6, Executed
  <2> QED BY <1>1, <1>3, <2>1
<1>7. CASE cmd.op = "save"
  <2>1. /\ device'.list = Append(device.list, device.template)
        /\ device'.template = device.template
    BY <1>1, <1>7, Executed
  <2> DEFINE q == device.list
             r == device'.list
  <2>2. /\ IsQueue(r) /\ Len(r) = Len(q) + 1 /\ Len(q) \in Nat
        /\ r[Len(q) + 1] = device.template
        /\ \A i \in 1 .. Len(q) : r[i] = q[i]
    BY <1>1, <2>1, Appended, QueueLengths
  <2>3. \A i \in 1 .. Len(q) : GoodEntry(q[i])
    BY <1>1
  <2> HIDE DEF q, r
  <2>4. ASSUME NEW i \in 1 .. Len(r) PROVE GoodEntry(r[i])
    <3>1. i \in 1 .. Len(q) \/ i = Len(q) + 1
      BY <2>2
    <3> QED BY <1>1, <2>2, <2>3, <3>1
  <2> QED BY <1>1, <1>3, <2>1, <2>2, <2>4 DEF r
<1>8. CASE cmd.op = "set"
  <2>1. /\ device'.list = device.list
        /\ device'.template =
              [f \in Fields |-> IF f \in DOMAIN cmd.to THEN cmd.to[f]
                                ELSE device.template[f]]
    BY <1>1, <1>8, Executed
  <2>2. GoodEntry(device'.template)
    BY <1>1, <1>2, <1>8, <2>1 DEF GoodEntry
  <2> QED BY <1>1, <1>3, <2>1, <2>2
<1> QED BY <1>2, <1>4, <1>5, <1>6, <1>7, <1>8

LEMMA TrafficInit == CaptureInit => Traffic
<1> SUFFICES ASSUME CaptureInit PROVE Traffic
  OBVIOUS
<1>1. DeviceShape
  BY OneStepTemplate DEF CaptureInit, DeviceShape
<1>2. IsQueue(<<>>) /\ Len(<<>>) = 0 /\ <<>> \in Seq(Packet)
  BY Literals
<1>3. /\ pc = "idle" /\ device.template = DefaultEntry /\ device.list = <<>>
      /\ device.air = <<>> /\ socket = <<>>
  BY DEF CaptureInit
<1> QED BY <1>1, <1>2, <1>3, TemplateGood DEF Traffic

LEMMA TrafficStep == Inv /\ Inv' /\ Traffic /\ [CaptureNext]_capVars => Traffic'
<1> SUFFICES ASSUME Inv, Inv', Traffic, [CaptureNext]_capVars PROVE Traffic'
  OBVIOUS
<1>1. /\ DeviceShape /\ GoodEntry(device.template) /\ IsQueue(device.list)
      /\ \A i \in 1 .. Len(device.list) : GoodEntry(device.list[i])
      /\ device.air \in Seq(Packet) /\ socket \in Seq(Packet)
      /\ pc = "load" => /\ IsQueue(script)
                        /\ \A i \in 1 .. Len(script) : GoodCommand(script[i])
  BY DEF Traffic
<1>2. sweeps \in Nat
  BY CaptureAssumption DEF Inv, CaptureInv
\* A step that only changes what the instrument has still to send.
<1>3. ASSUME NEW air, air \in Seq(Packet), device' = [device EXCEPT !.air = air],
             socket' \in Seq(Packet), pc' = "load" => pc = "load" /\ script' = script
      PROVE  Traffic'
  <2>1. /\ DOMAIN device' = DOMAIN device /\ device'.template = device.template
        /\ device'.list = device.list /\ device'.air = air
    BY <1>1, <1>3 DEF DeviceShape
  <2> QED BY <1>1, <1>3, <2>1 DEF Traffic, DeviceShape
<1>4. ASSUME device' = device, socket' \in Seq(Packet),
             pc' = "load" => pc = "load" /\ script' = script
      PROVE  Traffic'
  BY <1>1, <1>4 DEF Traffic, DeviceShape
<1>5. ASSUME NEW q \in Requests, Measure(q) PROVE Traffic'
  <2>1. device' = device /\ socket' = socket
    BY <1>5 DEF Measure
  <2>2. CASE pscfg'.status = "ok"
    <3>1. script' = wsa_sweep_plan_load(pscfg')
      BY <1>5, <2>2 DEF Measure
    <3>2. (PlanInv /\ Planned => PlanTyped(pscfg))'
      BY PlanIsTyped, PTL
    <3>3. PlanTyped(pscfg')
      BY <2>2, <3>2 DEF Inv, Planned
    <3>4. IsQueue(script')
          /\ \A i \in 1 .. Len(script') : GoodCommand(script'[i])
      BY <3>1, <3>3, CommandsGood
    <3> QED BY <1>1, <2>1, <3>4 DEF Traffic, DeviceShape
  <2>3. CASE pscfg'.status # "ok"
    <3>1. pc' # "load"
      BY <1>5, <2>3 DEF Measure
    <3> QED BY <1>1, <1>4, <2>1, <3>1
  <2> QED BY <2>2, <2>3
<1>14. CASE IdentityLost
  <2>1. device' = device /\ socket' = socket /\ pc' # "load"
    BY <1>14 DEF IdentityLost
  <2> QED BY <1>1, <1>4, <2>1
<1>6. CASE LoadCommand
  <2>1. /\ pc = "load" /\ script # <<>> /\ script' = Tail(script)
        /\ socket' = socket /\ pc' = pc
        /\ device' = device \/ device' = DeviceExecutes(Head(script))
    BY <1>6 DEF LoadCommand
  <2>2. /\ GoodCommand(Head(script)) /\ IsQueue(script')
        /\ \A i \in 1 .. Len(script') : GoodCommand(script'[i])
    <3>1. /\ IsQueue(script') /\ Len(script') = Len(script) - 1
          /\ Head(script) = script[1] /\ Len(script) \in Nat
          /\ Len(script) # 0
          /\ \A i \in 1 .. Len(script) - 1 : script'[i] = script[i + 1]
      BY <1>1, <2>1, Shifted, QueueLengths
    <3>2. \A i \in 1 .. Len(script) : GoodCommand(script[i])
      BY <1>1, <2>1
    <3>3. GoodCommand(Head(script))
      BY <3>1, <3>2
    <3>4. ASSUME NEW i \in 1 .. Len(script') PROVE GoodCommand(script'[i])
      <4>1. i \in 1 .. Len(script) - 1 /\ i + 1 \in 1 .. Len(script)
        BY <3>1
      <4> QED BY <3>1, <3>2, <4>1
    <3> QED BY <3>1, <3>3, <3>4
  <2>3. CASE device' = device
    BY <1>1, <2>1, <2>2, <2>3 DEF Traffic, DeviceShape
  <2>4. CASE device' = DeviceExecutes(Head(script))
    <3>1. /\ DeviceShape' /\ GoodEntry(device'.template)
          /\ IsQueue(device'.list)
          /\ \A i \in 1 .. Len(device'.list) : GoodEntry(device'.list[i])
          /\ device'.air = device.air
      BY <2>2, <2>4, ExecutedGood
    <3> QED BY <1>1, <2>1, <2>2, <3>1 DEF Traffic
  <2> QED BY <2>1, <2>3, <2>4
<1>7. CASE StartCapture
  <2>1. /\ pc' = "read" /\ socket' = socket
        /\ \/ device' = device
           \/ device' = [device EXCEPT !.air = SweepOf(device.list, sweeps + 1)]
    BY <1>7 DEF StartCapture
  <2>2. SweepOf(device.list, sweeps + 1) \in Seq(Packet)
    BY <1>2, ListSends
  <2> QED BY <1>1, <1>3, <1>4, <2>1, <2>2
<1>8. CASE ReadPacket
  <2>1. /\ pc' # "load" /\ device' = device /\ socket # <<>>
        /\ socket' = Tail(socket)
    BY <1>8 DEF ReadPacket
  <2> QED BY <1>1, <1>4, <2>1
<1>9. CASE ReadTimeout \/ ReadError
  <2>1. pc' # "load" /\ device' = device /\ socket' = socket
    BY <1>9 DEF ReadTimeout, ReadError
  <2> QED BY <1>1, <1>4, <2>1
<1>10. CASE AbortCapture
  <2>1. /\ pc' = "measure" /\ socket' = socket
        /\ device' = device \/ device' = [device EXCEPT !.air = <<>>]
    BY <1>10 DEF AbortCapture
  <2>2. <<>> \in Seq(Packet)
    OBVIOUS
  <2>3. CASE device' = device
    BY <1>1, <1>4, <2>1, <2>3
  <2>4. CASE device' = [device EXCEPT !.air = <<>>]
    BY <1>1, <1>3, <2>1, <2>2, <2>4
  <2> QED BY <2>1, <2>3, <2>4
<1>11. CASE peak_find \/ calculate_channel_power \/ Return
  <2>1. pc' # "load" /\ device' = device /\ socket' = socket
    BY <1>11 DEF peak_find, calculate_channel_power, Return
  <2> QED BY <1>1, <1>4, <2>1
<1>12. CASE DeviceSends
  <2> DEFINE air == IF Len(device.air) = 1 /\ ~device.once
                      THEN SweepOf(device.list, sweeps) ELSE Tail(device.air)
  <2>1. /\ device.air # <<>> /\ socket' = Append(socket, Head(device.air))
        /\ device' = [device EXCEPT !.air = air]
        /\ pc' = pc /\ script' = script
    BY <1>12 DEF DeviceSends
  <2>2. socket' \in Seq(Packet)
    <3>1. Head(device.air) \in Packet
      BY <1>1, <2>1
    <3> QED BY <1>1, <2>1, <3>1
  <2>3. air \in Seq(Packet)
    <3>1. SweepOf(device.list, sweeps) \in Seq(Packet)
      BY <1>2, ListSends
    <3>2. Tail(device.air) \in Seq(Packet)
      BY <1>1, <2>1
    <3> QED BY Zenon, <3>1, <3>2
  <2> HIDE DEF air
  <2> QED BY <1>3, <2>1, <2>2, <2>3
<1>13. CASE UNCHANGED capVars
  <2>1. /\ device' = device /\ socket' = socket /\ pc' = pc
        /\ script' = script
    BY <1>13 DEF capVars
  <2> QED BY <1>1, <1>4, <2>1
<1> QED BY <1>5, <1>6, <1>7, <1>8, <1>9, <1>10, <1>11, <1>12, <1>13, <1>14
        DEF CaptureNext, ClientNext

(***************************************************************************)
(* The blocks of a spectrum, whatever packets come: the usable bins are in    *)
(* order and no more than the longest packet has samples, and the block of   *)
(* the direct digitizer is short unless it is nearly all.                   *)
(***************************************************************************)
LEMMA TableFacts ==
    ASSUME NEW c, PlanTyped(c)
    PROVE  LET p == Properties[c.mode]
               n == c.samples_per_packet \div 2
               coarsest == p.max_tunable
                             \div (p.full_bw \div (MaxSpp \div 2)) IN
           /\ p.full_bw \in Nat \ {0} /\ p.usable_left \in Nat
           /\ p.usable_right \in Nat
           /\ p.min_tunable \in Nat /\ p.max_tunable \in Nat
           /\ p.usable_left <= p.usable_right /\ p.usable_right <= p.full_bw
           /\ 10 * p.min_tunable = 8 * p.full_bw
           /\ n \in Nat \ {0} /\ 2 * n <= MaxSpp /\ MaxSpp \in Nat
           /\ c.rbw \in Nat \ {0} /\ c.rbw = p.full_bw \div n
           /\ c.buflen \in Nat /\ coarsest \in Nat /\ c.buflen <= coarsest
           /\ coarsest + 2 * MaxSpp < Word
<1> DEFINE p == Properties[c.mode]
           n == c.samples_per_packet \div 2
           N == MaxSpp \div 2
<1>1. /\ c.mode \in Modes /\ c.samples_per_packet \in MinSpp .. MaxSpp
      /\ c.rbw \in Nat \ {0} /\ c.rbw = p.full_bw \div n
      /\ c.fstart \in Nat /\ c.fstop \in Nat /\ c.fstart <= c.fstop
      /\ c.fstop <= p.max_tunable
      /\ c.buflen = (c.fstop - c.fstart) \div c.rbw
  BY DEF PlanTyped
<1>2. p \in PropertyType
  BY <1>1, PlanAssumption
<1>3. /\ p.full_bw \in Nat /\ p.usable_left \in Nat /\ p.usable_right \in Nat
      /\ p.usable_bw \in Nat /\ p.min_tunable \in Nat /\ p.max_tunable \in Nat
  BY <1>2 DEF PropertyType
<1>4. /\ p.usable_right - p.usable_left = p.usable_bw
      /\ p.usable_right <= p.full_bw
      /\ 2 * p.full_bw >= MaxSpp
  BY <1>1, PlanAssumption
<1>5. /\ 10 * p.min_tunable = 8 * p.full_bw
      /\ p.max_tunable \div (p.full_bw \div N) + 2 * MaxSpp < Word
  BY <1>1, BandAssumption
<1>6. /\ MinSpp \in Nat /\ MaxSpp \in Nat /\ MinSpp >= 2 /\ MinSpp <= MaxSpp
  BY PlanAssumption
<1>7. n \in Nat \ {0} /\ N \in Nat \ {0} /\ n <= N /\ 2 * n <= MaxSpp
      /\ N <= p.full_bw
  BY <1>1, <1>3, <1>4, <1>6
<1> HIDE DEF n, N, p
<1>8. p.full_bw \div N \in Nat \ {0}
  <2>1. N \div N <= p.full_bw \div N
    BY <1>3, <1>7, DivMonotone
  <2>2. N \div N = 1
    BY <1>7, Z3
  <2> QED BY <1>3, <1>7, <2>1, <2>2, DivBounds
<1>9. p.full_bw \div N <= c.rbw
  <2>1. p.full_bw \div N <= p.full_bw \div n
    <3>1. /\ p.full_bw \in Nat /\ p.full_bw <= p.full_bw /\ n \in Nat \ {0}
          /\ N \in Nat \ {0} /\ n <= N
      BY <1>3, <1>7
    <3> QED BY Zenon, <3>1, DivMonotone
  <2> QED BY <1>1, <2>1
<1>10. c.fstop - c.fstart \in Nat /\ c.fstop - c.fstart <= p.max_tunable
  BY <1>1, <1>3
<1>11. /\ c.buflen \in Nat
       /\ c.buflen <= p.max_tunable \div (p.full_bw \div N)
  BY <1>1, <1>3, <1>8, <1>9, <1>10, DivMonotone, DivBounds
<1>12. p.max_tunable \div (p.full_bw \div N) \in Nat
  BY <1>3, <1>8, DivBounds
<1>13. p.full_bw # 0 /\ p.usable_left <= p.usable_right
  BY <1>3, <1>4, <1>7
<1> QED BY <1>1, <1>3, <1>4, <1>5, <1>6, <1>7, <1>11, <1>12, <1>13 DEF p, n, N

\* The bins of the whole band are not more than two for each two samples.
LEMMA BandBins ==
    ASSUME NEW B \in Nat, NEW n \in Nat \ {0}, NEW r \in Nat \ {0},
           r = B \div n
    PROVE  B \div r <= 2 * n
<1> DEFINE m == B \div r
<1>1. r * n <= B /\ B < r * n + n /\ m \in Nat /\ m * r <= B
  BY DivBounds
<1> HIDE DEF m
<1> SUFFICES ASSUME m >= 2 * n + 1 PROVE FALSE
  BY <1>1 DEF m
<1>2. m * r >= (2 * n + 1) * r
  BY <1>1, Z3
<1>3. (2 * n + 1) * r = r * n + n * r + r
  BY Z3
<1>4. n * r >= n
  BY Z3
<1>5. m * r \in Nat /\ r * n \in Nat /\ n * r \in Nat /\ (2 * n + 1) * r \in Nat
  BY <1>1
<1> QED BY <1>1, <1>2, <1>3, <1>4, <1>5

LEMMA UsableInBand ==
    ASSUME PlanTyped(pscfg), NEW pkt
    PROVE  LET b == UsableBins(Prop, pkt) IN
           /\ b.first \in Nat /\ b.last \in Nat /\ b.first <= b.last
           /\ b.last <= MaxSpp
           /\ b = [first |-> b.first, last |-> b.last]
<1> DEFINE p == Prop
           n == pscfg.samples_per_packet \div 2
           r == pscfg.rbw
           b == UsableBins(p, pkt)
<1>1. /\ p.full_bw \in Nat \ {0} /\ p.usable_left \in Nat
      /\ p.usable_right \in Nat
      /\ p.usable_left <= p.usable_right /\ p.usable_right <= p.full_bw
      /\ n \in Nat \ {0} /\ 2 * n <= MaxSpp /\ MaxSpp \in Nat
      /\ r \in Nat \ {0} /\ r = p.full_bw \div n
  BY TableFacts DEF Prop
<1>2. \/ b = [first |-> (p.full_bw - p.usable_right) \div r,
              last |-> (p.full_bw - p.usable_left) \div r]
      \/ b = [first |-> p.usable_left \div r, last |-> p.usable_right \div r]
  BY Zenon DEF UsableBins
<1> HIDE DEF p, n, r, b
<1>3. p.full_bw \div r <= 2 * n
  BY <1>1, BandBins
<1>4. \A x, y \in Nat : x <= y /\ y <= p.full_bw =>
         /\ x \div r \in Nat /\ y \div r \in Nat /\ x \div r <= y \div r
         /\ y \div r <= MaxSpp
  <2> SUFFICES ASSUME NEW x \in Nat, NEW y \in Nat, x <= y, y <= p.full_bw
               PROVE  /\ x \div r \in Nat /\ y \div r \in Nat
                      /\ x \div r <= y \div r /\ y \div r <= MaxSpp
    OBVIOUS
  <2>1. x \div r \in Nat /\ y \div r \in Nat /\ p.full_bw \div r \in Nat
    BY <1>1, DivBounds
  <2>2. x \div r <= y \div r
    <3>1. r \in Nat \ {0} /\ r <= r
      BY <1>1
    <3> QED BY Zenon, <3>1, DivMonotone
  <2>3. y \div r <= p.full_bw \div r
    BY <1>1, DivMonotone
  <2> QED BY <1>1, <1>3, <2>1, <2>2, <2>3
<1>5. /\ p.full_bw - p.usable_right \in Nat /\ p.full_bw - p.usable_left \in Nat
      /\ p.full_bw - p.usable_right <= p.full_bw - p.usable_left
      /\ p.full_bw - p.usable_left <= p.full_bw
  BY <1>1
<1>6. /\ b.first \in Nat /\ b.last \in Nat /\ b.first <= b.last
      /\ b.last <= MaxSpp /\ b = [first |-> b.first, last |-> b.last]
  <2>1. CASE b = [first |-> p.usable_left \div r,
                  last |-> p.usable_right \div r]
    BY <1>1, <1>4, <2>1
  <2>2. CASE b = [first |-> (p.full_bw - p.usable_right) \div r,
                  last |-> (p.full_bw - p.usable_left) \div r]
    BY <1>4, <1>5, <2>2
  <2> QED BY <1>2, <2>1, <2>2
<1> QED BY <1>6 DEF b, p

\* A fraction of the digitizer's band is that fraction of its bins.
LEMMA FractionOfBins ==
    ASSUME NEW f \in Nat, NEW B \in Nat \ {0}, NEW n \in Nat, NEW spp \in Nat,
           2 * n <= spp, 10 * f <= 8 * B
    PROVE  /\ (f * n) \div B \in Nat
           /\ (f * n) \div B <= (4 * spp) \div 10
<1> DEFINE x == (f * n) \div B
           y == (4 * spp) \div 10
<1>1. f * n \in Nat
  BY Z3
<1>2. x \in Nat /\ x * B <= f * n /\ y \in Nat /\ 4 * spp < 10 * y + 10
  BY <1>1, DivBounds
<1> HIDE DEF x, y
<1> SUFFICES ASSUME x >= y + 1 PROVE FALSE
  BY <1>2 DEF x, y
<1>3. 10 * x >= 8 * n + 1
  BY <1>2
<1>4. (10 * x) * B >= (8 * n + 1) * B
  BY <1>2, <1>3, Z3
<1>5. (8 * n + 1) * B = 8 * (n * B) + B /\ (10 * x) * B = 10 * (x * B)
  BY <1>2, Z3
<1>6. (10 * f) * n <= (8 * B) * n
  BY Z3
<1>7. (10 * f) * n = 10 * (f * n) /\ (8 * B) * n = 8 * (n * B)
  BY Z3
<1>8. x * B \in Nat /\ n * B \in Nat
  BY <1>2
<1> HIDE DEF x, y
<1>9. 10 * (x * B) <= 10 * (f * n)
  BY <1>1, <1>2, <1>8
<1> QED BY <1>1, <1>4, <1>5, <1>6, <1>7, <1>8, <1>9

\* Where a packet that is not the last one puts its block, and how far the
\* spectrum then reaches.
LEMMA DdBlock ==
    ASSUME PlanTyped(pscfg), NEW pkt, pkt.spp \in 0 .. MaxSpp, DdPacket,
           cap.count \in Nat, cap.count + 1 < pscfg.packet_total
    PROVE  LET block == BlockOf(Prop, pkt) IN
           /\ block.offset = 0 /\ block.first \in Nat
           /\ block.len \in 0 .. Word - 1
           /\ block.len <= MaxSpp \/ cap.count + 2 >= pscfg.packet_total
<1> DEFINE p == Prop
           b == DdBins(p, pkt)
           n == pkt.spp \div 2
           x == (pscfg.fstart * n) \div p.full_bw
           y == (4 * pkt.spp) \div 10
           z == Wrap((pscfg.fstop * n) \div p.full_bw - 1)
           block == BlockOf(p, pkt)
<1>1. /\ pscfg.dd_mode /\ cap.count = 0
      /\ pscfg.fstart \in Nat /\ pscfg.fstop \in Nat
      /\ pscfg.dd_mode <=> pscfg.fstart < p.min_tunable
      /\ pscfg.only_dd <=> pscfg.dd_mode /\ pscfg.fstop < p.min_tunable
      /\ pscfg.only_dd => pscfg.packet_total = 1
      /\ pscfg.dd_mode /\ pscfg.fstop = p.min_tunable => pscfg.packet_total = 2
  BY DEF DdPacket, PlanTyped, Prop
<1>2. /\ p.full_bw \in Nat \ {0} /\ p.min_tunable \in Nat /\ MaxSpp \in Nat
      /\ 10 * p.min_tunable <= 8 * p.full_bw
      /\ MaxSpp < Word
  <2>1. LET coarsest == p.max_tunable \div (p.full_bw \div (MaxSpp \div 2)) IN
        /\ p.full_bw \in Nat \ {0} /\ p.min_tunable \in Nat /\ MaxSpp \in Nat
        /\ 10 * p.min_tunable <= 8 * p.full_bw
        /\ coarsest \in Nat /\ coarsest + 2 * MaxSpp < Word
    BY TableFacts DEF Prop
  <2> QED BY <2>1, CaptureAssumption
<1>3. /\ b = [first |-> x,
              last |-> IF pscfg.fstop > p.min_tunable THEN y ELSE z]
      /\ block = [offset |-> 0, first |-> b.first,
                  len |-> Wrap(b.last - b.first)]
  BY DEF DdBins, BlockOf, OffsetOf
<1>4. n \in Nat /\ 2 * n <= pkt.spp /\ pkt.spp \in Nat /\ pkt.spp <= MaxSpp
  BY <1>2
<1>5. 10 * pscfg.fstart <= 8 * p.full_bw
  BY <1>1, <1>2
<1>6. x \in Nat /\ x <= y
  BY <1>1, <1>2, <1>4, <1>5, FractionOfBins
<1>7. y \in Nat /\ y <= MaxSpp
  BY <1>2, <1>4
<1>8. z \in Int
  <2>1. (pscfg.fstop * n) \div p.full_bw - 1 \in Int
    <3>1. pscfg.fstop * n \in Nat
      BY <1>1, <1>4
    <3> QED BY <1>2, <3>1, DivBounds
  <2> HIDE DEF n, p
  <2> QED BY <2>1, Wraps
<1> HIDE DEF b, n, x, y, z, p, block
<1>9. block.offset = 0 /\ block.first = x /\ block.len = Wrap(b.last - x)
  BY <1>3
<1>10. CASE pscfg.fstop > p.min_tunable
  <2>1. b.last = y
    BY <1>3, <1>10
  <2>2. y - x \in 0 .. Word - 1 /\ y - x <= MaxSpp
    BY <1>2, <1>6, <1>7, CaptureAssumption
  <2>3. Wrap(y - x) = y - x
    BY <2>2, Wraps
  <2>4. block.len = y - x
    BY <1>9, <2>1, <2>3
  <2> QED BY <1>6, <1>9, <2>2, <2>4 DEF block, p
<1>11. CASE ~(pscfg.fstop > p.min_tunable)
  <2>1. pscfg.packet_total = 2
    BY <1>1, <1>2, <1>11
  <2>2. b.last = z
    BY <1>3, <1>11
  <2>3. z - x \in Int
    BY <1>6, <1>8
  <2>4. Wrap(z - x) \in 0 .. Word - 1
    BY <2>3, Wraps
  <2>5. block.len \in 0 .. Word - 1
    BY <1>9, <2>2, <2>4
  <2> QED BY <1>1, <1>6, <1>9, <2>1, <2>5 DEF block, p
<1> QED BY <1>10, <1>11

LEMMA ClampedBlock ==
    ASSUME PlanTyped(pscfg), NEW pkt, ~DdPacket,
           cap.offset \in 0 .. Word - 1, cap.offset <= pscfg.buflen + MaxSpp
    PROVE  LET block == BlockOf(Prop, pkt) IN
           /\ block.offset = cap.offset /\ block.first \in Nat
           /\ block.len \in 0 .. Word - 1
           /\ \/ /\ Wrap(cap.offset + block.len) = cap.offset + block.len
                 /\ cap.offset + block.len < pscfg.buflen
              \/ Wrap(cap.offset + block.len) = pscfg.buflen
<1> DEFINE b == UsableBins(Prop, pkt)
           block == BlockOf(Prop, pkt)
           len == b.last - b.first
           off == cap.offset
           end == pscfg.buflen
           w == Word
<1>1. /\ b.first \in Nat /\ b.last \in Nat /\ b.first <= b.last
      /\ b.last <= MaxSpp
      /\ b = [first |-> b.first, last |-> b.last]
  BY UsableInBand
<1>2. /\ end \in Nat /\ MaxSpp \in Nat /\ end + 2 * MaxSpp < w
  <2>1. LET coarsest == Prop.max_tunable
                          \div (Prop.full_bw \div (MaxSpp \div 2)) IN
        /\ pscfg.buflen \in Nat /\ MaxSpp \in Nat
        /\ pscfg.buflen <= coarsest
        /\ coarsest \in Nat /\ coarsest + 2 * MaxSpp < Word
    BY TableFacts DEF Prop
  <2> QED BY <2>1, CaptureAssumption
<1>3. /\ w \in Nat \ {0} /\ off \in 0 .. w - 1 /\ off <= end + MaxSpp
  BY CaptureAssumption
<1>4. block = [offset |-> off, first |-> Clamped(b).first,
               len |-> Wrap(Clamped(b).last - Clamped(b).first)]
  BY DEF BlockOf, OffsetOf
<1>5. len \in Nat /\ len <= MaxSpp
  BY <1>1, <1>2
<1>6. Wrap(len) = len
  <2>1. len \in 0 .. Word - 1
    BY <1>2, <1>3, <1>5 DEF w
  <2> HIDE DEF len
  <2> QED BY <2>1, Wraps
<1>7. Wrap(off + len) = off + len
  <2>1. off + len \in 0 .. Word - 1
    BY <1>2, <1>3, <1>5 DEF w
  <2> HIDE DEF len, off
  <2> QED BY <2>1, Wraps
<1>8. Clamped(b) = IF (off + len) - end >= 0
                     THEN [b EXCEPT !.last = Wrap(@ - ((off + len) - end))]
                     ELSE b
  BY <1>6, <1>7 DEF Clamped
<1> HIDE DEF b, block, off, end, w
<1>9. CASE off + len < end
  <2>1. Clamped(b) = b
    BY <1>2, <1>3, <1>5, <1>8, <1>9
  <2>2. block.offset = off /\ block.first = b.first /\ block.len = len
    BY <1>4, <1>6, <2>1
  <2>3. len \in 0 .. w - 1
    BY <1>2, <1>3, <1>5
  <2> QED BY <1>1, <1>7, <1>9, <2>2, <2>3 DEF block, off, end, w
<1>10. CASE off + len >= end
  <2> DEFINE l == b.last - ((off + len) - end)
             cut == Wrap(l)
             k == end - off
  <2>1. l \in Int
    BY <1>1, <1>2, <1>3, <1>5
  <2>2. l - b.first = k /\ k \in Int
    BY <1>1, <1>2, <1>3 DEF len
  <2>3. Clamped(b) = [first |-> b.first, last |-> cut]
    <3>1. (off + len) - end >= 0
      BY <1>2, <1>3, <1>5, <1>10
    <3>2. Clamped(b) = [b EXCEPT !.last = Wrap(@ - ((off + len) - end))]
      BY Zenon, <1>8, <3>1
    <3> HIDE DEF len
    <3> QED BY <1>1, <3>2
  <2>4. Wrap(cut - b.first) = Wrap(k)
    <3>1. l \in -w .. w - 1 /\ k \in -w .. w - 1 /\ k <= end
      BY <1>1, <1>2, <1>3, <2>1, <2>2
    <3>2. (cut = l \/ (l < 0 /\ cut = l + w)) /\ cut \in 0 .. w - 1
      <4> HIDE DEF l
      <4>1. l \in 0 .. Word - 1 \/ l \in -Word .. -1
        BY <1>3, <2>1, <3>1 DEF w
      <4> QED BY <1>3, <2>1, <4>1, Wraps DEF w
    <3> HIDE DEF cut
    <3>3. CASE cut = l
      BY <2>2, <3>3
    <3>4. CASE l < 0 /\ cut = l + w
      <4>1. k \in -w .. -1 /\ cut - b.first = k + w
        <5> HIDE DEF l, k
        <5>1. l = k + b.first
          BY <1>1, <2>1, <2>2
        <5> QED BY <1>1, <1>3, <2>2, <3>1, <3>2, <3>4, <5>1
      <4>2. k + w \in 0 .. w - 1
        <5> HIDE DEF k
        <5> QED BY <1>3, <4>1
      <4> HIDE DEF k, l
      <4>3. Wrap(k) = k + w /\ Wrap(k + w) = k + w
        BY <1>3, <4>1, <4>2, Wraps DEF w
      <4> QED BY <4>1, <4>3
    <3> QED BY <3>2, <3>3, <3>4
  <2>5. block.offset = off /\ block.first = b.first /\ block.len = Wrap(k)
    <3> HIDE DEF cut, k
    <3> QED BY <1>4, <2>3, <2>4
  <2>6. Wrap(k) \in 0 .. w - 1
    <3> HIDE DEF k
    <3> QED BY <2>2, Wraps DEF w
  <2>7. Wrap(off + Wrap(k)) = end
    <3>1. CASE k >= 0
      <4>1. k \in 0 .. Word - 1
        BY <1>2, <1>3, <2>2, <3>1 DEF w
      <4>2. Wrap(k) = k
        <5> HIDE DEF k
        <5> QED BY <4>1, Wraps
      <4>3. off + k = end /\ end \in 0 .. Word - 1
        BY <1>2, <1>3 DEF w
      <4> HIDE DEF k
      <4> QED BY <4>2, <4>3, Wraps
    <3>2. CASE k < 0
      <4>1. k \in -Word .. -1
        BY <1>2, <1>3, <2>2, <3>2 DEF w
      <4>2. Wrap(k) = k + Word
        <5> HIDE DEF k
        <5> QED BY <4>1, Wraps
      <4>3. off + (k + Word) = end + Word /\ end + Word \in Word .. 2 * Word - 1
            /\ (end + Word) - Word = end
        BY <1>2, <1>3 DEF w
      <4> HIDE DEF k
      <4>4. Wrap(end + Word) = end
        BY <4>3, Wraps
      <4> QED BY <4>2, <4>3, <4>4
    <3> QED BY <2>2, <3>1, <3>2
  <2> HIDE DEF k, l, cut
  <2> QED BY <1>1, <2>5, <2>6, <2>7 DEF block, off, end, w
<1> QED BY <1>2, <1>3, <1>5, <1>9, <1>10

(***************************************************************************)
(* While packets are read, the bins in the buffer that are no poison lie     *)
(* below the offset, and the offset does not run away before the last        *)
(* packet: whatever packets come, and however often the unsigned counters    *)
(* wrap.                                                                    *)
(***************************************************************************)
Pasted ==
    pc = "read" =>
        /\ cap.offset \in 0 .. Word - 1
        /\ cap.count = 0 =>
              cap.offset = 0 /\ \A i \in Bins : cap.buf[i] = Poison
        /\ \A i \in Bins : cap.buf[i] # Poison => i < cap.offset
        /\ cap.offset <= pscfg.buflen + MaxSpp \/ LastPacket

\* What one more packet that is not the last does to the spectrum.
LEMMA PastedOnce ==
    ASSUME PlanTyped(pscfg), NEW pkt, pkt.spp \in 0 .. MaxSpp,
           pc = "read", Pasted, cap.count \in Nat,
           cap.count + 1 < pscfg.packet_total,
           pscfg.packet_total \in Nat,
           pscfg' = pscfg, cap' = Paste(Prop, pkt)
    PROVE  Pasted'
<1> DEFINE block == BlockOf(Prop, pkt)
           n == Copied(pkt, block)
           off == Wrap(block.offset + block.len)
<1>1. /\ cap.offset \in 0 .. Word - 1
      /\ cap.count = 0 => cap.offset = 0 /\ \A i \in Bins : cap.buf[i] = Poison
      /\ \A i \in Bins : cap.buf[i] # Poison => i < cap.offset
      /\ cap.offset <= pscfg.buflen + MaxSpp
  BY DEF Pasted, LastPacket
<1>2. /\ pscfg.buflen \in Nat /\ MaxSpp \in Nat /\ MaxSpp < Word
      /\ Word \in Nat \ {0} /\ pscfg.buflen + MaxSpp < Word
  <2>1. LET coarsest == Prop.max_tunable
                          \div (Prop.full_bw \div (MaxSpp \div 2)) IN
        /\ pscfg.buflen \in Nat /\ MaxSpp \in Nat
        /\ pscfg.buflen <= coarsest
        /\ coarsest \in Nat /\ coarsest + 2 * MaxSpp < Word
    BY TableFacts DEF Prop
  <2> QED BY <2>1, CaptureAssumption
<1>3. /\ cap'.count = cap.count + 1 /\ cap'.offset = off
      /\ \A i \in Bins :
            cap'.buf[i] = IF i >= block.offset /\ i < block.offset + n
                            THEN cap'.buf[i] ELSE cap.buf[i]
  BY <1>2 DEF Paste, Bins
<1>4. /\ block.offset \in Nat /\ block.first \in Nat
      /\ block.len \in 0 .. Word - 1
      /\ DdPacket => block.offset = 0
      /\ ~DdPacket => block.offset = cap.offset
  BY <1>1, DdBlock, ClampedBlock
<1>5. n \in Nat /\ n <= block.len
  <2>1. pkt.spp \in Nat /\ block.len \in Nat /\ block.first \in Int
        /\ block.offset \in Int /\ pscfg.buflen \in Int
    BY <1>2, <1>4
  <2> HIDE DEF block
  <2>2. Copied(pkt, block) \in Nat /\ Copied(pkt, block) <= block.len
    BY <2>1, CopiedBounds
  <2> QED BY <2>2
\* Either nothing wraps, or the spectrum reaches the end of the buffer.
<1>6. \/ off = block.offset + block.len
      \/ ~DdPacket /\ off = pscfg.buflen
  <2>1. CASE DdPacket
    <3>1. block.offset = 0 /\ Wrap(block.len) = block.len
      <4> HIDE DEF block
      <4> QED BY <1>4, <2>1, Wraps
    <3> HIDE DEF block
    <3> QED BY <1>4, <3>1
  <2>2. CASE ~DdPacket
    <3>1. block.offset = cap.offset
      BY <1>4, <2>2
    <3>2. \/ Wrap(cap.offset + block.len) = cap.offset + block.len
          \/ Wrap(cap.offset + block.len) = pscfg.buflen
      BY <1>1, <2>2, ClampedBlock
    <3> HIDE DEF block
    <3> QED BY <2>2, <3>1, <3>2
  <2> QED BY <2>1, <2>2
<1>7. off <= pscfg.buflen + MaxSpp \/ cap.count + 2 >= pscfg.packet_total
  <2>1. CASE DdPacket
    <3>1. block.len <= MaxSpp \/ cap.count + 2 >= pscfg.packet_total
      BY <2>1, DdBlock
    <3> HIDE DEF block, off
    <3> QED BY <1>2, <1>4, <1>6, <2>1, <3>1
  <2>2. CASE ~DdPacket
    <3>1. \/ /\ Wrap(cap.offset + block.len) = cap.offset + block.len
             /\ cap.offset + block.len < pscfg.buflen
          \/ Wrap(cap.offset + block.len) = pscfg.buflen
      BY <1>1, <2>2, ClampedBlock
    <3>2. off = Wrap(cap.offset + block.len)
      BY <1>4, <2>2
    <3> HIDE DEF block, off
    <3> QED BY <1>1, <1>2, <1>4, <3>1, <3>2
  <2> QED BY <2>1, <2>2
<1>8. off \in 0 .. Word - 1
  <2>1. block.offset + block.len \in Int
    BY <1>4
  <2> HIDE DEF block
  <2> QED BY <2>1, Wraps
<1> HIDE DEF n, off, block
<1>9. Bins' = Bins /\ Bins = 0 .. pscfg.buflen - 1
  BY DEF Bins
<1>10. ASSUME NEW i \in Bins, cap'.buf[i] # Poison
       PROVE  i < off
  <2>1. i \in Nat /\ i < pscfg.buflen
    BY <1>2, <1>9
  <2>2. CASE off = pscfg.buflen
    BY <2>1, <2>2
  <2>3. CASE off = block.offset + block.len
    <3>1. CASE i >= block.offset /\ i < block.offset + n
      BY <1>4, <1>5, <2>1, <2>3, <3>1
    <3>2. CASE ~(i >= block.offset /\ i < block.offset + n)
      <4>1. cap'.buf[i] = cap.buf[i]
        BY Zenon, <1>3, <3>2
      <4>2. cap.buf[i] # Poison
        BY <1>10, <4>1
      <4>3. i < cap.offset /\ ~(cap.count = 0)
        BY <1>1, <4>2
      <4>4. ~DdPacket
        BY <4>3 DEF DdPacket
      <4> QED BY <1>4, <2>1, <2>3, <4>3, <4>4
    <3> QED BY <3>1, <3>2
  <2> QED BY <1>6, <2>2, <2>3
<1>11. cap'.offset <= pscfg'.buflen + MaxSpp \/ LastPacket'
  BY <1>3, <1>7 DEF LastPacket
<1>12. cap'.count # 0
  BY <1>3
<1> QED BY <1>3, <1>8, <1>9, <1>10, <1>11, <1>12 DEF Pasted

LEMMA PastedInit == CaptureInit => Pasted
  BY DEF CaptureInit, Pasted

LEMMA PastedStep ==
    Inv /\ Traffic /\ Pasted /\ [CaptureNext]_capVars => Pasted'
<1> SUFFICES ASSUME Inv, Traffic, Pasted, [CaptureNext]_capVars PROVE Pasted'
  OBVIOUS
<1>1. ASSUME pc' # "read" PROVE Pasted'
  BY <1>1 DEF Pasted
<1>2. ASSUME pc' = pc, cap' = cap, pscfg' = pscfg PROVE Pasted'
  BY <1>2 DEF Pasted, Bins, LastPacket
<1>3. CASE StartCapture
  <2>1. /\ pscfg' = pscfg /\ cap'.count = 0 /\ cap'.offset = 0
        /\ cap'.buf = [i \in 0 .. pscfg.buflen |-> Poison]
    BY <1>3 DEF StartCapture, NoCapture
  <2>2. pc = "load" /\ Planned /\ PlanInv
    BY <1>3 DEF StartCapture, Inv, CaptureInv
  <2>3. PlanTyped(pscfg)
    BY <2>2, PlanIsTyped
  <2>4. pscfg.buflen \in Nat /\ MaxSpp \in Nat /\ Word \in Nat \ {0}
    BY <2>3, TableFacts, CaptureAssumption
  <2>5. Bins' = Bins /\ \A i \in Bins : cap'.buf[i] = Poison
    BY <2>1, <2>4 DEF Bins
  <2> QED BY <2>1, <2>4, <2>5 DEF Pasted
<1>4. CASE ReadPacket
  <2>1. /\ pc = "read" /\ socket # <<>> /\ pscfg' = pscfg
        /\ cap' = Paste(Prop, Head(socket))
        /\ LastPacket => pc' = "measure"
    BY <1>4 DEF ReadPacket
  <2>2. /\ PlanInv /\ Planned /\ cap.count \in 0 .. pscfg.packet_total - 1
    BY <2>1 DEF Inv, CaptureInv
  <2>3. PlanTyped(pscfg) /\ pscfg.packet_total \in Nat
    BY <2>2, PlanIsTyped, SomePacket
  <2>4. Head(socket).spp \in 0 .. MaxSpp
    <3>1. Head(socket) \in Packet
      BY <2>1 DEF Traffic
    <3> QED BY <3>1 DEF Packet
  <2>5. CASE LastPacket
    BY <1>1, <2>1, <2>5
  <2>6. CASE ~LastPacket
    <3>1. cap.count \in Nat /\ cap.count + 1 < pscfg.packet_total
      BY <2>2, <2>3, <2>6 DEF LastPacket
    <3> QED BY <2>1, <2>3, <2>4, <3>1, PastedOnce
  <2> QED BY <2>5, <2>6
<1>5. ASSUME NEW q \in Requests, Measure(q) PROVE Pasted'
  <2>1. pc' # "read"
    BY <1>5 DEF Measure
  <2> QED BY <1>1, <2>1
<1>6. CASE IdentityLost \/ LoadCommand
  BY <1>1, <1>6 DEF IdentityLost, LoadCommand
<1>7. CASE ReadTimeout \/ ReadError \/ AbortCapture
  BY <1>1, <1>7 DEF ReadTimeout, ReadError, AbortCapture
<1>8. CASE peak_find \/ calculate_channel_power \/ Return
  BY <1>1, <1>8 DEF peak_find, calculate_channel_power, Return
<1>9. CASE DeviceSends
  BY <1>2, <1>9 DEF DeviceSends
<1>10. CASE UNCHANGED capVars
  BY <1>2, <1>10 DEF capVars
<1> QED BY <1>3, <1>4, <1>5, <1>6, <1>7, <1>8, <1>9, <1>10
        DEF CaptureNext, ClientNext

\* A packet leaves the bins of the packets before it alone, whatever the
\* instrument sends: late packets of an earlier sweep, of another size, or in
\* another order.
THEOREM BlocksApart == CaptureSpec => NeverOverwrites
<1>1. ASSUME Pasted, [CaptureNext]_capVars, pc = "read",
             NEW i \in Bins, cap.buf[i] # Poison, PlanTyped(pscfg),
             cap.count \in Nat
      PROVE  cap'.buf[i] = cap.buf[i]
  <2>1. /\ cap.offset \in Nat /\ i < cap.offset /\ ~(cap.count = 0)
        /\ pscfg.buflen \in Nat
    BY <1>1, TableFacts, CaptureAssumption DEF Pasted
  <2>2. i \in Nat /\ i \in 0 .. pscfg.buflen
    BY <2>1 DEF Bins
  <2>3. CASE ReadPacket
    <3> DEFINE block == BlockOf(Prop, Head(socket))
               n == Copied(Head(socket), block)
    <3>1. ~DdPacket
      BY <1>1, <2>1 DEF DdPacket
    <3>2. block.offset = cap.offset
      BY <3>1 DEF BlockOf, OffsetOf
    <3>3. cap' = Paste(Prop, Head(socket))
      BY <2>3 DEF ReadPacket
    <3>4. ~(i >= block.offset /\ i < block.offset + n) =>
             cap'.buf[i] = cap.buf[i]
      BY <2>2, <3>3 DEF Paste
    <3> HIDE DEF block, n
    <3> QED BY <2>1, <2>2, <3>2, <3>4
  <2>4. CASE ~ReadPacket
    <3>1. cap' = cap
      BY <1>1, <2>4 DEF CaptureNext, ClientNext, Measure, IdentityLost, LoadCommand,
            StartCapture, ReadTimeout, ReadError, AbortCapture, peak_find,
            calculate_channel_power, Return, DeviceSends, capVars
    <3> QED BY <3>1
  <2> QED BY <2>3, <2>4
<1>2. ASSUME Inv, Pasted, [CaptureNext]_capVars
      PROVE  [pc = "read" =>
                 \A i \in Bins :
                    cap.buf[i] # Poison => cap'.buf[i] = cap.buf[i]]_capVars
  <2>1. ASSUME pc = "read" PROVE PlanTyped(pscfg) /\ cap.count \in Nat
    <3>1. Planned /\ PlanInv /\ cap.count \in 0 .. pscfg.packet_total - 1
      BY <1>2, <2>1 DEF Inv, CaptureInv
    <3> QED BY <3>1, PlanIsTyped, SomePacket
  <2> QED BY <1>1, <1>2, <2>1
<1> QED BY <1>2, InvInit, InvNext, TrafficInit, TrafficStep, PastedInit,
           PastedStep, PTL DEF CaptureSpec, NeverOverwrites

(***************************************************************************)
(* With nothing refused, lost or late, the packets come in the order of the  *)
(* plan: the direct digitizer's first if there is one, and then the steps.   *)
(* n is the number of the sweep.                                            *)
(***************************************************************************)
Lead == IF pscfg.dd_mode THEN 1 ELSE 0

NthPacket(q, k, n) ==
    /\ q.sweep = n /\ q.spp = pscfg.samples_per_packet
    /\ k <= Lead => q.dd /\ ~q.inv
    /\ k > Lead => /\ q.centre = Centre(pscfg.entry, k - 1 - Lead)
                   /\ q.dd = (pscfg.mode = "DD")
                   /\ q.inv => pscfg.mode # "DD"

LEMMA EntryPacketIs ==
    ASSUME NEW e, NEW n, NEW j \in 1 .. LastStep(e) + 1
    PROVE  LET q == EntryPackets(e, n)[j] IN
           /\ q.sweep = n /\ q.spp = e.spp /\ q.dd = (e.mode = "DD")
           /\ q.centre = Centre(e, j - 1)
           /\ q.inv => e.mode # "DD"
  BY DEF EntryPackets

LEMMA SweepAt ==
    ASSUME NEW list, NEW n, Len(list) \in {1, 2},
           \A i \in 1 .. Len(list) : LastStep(list[i]) \in Nat
    PROVE  LET l == LastStep(list[1]) + 1 IN
           /\ \A j \in 1 .. l :
                 SweepOf(list, n)[j] = EntryPackets(list[1], n)[j]
           /\ Len(list) = 2 =>
                 \A j \in 1 .. LastStep(list[2]) + 1 :
                    SweepOf(list, n)[l + j] = EntryPackets(list[2], n)[j]
<1> DEFINE a == EntryPackets(list[1], n)
           b == EntryPackets(list[2], n)
           all == SweepOf(list, n)
           l == LastStep(list[1]) + 1
<1>1. PICK first : /\ first = <<>> \o a
                   /\ Len(list) = 1 => all = first
                   /\ Len(list) = 2 => all = first \o b
  BY SweepOfTwo
<1>2. IsQueue(a) /\ Len(a) = l /\ LastStep(list[1]) \in Nat
  BY PacketsOfEntry
<1>3. Len(list) = 2 =>
         IsQueue(b) /\ Len(b) = LastStep(list[2]) + 1 /\ LastStep(list[2]) \in Nat
  BY PacketsOfEntry
<1> HIDE DEF a, b, all, l
<1>4. /\ IsQueue(first) /\ Len(first) = l
      /\ \A j \in 1 .. l : first[j] = a[j]
  <2>1. IsQueue(<<>>) /\ Len(<<>>) = 0
    BY Literals
  <2>2. IsJoin(first, <<>>, a)
    BY <1>1, <1>2, <2>1, Joined
  <2>3. /\ IsQueue(first) /\ Len(first) = 0 + l
        /\ \A j \in 1 .. l : first[0 + j] = a[j]
    BY <1>2, <2>1, <2>2 DEF IsJoin
  <2>4. l \in Nat
    BY <1>2 DEF l
  <2> QED BY <2>3, <2>4
<1>5. CASE Len(list) = 1
  BY <1>1, <1>4, <1>5 DEF all, a, l
<1>6. CASE Len(list) = 2
  <2>1. IsJoin(all, first, b)
    BY <1>1, <1>3, <1>4, <1>6, Joined
  <2>2. /\ \A j \in 1 .. l : all[j] = first[j]
        /\ \A j \in 1 .. LastStep(list[2]) + 1 : all[l + j] = b[j]
    BY <1>3, <1>4, <1>6, <2>1 DEF IsJoin
  <2>3. \A j \in 1 .. l : all[j] = a[j]
    BY <1>4, <2>2
  <2> QED BY <1>6, <2>2, <2>3 DEF all, a, b, l
<1> QED BY <1>5, <1>6

LEMMA SweepInOrder ==
    ASSUME PlanInv, Planned, ~OneStepWide(pscfg), Loading, script = <<>>,
           NEW n, NEW j \in 1 .. pscfg.packet_total
    PROVE  NthPacket(SweepOf(device.list, n)[j], j, n)
<1> DEFINE list == device.list
           saved == IF pscfg.dd_mode THEN 1 ELSE 0
           K == LastStep(pscfg.entry)
<1>1. /\ Len(list) = saved + (IF pscfg.only_dd THEN 0 ELSE 1)
      /\ saved = 1 => IsDd(list[1])
      /\ ~pscfg.only_dd => IsMain(list[saved + 1])
      /\ K \in Nat /\ (pscfg.only_dd => saved = 1) /\ saved \in {0, 1}
  BY LoadedList
<1>2. \/ pscfg.only_dd /\ pscfg.packet_total = 1
      \/ /\ ~pscfg.only_dd
         /\ pscfg.packet_total = saved + K + 1
  BY PlanAgrees DEF PacketsAgree, OneStepWide
<1>3. Lead = saved
  BY DEF Lead
<1>4. ASSUME NEW e, IsMain(e)
      PROVE  LastStep(e) = K /\ \A k \in Nat : Centre(e, k) = Centre(pscfg.entry, k)
  BY <1>4 DEF IsMain, LastStep, Centre
<1> HIDE DEF list, saved, K
<1>5. Len(list) \in {1, 2}
  BY <1>1
<1>6. \A i \in 1 .. Len(list) : LastStep(list[i]) \in Nat
  <2>1. saved = 1 => LastStep(list[1]) = 0
    BY <1>1 DEF IsDd, OneStep
  <2>2. ~pscfg.only_dd => LastStep(list[saved + 1]) = K
    BY <1>1, <1>4
  <2> QED BY <1>1, <2>1, <2>2
<1>7. CASE saved = 1 /\ j = 1
  <2>1. LastStep(list[1]) = 0 /\ list[1].mode = "DD"
        /\ list[1].spp = pscfg.samples_per_packet
    BY <1>1, <1>7 DEF IsDd, OneStep
  <2>2. SweepOf(list, n)[1] = EntryPackets(list[1], n)[1]
    BY <1>5, <1>6, <2>1, SweepAt
  <2>3. 1 \in 1 .. LastStep(list[1]) + 1
    BY <2>1
  <2>4. LET q == EntryPackets(list[1], n)[1] IN
        /\ q.sweep = n /\ q.spp = list[1].spp /\ q.dd = (list[1].mode = "DD")
        /\ q.inv => list[1].mode # "DD"
    BY <2>3, EntryPacketIs
  <2>5. LET q == EntryPackets(list[1], n)[1] IN
        /\ q.sweep = n /\ q.spp = pscfg.samples_per_packet /\ q.dd /\ ~q.inv
    BY Zenon, <2>1, <2>4
  <2>6. j <= Lead /\ ~(j > Lead) /\ j = 1
    BY <1>3, <1>7
  <2> QED BY Zenon, <2>2, <2>5, <2>6 DEF NthPacket, list
<1>8. CASE saved = 1 /\ j # 1
  <2> DEFINE k == j - 1
             e == list[2]
  <2>1. /\ ~pscfg.only_dd /\ Len(list) = 2 /\ LastStep(list[1]) = 0
        /\ IsMain(e)
    BY <1>1, <1>2, <1>8 DEF IsDd, OneStep
  <2>2. k \in 1 .. LastStep(e) + 1 /\ 1 + k = j /\ k - 1 \in Nat
        /\ k - 1 = j - 1 - saved
    BY <1>1, <1>2, <1>4, <1>8, <2>1
  <2> HIDE DEF k, e
  <2>3. SweepOf(list, n)[j] = EntryPackets(e, n)[k]
    <3>1. \A i \in 1 .. LastStep(list[2]) + 1 :
             SweepOf(list, n)[(0 + 1) + i] = EntryPackets(list[2], n)[i]
      BY <1>5, <1>6, <2>1, SweepAt
    <3>2. SweepOf(list, n)[(0 + 1) + k] = EntryPackets(list[2], n)[k]
      BY <2>2, <3>1 DEF e
    <3> QED BY <2>2, <3>2 DEF e
  <2>4. ~(j <= Lead)
    BY <1>3, <1>8
  <2>5. e.mode = pscfg.mode /\ e.spp = pscfg.samples_per_packet
        /\ Centre(e, k - 1) = Centre(pscfg.entry, j - 1 - Lead)
    BY <1>3, <1>4, <2>1, <2>2 DEF IsMain
  <2>6. LET q == EntryPackets(e, n)[k] IN
        /\ q.sweep = n /\ q.spp = e.spp /\ q.dd = (e.mode = "DD")
        /\ q.centre = Centre(e, k - 1)
        /\ q.inv => e.mode # "DD"
    BY <2>2, EntryPacketIs
  <2> QED BY <2>3, <2>4, <2>5, <2>6 DEF NthPacket, list
<1>9. CASE saved = 0
  <2> DEFINE e == list[1]
  <2>1. ~pscfg.only_dd /\ Len(list) = 1 /\ IsMain(e)
    BY <1>1, <1>9
  <2>2. j \in 1 .. LastStep(e) + 1 /\ j - 1 \in Nat /\ j - 1 = j - 1 - saved
    BY <1>1, <1>2, <1>4, <1>9, <2>1
  <2> HIDE DEF e
  <2>3. SweepOf(list, n)[j] = EntryPackets(e, n)[j]
    BY <1>5, <1>6, <2>1, <2>2, SweepAt DEF e
  <2>4. ~(j <= Lead)
    BY <1>3, <1>9
  <2>5. e.mode = pscfg.mode /\ e.spp = pscfg.samples_per_packet
        /\ Centre(e, j - 1) = Centre(pscfg.entry, j - 1 - Lead)
    BY <1>3, <1>4, <2>1, <2>2 DEF IsMain
  <2>6. LET q == EntryPackets(e, n)[j] IN
        /\ q.sweep = n /\ q.spp = e.spp /\ q.dd = (e.mode = "DD")
        /\ q.centre = Centre(e, j - 1)
        /\ q.inv => e.mode # "DD"
    BY <2>2, EntryPacketIs
  <2> QED BY <2>3, <2>4, <2>5, <2>6 DEF NthPacket, list
<1> QED BY <1>1, <1>7, <1>8, <1>9

(***************************************************************************)
(* How far the spectrum reaches, in hertz from its start, after count        *)
(* packets: what every step brings is more than its width.                  *)
(***************************************************************************)
Reach(count) ==
    IF ~pscfg.dd_mode THEN count * (pscfg.entry.fstep + 1)
    ELSE IF count = 0 THEN 0
    ELSE Prop.min_tunable - pscfg.fstart - pscfg.samples_per_packet \div 2
         - 2 * pscfg.rbw + (count - 1) * (pscfg.entry.fstep + 1)

\* The bins between two frequencies are no more than one short of their
\* distance, nor than one beyond it.
LEMMA BinsBetween ==
    ASSUME NEW a \in Nat, NEW b \in Nat, NEW r \in Nat \ {0}, NEW s \in Nat,
           a <= b, s + r <= b - a
    PROVE  /\ (b \div r - a \div r) * r >= s + 1
           /\ (b \div r - a \div r) * r < b - a + r
<1> DEFINE x == a \div r
           y == b \div r
<1>1. /\ x \in Nat /\ x * r <= a /\ a < x * r + r
      /\ y \in Nat /\ y * r <= b /\ b < y * r + r
  BY DivBounds
<1> HIDE DEF x, y
<1>2. (y - x) * r = y * r - x * r /\ x * r \in Nat /\ y * r \in Nat
  BY <1>1, Z3
<1>3. y * r - x * r >= s + 1 /\ y * r - x * r < b - a + r
  BY <1>1, <1>2
<1> QED BY <1>2, <1>3 DEF x, y

LEMMA BinsBelow ==
    ASSUME NEW B \in Nat, NEW n \in Nat \ {0}, NEW r \in Nat \ {0},
           r = B \div n, NEW f \in Nat, f + n <= B
    PROVE  f \div r <= n
<1> DEFINE x == f \div r
<1>1. x \in Nat /\ x * r <= f /\ B < r * n + n
  BY DivBounds
<1> HIDE DEF x
<1> SUFFICES ASSUME x >= n PROVE FALSE
  BY <1>1 DEF x
<1>2. x * r >= n * r
  BY <1>1, Z3
<1>3. n * r = r * n /\ n * r \in Nat /\ x * r \in Nat
  BY <1>1, Z3
<1> QED BY <1>1, <1>2, <1>3

\* What the plan says of its steps: the step is a bin short of the usable band,
\* and the first one is centred half a band above the start at most.
LEMMA PlanReaches ==
    ASSUME PlanInv, Planned
    PROVE  LET p == Prop
               e == pscfg.entry
               half == HalfUsable(p) IN
           /\ p.usable_bw \in Nat /\ half \in Nat
           /\ 2 * half <= p.usable_bw /\ p.usable_bw <= 2 * half + 1
           /\ p.tuning_resolution \in Nat /\ 4 * p.tuning_resolution <= p.usable_bw
           /\ e.fcstart \in Nat /\ e.fstep \in Nat \ {0}
           /\ e.fstep + pscfg.rbw <= p.usable_bw
           /\ p.usable_bw < e.fstep + pscfg.rbw + p.tuning_resolution
           /\ ~pscfg.dd_mode =>
                 /\ e.fcstart <= pscfg.fstart + half
                 /\ pscfg.fstart + half < e.fcstart + p.tuning_resolution
           /\ pscfg.dd_mode =>
                 /\ e.fcstart + p.tuning_resolution <= p.min_tunable + half
                 /\ p.min_tunable + half < e.fcstart + 2 * p.tuning_resolution
           /\ pscfg.fstop <= e.fcstart => LastStep(e) = 0
           /\ \E err \in FloatErrors :
                 /\ 2 * (p.tuning_resolution - err) < p.usable_bw
                 /\ err \in Int
                 /\ pscfg.fstop > e.fcstart =>
                       e.fcstop = pscfg.fstop + e.fstep + err
<1>1. PICK q \in Requests, err \in FloatErrors : MadeFor(q, err)
  BY DEF PlanInv
<1> DEFINE p == Properties[q.mode]
           half == HalfUsable(p)
           res == p.tuning_resolution
           U == p.usable_bw
<1>2. Asked(p, q, err)
  BY <1>1 DEF MadeFor
<1>3. /\ Prop = p
      /\ pscfg.fstart = q.fstart /\ pscfg.fstop = q.fstop
      /\ pscfg.rbw = Rbw(p, q.rbw)
      /\ pscfg.entry.fcstart = Fcstart(p, q.fstart)
      /\ pscfg.entry.fcstop = Fcstop(p, q, err)
      /\ pscfg.entry.fstep = Fstep(p, q.rbw)
      /\ pscfg.dd_mode = NeedsDd(p, q.fstart)
  BY <1>1, FieldsOf
<1>4. /\ U \in Nat /\ res \in Nat \ {0} /\ p.min_tunable \in Nat
      /\ q.fstart \in Nat /\ q.fstop \in Nat /\ err \in Int
      /\ 2 * (res - err) < U /\ res <= p.min_tunable
  BY <1>2, AskedFacts
<1>11. 4 * res <= U
  <2>1. 2 * (p.full_bw \div (MinSpp \div 2) + 2 * res) < U
    BY <1>2, AskedFacts
  <2>2. p.full_bw \div (MinSpp \div 2) \in Nat
    <3>1. p.full_bw \in Nat /\ MinSpp \div 2 \in Nat \ {0}
      BY <1>2, AskedFacts, PlanAssumption
    <3> QED BY <3>1, DivBounds
  <2> HIDE DEF p
  <2> QED BY <1>4, <2>1, <2>2
<1>5. /\ Fcstart(p, q.fstart) \in Nat /\ half \in Nat
      /\ ~NeedsDd(p, q.fstart) => Fcstart(p, q.fstart) <= q.fstart + half
      /\ 2 * half <= U /\ U <= 2 * half + 1
  BY <1>2, StartBounds
<1>6. pscfg.entry.fstep \in Nat \ {0}
  BY <1>1, EntryFacts
<1>7. /\ Fstep(p, q.rbw) + pscfg.rbw <= U
      /\ U < Fstep(p, q.rbw) + pscfg.rbw + res
  <2> DEFINE w == U - Rbw(p, q.rbw)
  <2>1. Rbw(p, q.rbw) \in Nat
    BY <1>2, RbwBounds
  <2>2. w \in Nat
    <3>1. /\ Rbw(p, q.rbw) <= p.full_bw \div (MinSpp \div 2)
          /\ 2 * (p.full_bw \div (MinSpp \div 2) + 2 * res) < U
      BY <1>2, RbwBounds, AskedFacts
    <3>2. p.full_bw \div (MinSpp \div 2) \in Nat
      <4>1. p.full_bw \in Nat /\ MinSpp \div 2 \in Nat \ {0}
        BY <1>2, AskedFacts, PlanAssumption
      <4> QED BY <4>1, DivBounds
    <3> QED BY <1>4, <2>1, <3>1, <3>2
  <2>3. Down(w, res) \in Nat /\ Down(w, res) <= w /\ w < Down(w, res) + res
    BY <1>4, <2>2, DownBounds
  <2>4. Fstep(p, q.rbw) = Down(w, res)
    BY DEF Fstep
  <2> HIDE DEF p
  <2> QED BY <1>3, <1>4, <2>1, <2>3, <2>4
<1>12. ~NeedsDd(p, q.fstart) => q.fstart + half < Fcstart(p, q.fstart) + res
  <2> SUFFICES ASSUME ~NeedsDd(p, q.fstart)
               PROVE  q.fstart + half < Fcstart(p, q.fstart) + res
    OBVIOUS
  <2> DEFINE w == q.fstart + half
  <2>1. w \in Nat /\ Fcstart(p, q.fstart) = Down(w, res)
    BY <1>4, <1>5 DEF Fcstart
  <2> HIDE DEF w, p, half
  <2>2. w < Down(w, res) + res
    BY <1>4, <2>1, DownBounds
  <2> QED BY <2>1, <2>2 DEF w
<1>8. NeedsDd(p, q.fstart) =>
         /\ Fcstart(p, q.fstart) + res <= p.min_tunable + half
         /\ p.min_tunable + half < Fcstart(p, q.fstart) + 2 * res
  <2> SUFFICES ASSUME NeedsDd(p, q.fstart)
               PROVE  /\ Fcstart(p, q.fstart) + res <= p.min_tunable + half
                      /\ p.min_tunable + half < Fcstart(p, q.fstart) + 2 * res
    OBVIOUS
  <2> DEFINE w == p.min_tunable + half - res
  <2>1. w \in Nat /\ Fcstart(p, q.fstart) = Down(w, res)
    BY <1>4, <1>5 DEF Fcstart
  <2>2. Down(w, res) <= w /\ Down(w, res) \in Nat /\ w < Down(w, res) + res
    BY <1>4, <2>1, DownBounds
  <2> HIDE DEF p, half
  <2> QED BY <1>4, <1>5, <2>1, <2>2
<1>9. /\ q.fstop <= Fcstart(p, q.fstart) =>
            Fcstop(p, q, err) = Fcstart(p, q.fstart)
      /\ q.fstop > Fcstart(p, q.fstart) =>
            Fcstop(p, q, err) = q.fstop + Fstep(p, q.rbw) + err
  BY <1>2, StopBounds
<1> HIDE DEF p, half, res, U
<1>10. pscfg.fstop <= pscfg.entry.fcstart => LastStep(pscfg.entry) = 0
  <2> SUFFICES ASSUME pscfg.fstop <= pscfg.entry.fcstart
               PROVE  LastStep(pscfg.entry) = 0
    OBVIOUS
  <2>1. pscfg.entry.fcstop - pscfg.entry.fcstart = 0
    BY <1>3, <1>5, <1>9
  <2>2. 0 \div pscfg.entry.fstep = 0
    BY <1>6, Z3
  <2> QED BY <2>1, <2>2 DEF LastStep
<1> QED BY <1>3, <1>4, <1>5, <1>6, <1>7, <1>8, <1>9, <1>10, <1>11, <1>12
        DEF p, half, res, U

\* All the packets of a plan that is not of the direct digitizer alone reach
\* the end of the range, or less than a bin short of it.
LEMMA EndReached ==
    ASSUME PlanInv, Planned, ~OneStepWide(pscfg), ~pscfg.only_dd
    PROVE  Reach(pscfg.packet_total) + pscfg.rbw
              > pscfg.fstop - pscfg.fstart
<1> DEFINE p == Prop
           e == pscfg.entry
           half == HalfUsable(p)
           res == p.tuning_resolution
           U == p.usable_bw
           K == LastStep(e) + 1
           s == e.fstep
           n == pscfg.samples_per_packet \div 2
           r == pscfg.rbw
           fs == pscfg.fstart
           fe == pscfg.fstop
           T == p.min_tunable
           main == K * (s + 1)
<1>1. /\ U \in Nat /\ half \in Nat /\ 2 * half <= U /\ U <= 2 * half + 1
      /\ res \in Nat /\ 4 * res <= U
      /\ e.fcstart \in Nat /\ s \in Nat \ {0}
      /\ s + r <= U /\ U < s + r + res
      /\ ~pscfg.dd_mode => e.fcstart <= fs + half
      /\ pscfg.dd_mode => e.fcstart + res <= T + half
      /\ fe <= e.fcstart => LastStep(e) = 0
  BY PlanReaches
<1>2. PICK err \in FloatErrors :
         /\ 2 * (res - err) < U /\ err \in Int
         /\ fe > e.fcstart => e.fcstop = fe + s + err
  BY PlanReaches
<1>3. PlanTyped(pscfg)
  BY PlanIsTyped
<1>4. /\ r \in Nat \ {0} /\ n \in Nat \ {0} /\ T \in Nat
      /\ fs \in Nat /\ fe \in Nat /\ fs <= fe
      /\ pscfg.dd_mode \in BOOLEAN /\ (pscfg.dd_mode => fe >= T /\ fs < T)
      /\ e.fcstop \in Nat
  <2>1. /\ r \in Nat \ {0} /\ n \in Nat \ {0} /\ T \in Nat
    BY <1>3, TableFacts DEF Prop
  <2>2. /\ fs \in Nat /\ fe \in Nat /\ fs <= fe /\ e.fcstop \in Nat
        /\ pscfg.dd_mode \in BOOLEAN /\ (pscfg.dd_mode <=> fs < T)
        /\ pscfg.only_dd <=> pscfg.dd_mode /\ fe < T
    BY <1>3 DEF PlanTyped, Prop
  <2> QED BY <2>1, <2>2
<1>5. 2 * r + n - err <= half /\ 2 * r + n <= half
  <2>1. /\ n \in MinSpp \div 2 .. MaxSpp \div 2
        /\ r = p.full_bw \div n /\ pscfg.mode \in Modes
    <3>1. /\ pscfg.samples_per_packet \in MinSpp .. MaxSpp
          /\ r = p.full_bw \div n /\ pscfg.mode \in Modes
      BY <1>3 DEF PlanTyped, Prop
    <3> QED BY <3>1, PlanAssumption
  <2>2. \A x \in FloatErrors \cup {0} : 2 * (p.full_bw \div n) + n - x <= half
    BY <2>1, BandAssumption DEF Prop, HalfUsable
  <2>3. /\ 2 * (p.full_bw \div n) + n - err <= half
        /\ 2 * (p.full_bw \div n) + n - 0 <= half
    BY <2>2
  <2> HIDE DEF n, p, half
  <2> QED BY <1>4, <2>1, <2>3
<1>6. /\ LastStep(e) \in Nat /\ K \in Nat /\ K >= 1
      /\ fe > e.fcstart => K * s >= fe + s + err - e.fcstart + 1
  <2>1. LastStep(e) \in Nat
    <3>1. PICK q \in Requests, x \in FloatErrors : MadeFor(q, x)
      BY DEF PlanInv
    <3>2. e.fcstop - e.fcstart \in Nat
      BY <3>1, EntryFacts
    <3> QED BY <1>1, <3>2, DivBounds DEF LastStep
  <2>2. ASSUME fe > e.fcstart
        PROVE  K * s >= fe + s + err - e.fcstart + 1
    <3> DEFINE d == e.fcstop - e.fcstart
    <3>1. d \in Nat
      <4>1. PICK q \in Requests, x \in FloatErrors : MadeFor(q, x)
        BY DEF PlanInv
      <4> QED BY <4>1, EntryFacts
    <3>2. d < (d \div s) * s + s /\ d \div s \in Nat
      BY <1>1, <3>1, DivBounds
    <3>3. K * s = (d \div s) * s + s
      <4>1. K = d \div s + 1
        BY DEF LastStep
      <4> DEFINE y == d \div s
      <4>2. y \in Nat /\ K = y + 1
        BY <3>2, <4>1
      <4> HIDE DEF y, K
      <4>3. \A a, b \in Nat : (a + 1) * b = a * b + b
        BY Z3
      <4> QED BY <1>1, <4>2, <4>3 DEF y
    <3>4. (d \div s) * s \in Nat
      BY <1>1, <3>2
    <3> HIDE DEF K
    <3> QED BY <1>1, <1>2, <1>4, <2>2, <3>1, <3>2, <3>3, <3>4
  <2> QED BY <2>1, <2>2
<1>8. pscfg.packet_total = (IF pscfg.dd_mode THEN 1 ELSE 0) + K
  <2>1. pscfg.packet_total =
           (IF pscfg.dd_mode THEN 1 ELSE 0) + LastStep(pscfg.entry) + 1
    BY PlanAgrees DEF PacketsAgree, OneStepWide
  <2>2. LastStep(pscfg.entry) \in Int
    BY <1>6
  <2> QED BY <2>1, <2>2
<1> HIDE DEF p, e, half, res, U, K, s, n, r, fs, fe, T, main
<1>7. /\ main \in Nat /\ main >= s + 1
      /\ fe > e.fcstart => main >= fe + s + err - e.fcstart + 1
  <2>1. K * (s + 1) = K * s + K /\ K * s \in Nat /\ K * s >= s
    BY <1>1, <1>6, Z3
  <2> QED BY <1>1, <1>2, <1>4, <1>6, <2>1 DEF main
<1>9. CASE ~pscfg.dd_mode
  <2>1. Reach(pscfg.packet_total) = main
    <3>1. pscfg.packet_total = K
      BY <1>6, <1>8, <1>9
    <3> QED BY <1>9, <3>1 DEF Reach, main, s, e
  <2>2. main + r > fe - fs
    <3>1. CASE fe <= e.fcstart
      BY <1>1, <1>4, <1>7, <1>9, <3>1
    <3>2. CASE fe > e.fcstart
      BY <1>1, <1>2, <1>4, <1>7, <1>9, <3>2
    <3> QED BY <1>1, <1>4, <3>1, <3>2
  <2> QED BY <2>1, <2>2 DEF r, fe, fs
<1>10. CASE pscfg.dd_mode
  <2>1. Reach(pscfg.packet_total) = T - fs - n - 2 * r + main
    <3>1. pscfg.packet_total = 1 + K /\ 1 + K # 0 /\ (1 + K) - 1 = K
      BY <1>6, <1>8, <1>10
    <3> QED BY <1>10, <3>1 DEF Reach, main, s, e, T, fs, n, r, p
  <2>2. T - fs - n - 2 * r + main + r > fe - fs
    <3>1. CASE fe <= e.fcstart
      BY <1>1, <1>4, <1>5, <1>7, <1>10, <3>1
    <3>2. CASE fe > e.fcstart
      BY <1>1, <1>2, <1>4, <1>5, <1>7, <1>10, <3>2
    <3> QED BY <1>1, <1>4, <3>1, <3>2
  <2> QED BY <2>1, <2>2 DEF r, fe, fs
<1> QED BY <1>4, <1>9, <1>10

(***************************************************************************)
(* The direct digitizer's block: f hertz are f * n \div B bins of the n in   *)
(* the band B, of r hertz each if rounded down.                             *)
(***************************************************************************)
\* A frequency's bin is no more bins than hertz fit below it.
LEMMA BinsToHertz ==
    ASSUME NEW f \in Nat, NEW B \in Nat \ {0}, NEW n \in Nat \ {0},
           NEW r \in Nat \ {0}, r = B \div n
    PROVE  /\ (f * n) \div B \in Nat
           /\ ((f * n) \div B) * r <= f
<1> DEFINE x == (f * n) \div B
<1>1. f * n \in Nat
  BY Z3
<1>2. x \in Nat /\ x * B <= f * n /\ r * n <= B
  BY <1>1, DivBounds
<1> HIDE DEF x
<1> SUFFICES ASSUME x * r >= f + 1 PROVE FALSE
  <2>1. x * r \in Nat
    BY <1>2
  <2> QED BY <1>2, <2>1 DEF x
<1>3. (x * r) * n >= (f + 1) * n
  BY <1>2, Z3
<1>4. (f + 1) * n = f * n + n
  BY Z3
<1>5. (x * r) * n = x * (r * n)
  BY <1>2, Z3
<1>6. x * (r * n) <= x * B
  BY <1>2, Z3
<1>7. (x * r) * n \in Nat /\ x * B \in Nat
  BY <1>2
<1> QED BY <1>1, <1>2, <1>3, <1>4, <1>5, <1>6, <1>7

\* Four fifths of the bins are almost four fifths of the band.
LEMMA GoodPart ==
    ASSUME NEW B \in Nat \ {0}, NEW n \in Nat \ {0}, NEW r \in Nat \ {0},
           r = B \div n, NEW T \in Nat, 10 * T <= 8 * B, NEW spp \in Nat,
           2 * n <= spp, spp <= 2 * n + 1
    PROVE  LET y == (4 * spp) \div 10 IN
           /\ y \in Nat /\ y <= n
           /\ y * r >= T - n - r
<1> DEFINE y == (4 * spp) \div 10
<1>1. y \in Nat /\ 10 * y <= 4 * spp /\ 4 * spp < 10 * y + 10
  OBVIOUS
<1>2. B < r * n + n /\ r * n \in Nat
  <2>1. B < r * n + n
    BY DivBounds
  <2>2. r * n \in Nat
    OBVIOUS
  <2> QED BY <2>1, <2>2
<1> HIDE DEF y
<1>3. y <= n /\ 10 * y >= 8 * n - 9
  BY <1>1
<1>4. y * r >= T - n - r
  <2>1. (10 * y) * r >= (8 * n - 9) * r
    BY <1>1, <1>3, Z3
  <2>2. (10 * y) * r = 10 * (y * r) /\ (8 * n - 9) * r = 8 * (r * n) - 9 * r
    BY <1>1, Z3
  <2>3. y * r \in Nat
    BY <1>1
  <2> QED BY <1>1, <1>2, <2>1, <2>2, <2>3
<1> QED BY <1>1, <1>3, <1>4 DEF y

\* The bin of a frequency of the good part is almost as far up.
LEMMA HertzToBins ==
    ASSUME NEW B \in Nat \ {0}, NEW n \in Nat \ {0}, NEW r \in Nat \ {0},
           r = B \div n, NEW f \in Nat, 10 * f <= 8 * B
    PROVE  LET x == (f * n) \div B IN
           /\ x \in Nat /\ x + 1 <= n
           /\ x * r >= f - n - r
<1> DEFINE x == (f * n) \div B
<1>1. f * n \in Nat /\ n * B \in Nat
  BY Z3
<1>2. /\ x \in Nat /\ x * B <= f * n /\ f * n < x * B + B
      /\ r * n <= B /\ B < r * n + n
  BY <1>1, DivBounds
<1> HIDE DEF x
<1>3. x + 1 <= n
  <2> SUFFICES ASSUME x >= n PROVE FALSE
    BY <1>2
  <2>1. x * B >= n * B
    BY <1>2, Z3
  <2>2. (10 * f) * n <= (8 * B) * n
    BY Z3
  <2>3. (10 * f) * n = 10 * (f * n) /\ (8 * B) * n = 8 * (n * B)
    BY Z3
  <2>4. n * B >= 1 /\ x * B \in Nat
    BY <1>2, Z3
  <2> QED BY <1>1, <1>2, <2>1, <2>2, <2>3, <2>4
<1>4. x * r >= f - n - r
  <2> SUFFICES ASSUME x * r <= f - n - r - 1 PROVE FALSE
    <3>1. x * r \in Nat
      BY <1>2
    <3> QED BY <3>1
  <2>1. (x * r) * n <= (f - n - r - 1) * n
    BY <1>2, Z3
  <2>2. (f - n - r - 1) * n = f * n - n * n - r * n - n
    BY Z3
  <2>3. (x * r) * n = x * (r * n)
    BY <1>2, Z3
  <2>4. x * (r * n) >= x * (B - n)
    BY <1>2, Z3
  <2>5. x * (B - n) = x * B - x * n
    BY <1>2, Z3
  <2>6. (x + 1) * n <= n * n /\ (x + 1) * n = x * n + n
    BY <1>2, <1>3, Z3
  <2>7. /\ (x * r) * n \in Int /\ x * B \in Int /\ x * n \in Int
        /\ n * n \in Int /\ r * n \in Int
    BY <1>2
  <2> QED BY <1>1, <1>2, <2>1, <2>2, <2>3, <2>4, <2>5, <2>6, <2>7
<1> QED BY <1>2, <1>3, <1>4 DEF x

(***************************************************************************)
(* What one more packet of the sweep brings: it fills the spectrum to its    *)
(* end, or brings it as far as Reach says.                                  *)
(***************************************************************************)
\* The block of a packet with room left before the end of the buffer: the
\* usable bins, or the first of them, as many as there is room for.
LEMMA UsableBlock ==
    ASSUME PlanInv, Planned, NEW pkt, ~DdPacket,
           pkt.inv => pscfg.mode # "DD",
           cap.offset \in Nat, cap.offset < pscfg.buflen
    PROVE  LET b == UsableBins(Prop, pkt)
               block == BlockOf(Prop, pkt)
               len == b.last - b.first IN
           /\ b.first \in Nat /\ b.last \in Nat
           /\ b.last <= pscfg.samples_per_packet \div 2
           /\ len \in Nat /\ len * pscfg.rbw >= pscfg.entry.fstep + 1
           /\ len * pscfg.rbw <= pscfg.entry.fstep + Lag
           /\ block.offset = cap.offset /\ block.first = b.first
           /\ Wrap(cap.offset + block.len) = cap.offset + block.len
           /\ \/ cap.offset + len < pscfg.buflen /\ block.len = len
              \/ /\ cap.offset + len >= pscfg.buflen
                 /\ block.len = pscfg.buflen - cap.offset
<1> DEFINE p == Prop
           b == UsableBins(p, pkt)
           block == BlockOf(p, pkt)
           len == b.last - b.first
           off == cap.offset
           end == pscfg.buflen
           n == pscfg.samples_per_packet \div 2
           r == pscfg.rbw
           s == pscfg.entry.fstep
           U == p.usable_bw
           lag == 2 * r + p.tuning_resolution
<1>1. PlanTyped(pscfg)
  BY PlanIsTyped
<1>2. /\ p.full_bw \in Nat \ {0} /\ p.usable_left \in Nat
      /\ p.usable_right \in Nat
      /\ p.usable_left <= p.usable_right /\ p.usable_right <= p.full_bw
      /\ n \in Nat \ {0} /\ 2 * n <= MaxSpp /\ MaxSpp \in Nat
      /\ r \in Nat \ {0} /\ r = p.full_bw \div n
  BY <1>1, TableFacts DEF Prop
<1>3. /\ p.usable_right - p.usable_left = U
      /\ p.usable_right + MaxSpp \div 2 <= p.full_bw
      /\ pkt.inv => p.usable_left >= MaxSpp \div 2
      /\ pscfg.samples_per_packet \in Nat
  <2>1. pscfg.mode \in Modes /\ pscfg.samples_per_packet \in MinSpp .. MaxSpp
    BY <1>1 DEF PlanTyped
  <2> QED BY <2>1, BandAssumption, PlanAssumption DEF Prop
<1>4. /\ s \in Nat \ {0} /\ U \in Nat /\ s + r <= U
      /\ p.tuning_resolution \in Nat /\ U < s + r + p.tuning_resolution
  BY PlanReaches
<1>5. /\ b.first \in Nat /\ b.last \in Nat /\ b.first <= b.last
      /\ b.last <= MaxSpp /\ b = [first |-> b.first, last |-> b.last]
  BY <1>1, UsableInBand
<1>6. \/ pkt.inv /\ b = [first |-> (p.full_bw - p.usable_right) \div r,
                         last |-> (p.full_bw - p.usable_left) \div r]
      \/ b = [first |-> p.usable_left \div r, last |-> p.usable_right \div r]
  BY Zenon DEF UsableBins
<1>7. /\ end \in Nat /\ end + 2 * MaxSpp < Word /\ Word \in Nat \ {0}
      /\ off \in Nat /\ off < end
  <2>1. LET coarsest == Prop.max_tunable
                          \div (Prop.full_bw \div (MaxSpp \div 2)) IN
        /\ pscfg.buflen \in Nat /\ MaxSpp \in Nat
        /\ pscfg.buflen <= coarsest
        /\ coarsest \in Nat /\ coarsest + 2 * MaxSpp < Word
    BY <1>1, TableFacts DEF Prop
  <2> QED BY <2>1, CaptureAssumption
<1>8. block = [offset |-> off, first |-> Clamped(b).first,
               len |-> Wrap(Clamped(b).last - Clamped(b).first)]
  BY DEF BlockOf, OffsetOf
<1>9. len \in Nat /\ len <= MaxSpp
  BY <1>2, <1>5
<1>10. Wrap(len) = len /\ Wrap(off + len) = off + len
  <2>1. len \in 0 .. Word - 1 /\ off + len \in 0 .. Word - 1
    BY <1>2, <1>7, <1>9
  <2> HIDE DEF len
  <2> QED BY <2>1, Wraps
<1>11. Clamped(b) = IF (off + len) - end >= 0
                      THEN [b EXCEPT !.last = Wrap(@ - ((off + len) - end))]
                      ELSE b
  BY <1>10 DEF Clamped
<1>12. MaxSpp \div 2 \in Nat /\ n <= MaxSpp \div 2
  BY <1>2
<1>16. U + r <= s + lag /\ lag \in Nat
  <2> HIDE DEF p, U, r, s
  <2> QED BY <1>2, <1>4
<1> HIDE DEF p, b, n, r, s, U, lag
\* The usable bins are in the packet, and are more than the step is wide.
<1>13. b.last <= n /\ len * r >= s + 1 /\ len * r <= s + lag
  <2>1. CASE b = [first |-> p.usable_left \div r,
                  last |-> p.usable_right \div r]
    <3>1. b.last = p.usable_right \div r
          /\ len = p.usable_right \div r - p.usable_left \div r
      BY <2>1
    <3>2. p.usable_right + n <= p.full_bw
      BY <1>2, <1>3, <1>12
    <3>3. p.usable_right \div r <= n
      BY <1>2, <3>2, BinsBelow
    <3>4. s + r <= p.usable_right - p.usable_left
      BY <1>3, <1>4
    <3>5. /\ (p.usable_right \div r - p.usable_left \div r) * r >= s + 1
          /\ (p.usable_right \div r - p.usable_left \div r) * r
                < p.usable_right - p.usable_left + r
      BY <1>2, <1>4, <3>4, BinsBetween
    <3>6. len * r >= s + 1 /\ len * r < U + r
      BY <1>3, <3>1, <3>5
    <3>7. len * r <= s + lag
      <4>1. len * r \in Int
        BY <1>2, <1>9
      <4> HIDE DEF len
      <4> QED BY <1>2, <1>4, <1>16, <3>6, <4>1
    <3> QED BY <3>1, <3>3, <3>6, <3>7
  <2>2. CASE pkt.inv /\ b = [first |-> (p.full_bw - p.usable_right) \div r,
                             last |-> (p.full_bw - p.usable_left) \div r]
    <3> DEFINE lo == p.full_bw - p.usable_right
               hi == p.full_bw - p.usable_left
    <3>1. b.last = hi \div r /\ len = hi \div r - lo \div r
      BY <2>2
    <3>2. /\ lo \in Nat /\ hi \in Nat /\ lo <= hi /\ s + r <= hi - lo
          /\ hi - lo = U
      BY <1>2, <1>3, <1>4
    <3>3. hi + n <= p.full_bw
      BY <1>2, <1>3, <1>12, <2>2
    <3> HIDE DEF lo, hi
    <3>4. hi \div r <= n
      BY <1>2, <3>2, <3>3, BinsBelow
    <3>5. /\ (hi \div r - lo \div r) * r >= s + 1
          /\ (hi \div r - lo \div r) * r < hi - lo + r
      BY <1>2, <1>4, <3>2, BinsBetween
    <3>6. len * r >= s + 1 /\ len * r < U + r
      BY <3>1, <3>2, <3>5
    <3>7. len * r <= s + lag
      <4>1. len * r \in Int
        BY <1>2, <1>9
      <4> HIDE DEF len
      <4> QED BY <1>2, <1>4, <1>16, <3>6, <4>1
    <3> QED BY <3>1, <3>4, <3>6, <3>7
  <2> QED BY <1>6, <2>1, <2>2
<1> HIDE DEF block, off, end
<1>14. CASE off + len < end
  <2>1. Clamped(b) = b
    BY <1>7, <1>9, <1>11, <1>14
  <2>2. block.offset = off /\ block.first = b.first /\ block.len = len
    BY <1>8, <1>10, <2>1
  <2>3. Wrap(off + block.len) = off + block.len
    BY <1>10, <2>2
  <2> QED BY <1>5, <1>9, <1>13, <1>14, <2>2, <2>3
          DEF block, off, end, p, r, s, b, n, lag, Lag
<1>15. CASE off + len >= end
  <2> DEFINE k == end - off
             l == b.last - ((off + len) - end)
  <2>1. /\ k \in Nat /\ k <= len /\ l - b.first = k /\ l \in Nat
        /\ l <= b.last
    BY <1>5, <1>7, <1>9, <1>15 DEF len
  <2>2. /\ l \in 0 .. Word - 1 /\ k \in 0 .. Word - 1
        /\ off + k \in 0 .. Word - 1
    BY <1>2, <1>5, <1>7, <1>9, <2>1
  <2>3. Wrap(l) = l /\ Wrap(k) = k /\ Wrap(off + k) = off + k
    <3> HIDE DEF l, k
    <3> QED BY <1>7, <2>2, Wraps
  <2>4. Clamped(b) = [first |-> b.first, last |-> l]
    <3>1. (off + len) - end >= 0
      BY <1>7, <1>9, <1>15
    <3>2. Clamped(b) = [b EXCEPT !.last = Wrap(@ - ((off + len) - end))]
      BY Zenon, <1>11, <3>1
    <3>3. Clamped(b) = [first |-> b.first, last |-> Wrap(l)]
      <4> HIDE DEF len
      <4> QED BY <1>5, <3>2
    <3> QED BY <2>3, <3>3
  <2>5. block.offset = off /\ block.first = b.first /\ block.len = k
    <3>1. block.offset = off /\ block.first = b.first
          /\ block.len = Wrap(l - b.first)
      <4> HIDE DEF l
      <4> QED BY <1>8, <2>4
    <3> QED BY <2>1, <2>3, <3>1
  <2>6. Wrap(off + block.len) = off + block.len
    BY <2>3, <2>5
  <2> QED BY <1>5, <1>9, <1>13, <1>15, <2>5, <2>6
          DEF block, off, end, p, r, s, b, n, lag, Lag
<1> QED BY <1>7, <1>9, <1>14, <1>15

\* Such a block is copied whole.
LEMMA UsableReaches ==
    ASSUME PlanInv, Planned, NEW pkt, ~DdPacket,
           pkt.spp = pscfg.samples_per_packet, pkt.inv => pscfg.mode # "DD",
           cap.offset \in Nat, cap.offset < pscfg.buflen
    PROVE  LET block == BlockOf(Prop, pkt)
               k == Copied(pkt, block) IN
           /\ block.offset = cap.offset /\ k \in Nat
           /\ \/ k >= pscfg.buflen - cap.offset
                 /\ Wrap(cap.offset + block.len) = pscfg.buflen
              \/ /\ k = block.len
                 /\ Wrap(cap.offset + block.len) = cap.offset + block.len
                 /\ cap.offset + block.len < pscfg.buflen
                 /\ block.len * pscfg.rbw >= pscfg.entry.fstep + 1
                 /\ block.len * pscfg.rbw <= pscfg.entry.fstep + Lag
<1> DEFINE b == UsableBins(Prop, pkt)
           block == BlockOf(Prop, pkt)
           k == Copied(pkt, block)
           len == b.last - b.first
           off == cap.offset
           end == pscfg.buflen
           n == pscfg.samples_per_packet \div 2
           r == pscfg.rbw
           s == pscfg.entry.fstep
<1>1. /\ b.first \in Nat /\ b.last \in Nat /\ b.last <= n
      /\ len \in Nat /\ len * r >= s + 1 /\ len * r <= s + Lag
      /\ block.offset = off /\ block.first = b.first
      /\ Wrap(off + block.len) = off + block.len
      /\ \/ off + len < end /\ block.len = len
         \/ off + len >= end /\ block.len = end - off
  BY UsableBlock
<1>2. end \in Nat /\ n \in Nat /\ pkt.spp \in Nat /\ off \in Nat /\ off < end
  <2>1. PlanTyped(pscfg)
    BY PlanIsTyped
  <2>2. pscfg.samples_per_packet \in MinSpp .. MaxSpp
    BY <2>1 DEF PlanTyped
  <2> QED BY <2>1, <2>2, TableFacts, PlanAssumption
<1> HIDE DEF b, block, end, n, r, s, off
<1>3. block.len \in Nat /\ block.len <= len
  BY <1>1, <1>2
<1>4. /\ k \in Nat /\ k <= block.len
      /\ k < block.len => k >= n - block.first + 1 \/ k >= end - block.offset + 1
  <2>1. /\ pkt.spp \in Nat /\ block.len \in Nat /\ block.first \in Int
        /\ block.offset \in Int /\ pscfg.buflen \in Int
    BY <1>1, <1>2, <1>3 DEF end
  <2> QED BY <2>1, CopiedBounds DEF n, end
<1> HIDE DEF k
<1>5. k = block.len
  <2> SUFFICES ASSUME k < block.len PROVE FALSE
    BY <1>3, <1>4
  <2>1. block.len <= n - block.first /\ block.len <= end - off
    BY <1>1, <1>2, <1>3
  <2> HIDE DEF len
  <2> QED BY <1>1, <1>2, <1>3, <1>4, <2>1
<1>6. CASE off + len < end /\ block.len = len
  <2>1. block.len * r >= s + 1 /\ block.len * r <= s + Lag
    BY <1>1, <1>6
  <2> QED BY <1>1, <1>4, <1>5, <1>6, <2>1 DEF block, k, off, end, r, s
<1>7. CASE off + len >= end /\ block.len = end - off
  <2>1. k >= end - off /\ Wrap(off + block.len) = end
    BY <1>1, <1>2, <1>5, <1>7
  <2> QED BY <1>1, <1>4, <2>1 DEF block, k, off, end
<1> QED BY <1>1, <1>6, <1>7

\* No more hertz fit between two bins of the good part than lie between the
\* frequencies they stand for, and two bins.
LEMMA BinsWithin ==
    ASSUME NEW B \in Nat \ {0}, NEW n \in Nat \ {0}, NEW r \in Nat \ {0},
           r = B \div n, NEW T \in Nat, NEW f \in Nat, f < T,
           NEW x \in Nat, NEW y \in Nat, x <= y,
           y * B <= T * n + B, f * n < x * B + B
    PROVE  (y - x) * r <= T - f + 2 * r
<1> DEFINE w == y - x - 2
<1>1. r * n <= B
  BY DivBounds
<1>2. w \in Int /\ y = x + w + 2
  OBVIOUS
<1> HIDE DEF w
<1>3. (y - x) * r = w * r + 2 * r
  <2>1. y - x = w + 2
    BY <1>2
  <2>2. \A a \in Int : (a + 2) * r = a * r + 2 * r
    BY Z3
  <2> QED BY <1>2, <2>1, <2>2
<1>4. CASE w <= 0
  <2>1. w * r <= 0
    BY <1>2, <1>4, Z3
  <2> QED BY <1>2, <1>3, <2>1
<1>5. CASE w >= 1
  <2> SUFFICES ASSUME w * r >= T - f + 1 PROVE FALSE
    BY <1>2, <1>3
  <2>1. (w * r) * n >= (T - f + 1) * n
    BY <1>2, Z3
  <2>2. (T - f + 1) * n = T * n - f * n + n
    BY Z3
  <2>3. (w * r) * n = w * (r * n) /\ w * (r * n) <= w * B
    BY <1>1, <1>2, <1>5, Z3
  <2>4. w * B = y * B - x * B - 2 * B
    BY <1>2, Z3
  <2>5. /\ T * n \in Int /\ f * n \in Int /\ y * B \in Int /\ x * B \in Int
        /\ (w * r) * n \in Int /\ w * B \in Int
    BY <1>2
  <2> QED BY <2>1, <2>2, <2>3, <2>4, <2>5
<1> QED BY <1>2, <1>4, <1>5

LEMMA DdReaches ==
    ASSUME PlanInv, Planned, ~pscfg.only_dd, NEW pkt, DdPacket,
           pkt.spp = pscfg.samples_per_packet
    PROVE  LET block == BlockOf(Prop, pkt)
               k == Copied(pkt, block) IN
           /\ block.offset = 0 /\ k \in Nat
           /\ \/ k >= pscfg.buflen /\ Wrap(block.len) >= pscfg.buflen
              \/ /\ k = block.len /\ Wrap(block.len) = block.len
                 /\ block.len < pscfg.buflen
                 /\ block.len * pscfg.rbw
                       >= Prop.min_tunable - pscfg.fstart
                          - pscfg.samples_per_packet \div 2 - 2 * pscfg.rbw
                 /\ block.len * pscfg.rbw
                       <= Prop.min_tunable - pscfg.fstart + 2 * pscfg.rbw
<1> DEFINE p == Prop
           B == p.full_bw
           T == p.min_tunable
           fs == pscfg.fstart
           fe == pscfg.fstop
           spp == pscfg.samples_per_packet
           n == spp \div 2
           r == pscfg.rbw
           end == pscfg.buflen
           b == DdBins(p, pkt)
           block == BlockOf(p, pkt)
           k == Copied(pkt, block)
           x == (fs * n) \div B
           y == (4 * spp) \div 10
           z == (fe * n) \div B
<1>1. PlanTyped(pscfg)
  BY PlanIsTyped
<1>2. /\ B \in Nat \ {0} /\ n \in Nat \ {0} /\ 2 * n <= MaxSpp
      /\ MaxSpp \in Nat /\ r \in Nat \ {0} /\ r = B \div n
      /\ T \in Nat /\ 10 * T = 8 * B
  BY <1>1, TableFacts DEF Prop
<1>3. /\ pscfg.dd_mode /\ fs \in Nat /\ fe \in Nat /\ fs < T /\ fe >= T
      /\ end = (fe - fs) \div r /\ fs <= fe
  <2>1. pscfg.dd_mode
    BY DEF DdPacket
  <2>2. /\ fs \in Nat /\ fe \in Nat /\ fs <= fe
        /\ pscfg.dd_mode <=> fs < T
        /\ pscfg.only_dd <=> pscfg.dd_mode /\ fe < T
        /\ end = (fe - fs) \div r
    BY <1>1 DEF PlanTyped, Prop
  <2> QED BY <1>2, <2>1, <2>2
<1>4. spp \in Nat /\ spp <= MaxSpp /\ 2 * n <= spp /\ spp <= 2 * n + 1
  <2>1. spp \in MinSpp .. MaxSpp
    BY <1>1 DEF PlanTyped
  <2> QED BY <2>1, PlanAssumption
<1>5. /\ end \in Nat /\ end + 2 * MaxSpp < Word /\ Word \in Nat \ {0}
  <2>1. LET coarsest == Prop.max_tunable
                          \div (Prop.full_bw \div (MaxSpp \div 2)) IN
        /\ pscfg.buflen \in Nat /\ MaxSpp \in Nat
        /\ pscfg.buflen <= coarsest
        /\ coarsest \in Nat /\ coarsest + 2 * MaxSpp < Word
    BY <1>1, TableFacts DEF Prop
  <2> QED BY <2>1, CaptureAssumption
<1>6. /\ b = [first |-> x, last |-> IF fe > T THEN y ELSE Wrap(z - 1)]
      /\ block = [offset |-> 0, first |-> b.first,
                  len |-> Wrap(b.last - b.first)]
  BY DEF DdBins, BlockOf, OffsetOf
<1> HIDE DEF p, B, T, fs, fe, spp, n, r, end, b, block
<1>7. x \in Nat /\ x * r <= fs
  BY <1>2, <1>3, BinsToHertz
<1>8. x + 1 <= n
  <2>1. 10 * fs <= 8 * B
    BY <1>2, <1>3
  <2> QED BY <1>2, <1>3, <2>1, HertzToBins
<1>9. block.offset = 0 /\ block.first = x
  BY <1>6
<1>10. ASSUME block.len \in Nat
       PROVE  /\ k \in Nat /\ k <= block.len
              /\ k < block.len => k >= n - x + 1 \/ k >= end + 1
  <2>1. /\ pkt.spp \in Nat /\ block.len \in Nat /\ block.first \in Int
        /\ block.offset \in Int /\ pscfg.buflen \in Int
    BY <1>4, <1>5, <1>7, <1>9, <1>10 DEF end, spp
  <2>2. /\ k \in Nat /\ k <= block.len
        /\ k < block.len => \/ k >= pkt.spp \div 2 - block.first + 1
                            \/ k >= pscfg.buflen - block.offset + 1
    BY <2>1, CopiedBounds
  <2> HIDE DEF k, x
  <2> QED BY <1>5, <1>9, <2>2 DEF n, spp, end
<1> HIDE DEF k
\* A block within the packet fills the buffer or is copied as it is.
<1>11. ASSUME NEW l \in Nat, l <= n - x, block.len = Wrap(l),
              l * r >= T - fs - n - 2 * r, l * r <= T - fs + 2 * r
       PROVE  /\ k \in Nat
              /\ \/ k >= end /\ Wrap(block.len) >= end
                 \/ /\ k = block.len /\ Wrap(block.len) = block.len
                    /\ block.len < end
                    /\ block.len * r >= T - fs - n - 2 * r
                    /\ block.len * r <= T - fs + 2 * r
  <2>1. l \in 0 .. Word - 1
    BY <1>2, <1>4, <1>5, <1>7, <1>11
  <2>2. Wrap(l) = l
    BY <2>1, Wraps
  <2>3. block.len = l /\ Wrap(block.len) = block.len
    BY <1>11, <2>2
  <2> HIDE DEF x
  <2>4. k \in Nat /\ (k = block.len \/ k >= n - x + 1 \/ k >= end + 1)
        /\ k <= block.len
    BY <1>10, <1>11, <2>3
  <2>5. k = block.len \/ k >= end
    BY <1>2, <1>5, <1>7, <1>11, <2>3, <2>4
  <2> QED BY <1>5, <1>11, <2>3, <2>4, <2>5
\* The last bin below a frequency, as hertz of the band.
<1>14. fs * n < x * B + B /\ fs * n \in Nat
  <2>1. fs * n \in Nat
    BY <1>2, <1>3, Z3
  <2> QED BY <1>2, <2>1, DivBounds
<1>15. z \in Nat /\ z * B <= fe * n
  <2>1. fe * n \in Nat
    BY <1>2, <1>3, Z3
  <2> QED BY <1>2, <2>1, DivBounds
<1> HIDE DEF x, y, z
<1>12. CASE fe > T
  <2>1. /\ y \in Nat /\ y <= n /\ y * r >= T - n - r
    <3>1. 10 * T <= 8 * B
      BY <1>2
    <3> QED BY <1>2, <1>4, <3>1, GoodPart DEF y
  <2>2. block.len = Wrap(y - x)
    BY <1>6, <1>12
  <2>3. (y - x) * r = y * r - x * r /\ y * r \in Nat /\ x * r \in Nat
    BY <1>2, <1>7, <2>1, Z3
  <2>4. (y - x) * r >= T - fs - n - 2 * r
    BY <1>2, <1>3, <1>7, <2>1, <2>3
  <2>5. x <= y
    <3>1. 10 * fs <= 8 * B
      BY <1>2, <1>3
    <3>2. (fs * n) \div B <= (4 * spp) \div 10
      BY <1>2, <1>3, <1>4, <3>1, FractionOfBins
    <3> QED BY <3>2 DEF x, y
  <2>6. y - x \in Nat /\ y - x <= n - x
    BY <1>2, <1>7, <2>1, <2>5
  <2> DEFINE l == y - x
  <2>9. y * B <= T * n + B
    <3>1. 10 * y <= 8 * n + 4
      <4>1. 4 * spp \in Nat /\ 10 \in Nat \ {0}
        BY <1>4
      <4>2. y * 10 <= 4 * spp
        BY <4>1, DivBounds DEF y
      <4> QED BY <1>2, <1>4, <2>1, <4>2
    <3>2. (10 * y) * B <= (8 * n + 4) * B
      BY <1>2, <2>1, <3>1, Z3
    <3>3. /\ (10 * y) * B = 10 * (y * B)
          /\ (8 * n + 4) * B = (8 * B) * n + 4 * B
          /\ (10 * T) * n = 10 * (T * n)
      BY <1>2, <2>1, Z3
    <3>4. y * B \in Nat /\ T * n \in Nat /\ (8 * B) * n = (10 * T) * n
      BY <1>2, <2>1
    <3> QED BY <1>2, <3>2, <3>3, <3>4
  <2>10. (y - x) * r <= T - fs + 2 * r
    BY <1>2, <1>3, <1>7, <1>14, <2>1, <2>5, <2>9, BinsWithin
  <2>7. /\ l \in Nat /\ l <= n - x /\ block.len = Wrap(l)
        /\ l * r >= T - fs - n - 2 * r /\ l * r <= T - fs + 2 * r
    BY <2>2, <2>4, <2>6, <2>10
  <2> HIDE DEF l
  <2>8. /\ k \in Nat
        /\ \/ k >= end /\ Wrap(block.len) >= end
           \/ /\ k = block.len /\ Wrap(block.len) = block.len
              /\ block.len < end
              /\ block.len * r >= T - fs - n - 2 * r
              /\ block.len * r <= T - fs + 2 * r
    BY <1>11, <2>7
  <2> QED BY <1>9, <2>8 DEF block, k, end, T, fs, n, r, p, spp
<1>13. CASE ~(fe > T)
  <2>1. fe = T /\ 10 * fe <= 8 * B
    BY <1>2, <1>3, <1>13
  <2>2. z \in Nat /\ z + 1 <= n /\ z * r >= T - n - r
    BY <1>2, <1>3, <2>1, HertzToBins DEF z
  <2>3. block.len = Wrap(Wrap(z - 1) - x)
    BY <1>6, <1>13
  <2>4. x <= z
    <3>1. fs * n \in Nat /\ fe * n \in Nat /\ fs * n <= fe * n
      BY <1>2, <1>3, Z3
    <3>2. B <= B
      BY <1>2
    <3>3. (fs * n) \div B <= (fe * n) \div B
      BY Zenon, <1>2, <3>1, <3>2, DivMonotone
    <3> QED BY <3>3 DEF x, z
  <2>5. CASE x < z
    <3> DEFINE l == z - 1 - x
    <3>1. z - 1 \in 0 .. Word - 1
      BY <1>2, <1>4, <1>5, <1>7, <2>2, <2>5
    <3>2. Wrap(z - 1) = z - 1
      BY <3>1, Wraps
    <3>3. block.len = Wrap(l) /\ l \in Nat /\ l <= n - x
      BY <1>2, <1>7, <2>2, <2>3, <2>5, <3>2
    <3>4. l * r = z * r - r - x * r /\ z * r \in Nat /\ x * r \in Nat
      BY <1>2, <1>7, <2>2, Z3
    <3>5. l * r >= T - fs - n - 2 * r
      BY <1>2, <1>3, <1>7, <2>2, <3>4
    <3>7. l * r <= T - fs + 2 * r
      <4>1. z * B <= T * n + B
        <5>1. z * B \in Nat /\ T * n \in Nat
          BY <1>2, <2>2
        <5> QED BY <1>2, <1>15, <2>1, <5>1
      <4>2. (z - x) * r <= T - fs + 2 * r
        BY <1>2, <1>3, <1>7, <1>14, <2>2, <2>4, <4>1, BinsWithin
      <4>3. (z - x) * r = z * r - x * r
        BY <1>2, <1>7, <2>2, Z3
      <4> HIDE DEF l
      <4> QED BY <1>2, <1>3, <3>4, <4>2, <4>3
    <3> HIDE DEF l
    <3>6. /\ k \in Nat
          /\ \/ k >= end /\ Wrap(block.len) >= end
             \/ /\ k = block.len /\ Wrap(block.len) = block.len
                /\ block.len < end
                /\ block.len * r >= T - fs - n - 2 * r
                /\ block.len * r <= T - fs + 2 * r
      BY <1>11, <3>3, <3>5, <3>7
    <3> QED BY <1>9, <3>6 DEF block, k, end, T, fs, n, r, p, spp
  \* Less than a bin of the digitizer: the length wraps around, and the whole
  \* buffer, a bin at most, is copied.
  <2>6. CASE x = z
    <3>1. end <= 1
      <4> DEFINE d == fe - fs
      <4>1. /\ fs * n \in Nat /\ fe * n \in Nat /\ d \in Nat
            /\ d * n = fe * n - fs * n
        BY <1>2, <1>3, Z3
      <4>2. x * B <= fs * n /\ fs * n < x * B + B
            /\ z * B <= fe * n /\ fe * n < z * B + B /\ x * B \in Nat
        <5>1. /\ ((fs * n) \div B) * B <= fs * n
              /\ fs * n < ((fs * n) \div B) * B + B
          BY <1>2, <4>1, DivBounds
        <5>2. /\ ((fe * n) \div B) * B <= fe * n
              /\ fe * n < ((fe * n) \div B) * B + B
          BY <1>2, <4>1, DivBounds
        <5>3. x * B \in Nat
          BY <1>2, <1>7
        <5> QED BY <5>1, <5>2, <5>3 DEF x, z
      <4>3. d * n < B
        <5>1. x * B = z * B
          BY <2>6
        <5> QED BY <1>2, <4>1, <4>2, <5>1
      <4>4. B < r * n + n
        BY <1>2, DivBounds
      <4>5. d <= r
        <5> HIDE DEF d
        <5> SUFFICES ASSUME d >= r + 1 PROVE FALSE
          BY <1>2, <4>1
        <5>1. d * n >= (r + 1) * n /\ (r + 1) * n = r * n + n
          BY <1>2, <4>1, Z3
        <5>2. d * n \in Nat /\ r * n \in Nat
          BY <1>2, <4>1
        <5> QED BY <1>2, <4>3, <4>4, <5>1, <5>2
      <4>6. end = d \div r /\ (d \div r) * r <= d /\ d \div r \in Nat
        BY <1>2, <1>3, <4>1, DivBounds
      <4> HIDE DEF d
      <4> SUFFICES ASSUME end >= 2 PROVE FALSE
        BY <1>5
      <4>7. end * r >= 2 * r /\ end * r \in Nat
        BY <1>2, <1>5, Z3
      <4>8. end * r <= d
        BY <4>6
      <4> QED BY <1>2, <4>1, <4>5, <4>7, <4>8
    <3>2. block.len = Word - 1
      <4>1. Word >= 2
        BY <1>2, <1>5
      <4>2. CASE z = 0
        <5>1. Wrap(z - 1) = Word - 1
          <6>1. z - 1 \in -Word .. -1 /\ (z - 1) + Word = Word - 1
            BY <1>5, <4>1, <4>2
          <6> QED BY <6>1, Wraps
        <5>2. Word - 1 \in 0 .. Word - 1 /\ (Word - 1) - x = Word - 1
          BY <1>5, <2>6, <4>1, <4>2
        <5>3. Wrap(Word - 1) = Word - 1
          BY <5>2, Wraps
        <5> QED BY <2>3, <5>1, <5>2, <5>3
      <4>3. CASE z >= 1
        <5>1. Wrap(z - 1) = z - 1
          <6>1. z - 1 \in 0 .. Word - 1
            BY <1>2, <1>5, <2>2, <4>3
          <6> QED BY <6>1, Wraps
        <5>2. (z - 1) - x = -1 /\ -1 \in -Word .. -1 /\ -1 + Word = Word - 1
          BY <1>5, <2>2, <2>6
        <5>3. Wrap(-1) = Word - 1
          BY <5>2, Wraps
        <5> QED BY <2>3, <5>1, <5>2, <5>3
      <4> QED BY <2>2, <4>2, <4>3
    <3>3. k \in Nat /\ k >= 1
      BY <1>2, <1>5, <1>8, <1>7, <1>10, <3>2
    <3>4. Wrap(block.len) >= end
      <4>1. Word - 1 \in 0 .. Word - 1 /\ Word - 1 >= end
        BY <1>2, <1>5
      <4>2. Wrap(Word - 1) = Word - 1
        BY <4>1, Wraps
      <4> QED BY <3>2, <4>1, <4>2
    <3> QED BY <1>5, <1>9, <3>1, <3>3, <3>4 DEF block, k, end, p
  <2> QED BY <1>7, <2>2, <2>4, <2>5, <2>6
<1> QED BY <1>12, <1>13

(***************************************************************************)
(* The spectrum while packets are read: full of this sweep's bins, or full   *)
(* up to the offset, which is as far as Reach says.                         *)
(***************************************************************************)
Whole == \A i \in Bins : cap.buf[i].sweep = sweeps

Filled ==
    \/ Whole
    \/ /\ cap.offset \in Nat /\ cap.offset < pscfg.buflen
       /\ \A i \in Bins : i < cap.offset => cap.buf[i].sweep = sweeps
       /\ cap.offset * pscfg.rbw >= Reach(cap.count)

LEMMA ReachGrows ==
    ASSUME PlanInv, Planned, NEW c \in Nat
    PROVE  /\ Reach(c) \in Int
           /\ ~(pscfg.dd_mode /\ c < 1) =>
                 Reach(c + 1) = Reach(c) + (pscfg.entry.fstep + 1)
           /\ pscfg.dd_mode => Reach(0 + 1) =
                 Prop.min_tunable - pscfg.fstart
                 - pscfg.samples_per_packet \div 2 - 2 * pscfg.rbw
<1> DEFINE s == pscfg.entry.fstep + 1
           d == Prop.min_tunable - pscfg.fstart
                - pscfg.samples_per_packet \div 2 - 2 * pscfg.rbw
<1>1. PlanTyped(pscfg)
  BY PlanIsTyped
<1>2. s \in Nat /\ d \in Int /\ pscfg.dd_mode \in BOOLEAN
  <2>1. /\ pscfg.rbw \in Nat \ {0}
        /\ pscfg.samples_per_packet \div 2 \in Nat \ {0}
        /\ Prop.min_tunable \in Nat
    BY <1>1, TableFacts DEF Prop
  <2>2. /\ pscfg.entry.fstep \in Nat \ {0} /\ pscfg.dd_mode \in BOOLEAN
        /\ pscfg.fstart \in Nat
    BY <1>1 DEF PlanTyped
  <2> QED BY <2>1, <2>2
<1>3. \A n \in Nat : Reach(n) = IF ~pscfg.dd_mode THEN n * s
                              ELSE IF n = 0 THEN 0 ELSE d + (n - 1) * s
  BY DEF Reach
<1> HIDE DEF s, d
<1>4. \A a \in Nat : (a + 1) * s = a * s + s /\ a * s \in Nat
  BY <1>2, Z3
<1>5. CASE ~pscfg.dd_mode
  <2>1. Reach(c) = c * s /\ Reach(c + 1) = (c + 1) * s
    BY <1>3, <1>5
  <2> QED BY <1>4, <1>5, <2>1 DEF s
<1>6. CASE pscfg.dd_mode /\ c = 0
  <2>1. 0 * s = 0
    BY <1>2, Z3
  <2>2. 0 + 1 # 0 /\ (0 + 1) - 1 = 0 /\ 0 + 1 \in Nat
    OBVIOUS
  <2>3. Reach(0) = 0 /\ Reach(0 + 1) = d + 0 * s
    BY <1>3, <1>6, <2>2
  <2> QED BY <1>2, <1>6, <2>1, <2>3 DEF d
<1>7. CASE pscfg.dd_mode /\ c # 0
  <2> DEFINE a == c - 1
  <2>1. a \in Nat /\ c = a + 1 /\ (c + 1) - 1 = a + 1 /\ c + 1 # 0
    BY <1>7
  <2> HIDE DEF a
  <2>2. Reach(c) = d + a * s /\ Reach(c + 1) = d + (a + 1) * s
    BY <1>3, <1>7, <2>1
  <2>3. 0 * s = 0
    BY <1>2, Z3
  <2>4. 0 + 1 # 0 /\ (0 + 1) - 1 = 0 /\ 0 + 1 \in Nat
    OBVIOUS
  <2>5. Reach(0 + 1) = d + 0 * s
    BY <1>3, <1>7, <2>4
  <2>6. Reach(0 + 1) = d
    BY <1>2, <2>3, <2>5
  <2>7. a * s \in Nat /\ (a + 1) * s = a * s + s
    BY <1>4, <2>1
  <2>8. Reach(c) \in Int /\ Reach(c + 1) = Reach(c) + s
    BY <1>2, <2>2, <2>7
  <2> QED BY <1>7, <2>6, <2>8 DEF s, d
<1> QED BY <1>2, <1>5, <1>6, <1>7

LEMMA FilledOnce ==
    ASSUME PlanInv, Planned, ~pscfg.only_dd, Filled, cap.count \in Nat,
           NEW pkt, NthPacket(pkt, cap.count + 1, sweeps),
           cap' = Paste(Prop, pkt), pscfg' = pscfg, sweeps' = sweeps
    PROVE  Filled'
<1> DEFINE block == BlockOf(Prop, pkt)
           k == Copied(pkt, block)
           off == Wrap(block.offset + block.len)
           end == pscfg.buflen
           r == pscfg.rbw
           s == pscfg.entry.fstep
<1>1. /\ end \in Nat /\ r \in Nat \ {0} /\ s \in Nat
      /\ pscfg.dd_mode \in BOOLEAN
  <2>1. PlanTyped(pscfg)
    BY PlanIsTyped
  <2>2. s \in Nat \ {0} /\ pscfg.dd_mode \in BOOLEAN
    BY <2>1 DEF PlanTyped
  <2> QED BY <2>1, <2>2, TableFacts
<1>2. pkt.sweep = sweeps /\ pkt.spp = pscfg.samples_per_packet
  BY DEF NthPacket
<1>3. \A p, m : Content(p, pkt, m).sweep = sweeps
  BY <1>2 DEF Content
<1>4. /\ cap'.count = cap.count + 1 /\ cap'.offset = off
      /\ \A i \in Bins :
            \/ cap'.buf[i].sweep = sweeps
            \/ /\ ~(i >= block.offset /\ i < block.offset + k)
               /\ cap'.buf[i] = cap.buf[i]
  <2>1. cap'.count = cap.count + 1 /\ cap'.offset = off
    BY DEF Paste
  <2> DEFINE reversed == pkt.inv /\ ~DdPacket
             bin(j) == IF reversed THEN pkt.spp \div 2 - 1 - j ELSE j
             c(i) == Content(Prop, pkt, bin(block.first + i - block.offset))
  <2>2. cap'.buf = [i \in 0 .. pscfg.buflen |->
                       IF i >= block.offset /\ i < block.offset + k
                         THEN c(i) ELSE cap.buf[i]]
    BY DEF Paste
  <2>3. \A i \in Bins : i \in 0 .. pscfg.buflen
    BY <1>1 DEF Bins
  <2>4. \A i : c(i).sweep = sweeps
    BY <1>3
  <2> HIDE DEF c, block, k
  <2>5. \A i \in Bins : cap'.buf[i] = IF i >= block.offset /\ i < block.offset + k
                                        THEN c(i) ELSE cap.buf[i]
    BY <2>2, <2>3
  <2> QED BY Zenon, <2>1, <2>4, <2>5
<1>5. Bins' = Bins /\ Bins = 0 .. end - 1
  BY DEF Bins
<1>8. Reach(cap.count)' = Reach(cap.count + 1)
  BY <1>4 DEF Reach, Prop
<1>6. CASE Whole
  <2>1. \A i \in Bins : cap'.buf[i].sweep = sweeps
    BY <1>4, <1>6 DEF Whole
  <2>2. Whole'
    BY <1>5, <2>1 DEF Whole
  <2> QED BY <2>2 DEF Filled
<1>7. CASE ~Whole
  <2>1. /\ cap.offset \in Nat /\ cap.offset < end
        /\ \A i \in Bins : i < cap.offset => cap.buf[i].sweep = sweeps
        /\ cap.offset * r >= Reach(cap.count)
    BY <1>7 DEF Filled
  <2>2. CASE ~DdPacket
    <3>1. pkt.inv => pscfg.mode # "DD"
      <4>1. cap.count + 1 > Lead
        BY <1>1, <2>2 DEF DdPacket, Lead
      <4> QED BY <4>1 DEF NthPacket
    <3>2. /\ block.offset = cap.offset /\ k \in Nat
          /\ \/ k >= end - cap.offset
             \/ /\ k = block.len
                /\ Wrap(cap.offset + block.len) = cap.offset + block.len
                /\ cap.offset + block.len < end
                /\ block.len * r >= s + 1
      BY <1>2, <2>1, <2>2, <3>1, UsableReaches
    <3> HIDE DEF block, k
    <3>3. CASE k >= end - cap.offset
      <4>1. ASSUME NEW i \in Bins PROVE cap'.buf[i].sweep = sweeps
        <5>1. i \in Nat /\ i < end
          BY <1>1, <1>5
        <5>2. i < cap.offset \/ (i >= block.offset /\ i < block.offset + k)
          BY <1>1, <2>1, <3>2, <3>3, <5>1
        <5> QED BY <1>4, <2>1, <5>2
      <4>2. Whole'
        BY <1>5, <4>1 DEF Whole
      <4> QED BY <4>2 DEF Filled
    <3>4. CASE /\ k = block.len
               /\ Wrap(cap.offset + block.len) = cap.offset + block.len
               /\ cap.offset + block.len < end
               /\ block.len * r >= s + 1
      <4>1. off = cap.offset + k /\ off \in Nat /\ off < end
        BY <2>1, <3>2, <3>4
      <4>2. ASSUME NEW i \in Bins, i < off PROVE cap'.buf[i].sweep = sweeps
        <5>1. i \in Nat
          BY <1>1, <1>5
        <5>2. i < cap.offset \/ (i >= block.offset /\ i < block.offset + k)
          BY <2>1, <3>2, <4>1, <4>2, <5>1
        <5> QED BY <1>4, <2>1, <5>2
      <4>3. Reach(cap.count + 1) = Reach(cap.count) + (s + 1)
            /\ Reach(cap.count) \in Int
        BY <1>1, <2>2, ReachGrows DEF DdPacket, s
      <4>4. off * r >= Reach(cap.count + 1)
        <5>1. off * r = cap.offset * r + k * r /\ cap.offset * r \in Nat
              /\ k * r \in Nat
          BY <1>1, <2>1, <3>2, <4>1, Z3
        <5>2. k * r >= s + 1
          BY <3>4
        <5> HIDE DEF off
        <5> QED BY <1>1, <2>1, <4>3, <5>1, <5>2
      <4> HIDE DEF off
      <4> QED BY <1>4, <1>5, <1>8, <4>1, <4>2, <4>4 DEF Filled, r, end
    <3> QED BY <3>2, <3>3, <3>4
  <2>3. CASE DdPacket
    <3>1. pscfg.dd_mode /\ cap.count = 0
      BY <2>3 DEF DdPacket
    <3>2. /\ block.offset = 0 /\ k \in Nat
          /\ \/ k >= end
             \/ /\ k = block.len /\ Wrap(block.len) = block.len
                /\ block.len < end
                /\ block.len * r >= Prop.min_tunable - pscfg.fstart
                          - pscfg.samples_per_packet \div 2 - 2 * r
      BY <1>2, <2>3, DdReaches
    <3> HIDE DEF block, k
    <3>3. CASE k >= end
      <4>1. ASSUME NEW i \in Bins PROVE cap'.buf[i].sweep = sweeps
        <5>1. i >= block.offset /\ i < block.offset + k
          BY <1>1, <1>5, <3>2, <3>3
        <5> QED BY <1>4, <5>1
      <4>2. Whole'
        BY <1>5, <4>1 DEF Whole
      <4> QED BY <4>2 DEF Filled
    <3>4. CASE /\ k = block.len /\ Wrap(block.len) = block.len
               /\ block.len < end
               /\ block.len * r >= Prop.min_tunable - pscfg.fstart
                         - pscfg.samples_per_packet \div 2 - 2 * r
      <4>1. off = k /\ off \in Nat /\ off < end
        <5>1. block.offset + block.len = block.len
          BY <3>2, <3>4
        <5> QED BY <3>2, <3>4, <5>1
      <4>2. ASSUME NEW i \in Bins, i < off PROVE cap'.buf[i].sweep = sweeps
        <5>1. i >= block.offset /\ i < block.offset + k
          BY <1>1, <1>5, <3>2, <4>1, <4>2
        <5> QED BY <1>4, <5>1
      <4>3. Reach(cap.count + 1) =
               Prop.min_tunable - pscfg.fstart
                         - pscfg.samples_per_packet \div 2 - 2 * r
        BY <1>1, <3>1, ReachGrows DEF r
      <4>4. off * r >= Reach(cap.count + 1)
        BY <3>4, <4>1, <4>3
      <4> HIDE DEF off
      <4> QED BY <1>4, <1>5, <1>8, <4>1, <4>2, <4>4 DEF Filled, r, end
    <3> QED BY <3>2, <3>3, <3>4
  <2> QED BY <2>2, <2>3
<1> QED BY <1>6, <1>7

\* The packets on their way are the next ones of the plan, in its order.
InOrder ==
    /\ \A j \in 1 .. Len(socket) : NthPacket(socket[j], cap.count + j, sweeps)
    /\ \A j \in 1 .. Len(device.air) :
          NthPacket(device.air[j], cap.count + Len(socket) + j, sweeps)

FilledInv ==
    calm =>
        /\ pc = "read" => InOrder /\ (~pscfg.only_dd => Filled)
        /\ pc \in {"measure", "ended"} /\ Planned /\ ~pscfg.only_dd => Whole

LEMMA FilledInit == CaptureInit => FilledInv
  BY DEF CaptureInit, FilledInv

LEMMA FilledStep ==
    Inv /\ CalmInv /\ FilledInv /\ [CaptureNext]_capVars => FilledInv'
<1> SUFFICES ASSUME Inv, CalmInv, FilledInv, [CaptureNext]_capVars
             PROVE  FilledInv'
  OBVIOUS
<1>1. PlanInv /\ CaptureInv /\ calm \in BOOLEAN /\ (calm => Calm)
  BY DEF Inv, CalmInv
<1>2. ASSUME calm' => /\ pc' \notin {"read", "measure", "ended"} \/ ~Planned'
                      /\ pc' # "read"
      PROVE  FilledInv'
  BY <1>2 DEF FilledInv
<1>3. ASSUME pscfg' = pscfg, cap' = cap, sweeps' = sweeps
      PROVE  /\ Whole' <=> Whole
             /\ Filled' <=> Filled
             /\ Planned' <=> Planned
  BY <1>3 DEF Whole, Filled, Bins, Reach, Prop, Planned
<1>4. ASSUME NEW q \in Requests, Measure(q) PROVE FilledInv'
  <2>1. /\ pc' \in {"load", "crashed", "ended"}
        /\ pc' = "ended" => pscfg'.status # "ok"
    BY <1>4 DEF Measure
  <2> QED BY <1>2, <2>1 DEF Planned
<1>5. CASE IdentityLost \/ LoadCommand
  <2>1. pc' \in {"load", "crashed"}
    BY <1>5 DEF IdentityLost, LoadCommand
  <2> QED BY <1>2, <2>1
<1>6. CASE StartCapture
  <2> DEFINE done == device' = [device EXCEPT !.air =
                                   SweepOf(device.list, sweeps + 1)]
  <2>1. /\ pc = "load" /\ pc' = "read" /\ script = <<>> /\ socket' = socket
        /\ pscfg' = pscfg /\ sweeps' = sweeps + 1
        /\ (done /\ calm' = calm) \/ calm' = FALSE
        /\ cap' = [NoCapture EXCEPT !.buf =
                      [i \in 0 .. pscfg.buflen |-> Poison]]
    BY <1>6 DEF StartCapture
  <2>2. cap'.count = 0 /\ cap'.offset = 0
    BY <2>1 DEF NoCapture
  <2> HIDE DEF done
  <2>3. SUFFICES ASSUME calm, done
                 PROVE  InOrder' /\ (~pscfg.only_dd => Filled')
    BY <1>1, <2>1 DEF FilledInv
  <2>4. Calm /\ Planned
    BY <1>1, <2>1, <2>3 DEF CaptureInv
  <2>5. device'.air = SweepOf(device.list, sweeps + 1)
    BY <2>3, <2>4 DEF done, Calm, DeviceShape
  <2>6. Len(device'.air) = pscfg.packet_total
    BY <1>1, <2>1, <2>4, <2>5, LoadedPackets DEF Calm
  <2>7. Len(socket') = 0
    BY <2>1, <2>4, Literals DEF Calm, Quiet
  <2>8. InOrder'
    <3>1. ASSUME NEW j \in 1 .. Len(device'.air)
          PROVE  NthPacket(device.air[j], cap.count + Len(socket) + j, sweeps)'
      <4>1. j \in 1 .. pscfg.packet_total /\ j \in Nat
        BY <2>6, <3>1
      <4>2. NthPacket(SweepOf(device.list, sweeps + 1)[j], j, sweeps + 1)
        BY <1>1, <2>1, <2>4, <4>1, SweepInOrder DEF Calm
      <4>3. (cap.count + Len(socket) + j)' = j
        BY <2>2, <2>7, <4>1
      <4>4. NthPacket(SweepOf(device.list, sweeps + 1)[j], j, sweeps + 1)
            <=> NthPacket(device.air[j], cap.count + Len(socket) + j, sweeps)'
        BY <2>1, <2>5, <4>3 DEF NthPacket, Lead, Centre
      <4> QED BY <4>2, <4>4
    <3>2. ~\E j : j \in 1 .. Len(socket')
      BY <2>7
    <3> QED BY <3>1, <3>2 DEF InOrder
  <2>9. ASSUME ~pscfg.only_dd PROVE Filled'
    <3>1. /\ pscfg.buflen \in Nat /\ pscfg.rbw \in Nat \ {0}
          /\ pscfg.entry.fstep \in Nat \ {0} /\ pscfg.dd_mode \in BOOLEAN
      <4>1. PlanTyped(pscfg)
        BY <1>1, <2>4, PlanIsTyped
      <4> QED BY <4>1, TableFacts DEF PlanTyped
    <3>2. Bins' = 0 .. pscfg.buflen - 1
      BY <2>1 DEF Bins
    <3>3. CASE pscfg.buflen = 0
      <4>1. Whole'
        BY <3>2, <3>3 DEF Whole
      <4> QED BY <4>1 DEF Filled
    <3>4. CASE pscfg.buflen > 0
      <4>1. Reach(cap.count)' = 0
        <5>1. 0 * (pscfg.entry.fstep + 1) = 0
          BY <3>1, Z3
        <5> QED BY <2>1, <2>2, <3>1, <5>1 DEF Reach
      <4>2. cap'.offset * pscfg'.rbw = 0
        <5>1. 0 * pscfg.rbw = 0
          BY <3>1, Z3
        <5> QED BY <2>1, <2>2, <5>1
      <4>3. \A i \in Bins' : ~(i < cap'.offset)
        BY <2>2, <3>1, <3>2
      <4>4. cap'.offset \in Nat /\ cap'.offset < pscfg'.buflen
        BY <2>1, <2>2, <3>1, <3>4
      <4> QED BY <4>1, <4>2, <4>3, <4>4 DEF Filled
    <3> QED BY <3>1, <3>3, <3>4
  <2> QED BY <2>8, <2>9
<1>7. CASE ReadPacket
  <2>1. /\ pc = "read" /\ socket # <<>> /\ socket' = Tail(socket)
        /\ pscfg' = pscfg /\ device' = device /\ calm' = calm
        /\ sweeps' = sweeps
        /\ cap' = Paste(Prop, Head(socket)) /\ cap'.count = cap.count + 1
        /\ \/ LastPacket /\ pc' = "measure"
           \/ ~LastPacket /\ pc' = "read"
    BY <1>7 DEF ReadPacket, Paste
  <2>2. SUFFICES ASSUME calm PROVE FilledInv'
    BY <2>1 DEF FilledInv
  <2>3. /\ Calm /\ Planned /\ OnItsWay /\ InOrder
        /\ ~pscfg.only_dd => Filled
        /\ cap.count \in 0 .. pscfg.packet_total - 1
    BY <1>1, <2>1, <2>2 DEF CaptureInv, Calm, FilledInv
  <2>4. pscfg.packet_total \in Nat /\ cap.count \in Nat
    BY <1>1, <2>3, SomePacket
  <2>5. /\ Len(socket') = Len(socket) - 1 /\ Len(socket) \in Nat
        /\ Head(socket) = socket[1] /\ Len(socket) # 0
        /\ \A i \in 1 .. Len(socket) - 1 : socket'[i] = socket[i + 1]
    BY <2>1, <2>3, Shifted, QueueLengths DEF OnItsWay
  <2>6. NthPacket(Head(socket), cap.count + 1, sweeps)
    <3>1. 1 \in 1 .. Len(socket)
      BY <2>5
    <3> QED BY <2>3, <2>5, <3>1 DEF InOrder
  <2>7. ~pscfg.only_dd => Filled'
    BY <1>1, <2>1, <2>3, <2>4, <2>6, FilledOnce
  <2>8. InOrder'
    <3>1. ASSUME NEW j \in 1 .. Len(socket')
          PROVE  NthPacket(socket[j], cap.count + j, sweeps)'
      <4>1. j \in Nat /\ j + 1 \in 1 .. Len(socket)
            /\ socket'[j] = socket[j + 1]
            /\ cap'.count + j = cap.count + (j + 1)
        <5>1. j \in 1 .. Len(socket) - 1
          BY <2>5, <3>1
        <5>2. j \in Nat /\ j + 1 \in 1 .. Len(socket)
          BY <2>5, <5>1
        <5>3. socket'[j] = socket[j + 1]
          BY <2>5, <5>1
        <5>4. cap'.count + j = cap.count + (j + 1)
          <6> DEFINE c == cap.count
                     v == cap'.count
          <6>1. v = c + 1 /\ c \in Nat
            BY <2>1, <2>4
          <6> HIDE DEF c, v
          <6>2. v + j = c + (j + 1)
            BY <5>2, <6>1
          <6> QED BY <6>2 DEF c, v
        <5> QED BY <5>2, <5>3, <5>4
      <4>2. NthPacket(socket[j + 1], cap.count + (j + 1), sweeps)
        BY <2>3, <4>1 DEF InOrder
      <4> QED BY <2>1, <4>1, <4>2 DEF NthPacket, Lead, Centre
    <3>2. ASSUME NEW j \in 1 .. Len(device'.air)
          PROVE  NthPacket(device.air[j], cap.count + Len(socket) + j, sweeps)'
      <4>1. cap'.count + Len(socket') + j = cap.count + Len(socket) + j
        <5>1. j \in Int
          BY <3>2
        <5> QED BY <2>1, <2>4, <2>5, <5>1
      <4>2. NthPacket(device.air[j], cap.count + Len(socket) + j, sweeps)
        BY <2>1, <2>3, <3>2 DEF InOrder
      <4> QED BY <2>1, <4>1, <4>2 DEF NthPacket, Lead, Centre
    <3> QED BY <3>1, <3>2 DEF InOrder
  <2>9. CASE ~LastPacket /\ pc' = "read"
    BY <2>1, <2>7, <2>8, <2>9 DEF FilledInv
  <2>10. CASE LastPacket /\ pc' = "measure"
    <3>1. SUFFICES ASSUME ~pscfg.only_dd PROVE Whole'
      BY <2>1, <2>10 DEF FilledInv
    <3>2. cap'.count = pscfg.packet_total
      BY <2>1, <2>3, <2>4, <2>10 DEF LastPacket
    <3>3. Reach(pscfg.packet_total) + pscfg.rbw > pscfg.fstop - pscfg.fstart
      BY <1>1, <2>3, <3>1, EndReached DEF Calm
    <3>4. ASSUME cap'.offset \in Nat, cap'.offset < pscfg.buflen,
                 cap'.offset * pscfg.rbw >= Reach(pscfg.packet_total)
          PROVE  FALSE
      <4> DEFINE off == cap'.offset
                 r == pscfg.rbw
                 end == pscfg.buflen
                 d == pscfg.fstop - pscfg.fstart
                 reach == Reach(pscfg.packet_total)
      <4>1. PlanTyped(pscfg)
        BY <1>1, <2>3, PlanIsTyped
      <4>2. r \in Nat \ {0} /\ d \in Nat /\ end = d \div r
        BY <4>1 DEF PlanTyped
      <4>3. end \in Nat /\ end * r <= d
        <5> HIDE DEF d, r
        <5> QED BY <4>2, DivBounds
      <4>4. reach \in Int
        BY <1>1, <2>3, <2>4, ReachGrows
      <4>5. off \in Nat /\ off < end /\ off * r >= reach /\ reach + r > d
        BY <3>3, <3>4
      <4> HIDE DEF off, r, end, d, reach
      <4>6. (off + 1) * r <= end * r /\ (off + 1) * r = off * r + r
        BY <4>2, <4>3, <4>5, Z3
      <4>7. off * r \in Nat /\ end * r \in Nat
        BY <4>2, <4>3, <4>5
      <4> QED BY <4>2, <4>3, <4>4, <4>5, <4>6, <4>7
    <3>5. Filled'
      BY <2>7, <3>1
    <3>6. Reach(cap.count)' = Reach(pscfg.packet_total)
      BY <2>1, <3>2 DEF Reach, Prop
    <3> QED BY <2>1, <3>4, <3>5, <3>6 DEF Filled
  <2> QED BY <2>1, <2>9, <2>10
<1>8. CASE ReadTimeout \/ AbortCapture
  <2>1. /\ pc' = "abort" \/ pc = "abort"
        /\ calm' = calm \/ calm' = FALSE
    BY <1>8 DEF ReadTimeout, AbortCapture
  <2>2. CASE pc' = "abort"
    BY <1>2, <2>2
  <2>3. CASE pc = "abort"
    <3>1. ~calm
      BY <1>1, <2>3 DEF Calm
    <3> QED BY <1>1, <2>1, <3>1 DEF FilledInv
  <2> QED BY <2>1, <2>2, <2>3
<1>9. CASE ReadError
  BY <1>9 DEF ReadError, FilledInv
<1>10. CASE peak_find \/ calculate_channel_power
  <2>1. /\ pc = "measure" /\ pc' \in {"crashed", "ended"}
        /\ pscfg' = pscfg /\ cap' = cap /\ sweeps' = sweeps /\ calm' = calm
    BY <1>10 DEF peak_find, calculate_channel_power
  <2> QED BY <1>3, <2>1 DEF FilledInv
<1>11. CASE Return
  <2>1. pc' = "idle"
    BY <1>11 DEF Return
  <2> QED BY <1>2, <2>1
<1>12. CASE DeviceSends
  <2>1. /\ device.air # <<>> /\ socket' = Append(socket, Head(device.air))
        /\ device' = [device EXCEPT !.air =
                         IF Len(@) = 1 /\ ~device.once
                           THEN SweepOf(device.list, sweeps) ELSE Tail(@)]
        /\ pscfg' = pscfg /\ pc' = pc /\ cap' = cap /\ sweeps' = sweeps
        /\ calm' = calm
    BY <1>12 DEF DeviceSends
  <2>2. CASE calm /\ pc = "read"
    <3>1. /\ Calm /\ Planned /\ OnItsWay /\ InOrder
          /\ ~pscfg.only_dd => Filled
          /\ cap.count \in 0 .. pscfg.packet_total - 1
      BY <1>1, <2>2 DEF CaptureInv, Calm, FilledInv
    <3>2. cap.count \in Nat
      BY <1>1, <3>1, SomePacket
    <3>3. device'.air = Tail(device.air)
      BY <2>1, <3>1 DEF Calm, DeviceShape, OnItsWay
    <3>4. /\ Len(device'.air) = Len(device.air) - 1
          /\ Len(device.air) \in Nat /\ Len(device.air) # 0
          /\ Head(device.air) = device.air[1]
          /\ \A i \in 1 .. Len(device.air) - 1 :
                device'.air[i] = device.air[i + 1]
      BY <2>1, <3>1, <3>3, Shifted, QueueLengths DEF OnItsWay
    <3>5. /\ Len(socket') = Len(socket) + 1 /\ Len(socket) \in Nat
          /\ socket'[Len(socket) + 1] = device.air[1]
          /\ \A i \in 1 .. Len(socket) : socket'[i] = socket[i]
      BY <2>1, <3>1, <3>4, Appended, QueueLengths DEF OnItsWay
    <3>6. ASSUME NEW j \in 1 .. Len(socket')
          PROVE  NthPacket(socket[j], cap.count + j, sweeps)'
      <4>1. CASE j \in 1 .. Len(socket)
        <5>1. NthPacket(socket[j], cap.count + j, sweeps)
              /\ socket'[j] = socket[j]
          BY <3>1, <3>5, <4>1 DEF InOrder
        <5> QED BY <2>1, <5>1 DEF NthPacket, Lead, Centre
      <4>2. CASE j = Len(socket) + 1
        <5>1. 1 \in 1 .. Len(device.air)
          BY <3>4
        <5>2. NthPacket(device.air[1], cap.count + Len(socket) + 1, sweeps)
          BY <3>1, <5>1 DEF InOrder
        <5>3. socket'[j] = device.air[1]
              /\ cap.count + Len(socket) + 1 = cap.count + j
          BY <3>2, <3>5, <4>2
        <5> QED BY <2>1, <5>2, <5>3 DEF NthPacket, Lead, Centre
      <4> QED BY <3>5, <3>6, <4>1, <4>2
    <3>7. ASSUME NEW j \in 1 .. Len(device'.air)
          PROVE  NthPacket(device.air[j], cap.count + Len(socket) + j, sweeps)'
      <4>1. j \in Nat /\ j + 1 \in 1 .. Len(device.air)
            /\ device'.air[j] = device.air[j + 1]
            /\ cap.count + Len(socket') + j
                  = cap.count + Len(socket) + (j + 1)
        <5>1. j \in 1 .. Len(device.air) - 1
          BY <3>4, <3>7
        <5>2. j \in Nat /\ j + 1 \in 1 .. Len(device.air)
          BY <3>4, <5>1
        <5>3. device'.air[j] = device.air[j + 1]
          BY <3>4, <5>1
        <5> DEFINE a == Len(socket)
                   c == cap.count
                   w == Len(socket')
        <5>4. w = a + 1 /\ a \in Nat /\ c \in Nat
          BY <3>2, <3>5
        <5> HIDE DEF a, c, w
        <5>5. c + w + j = c + a + (j + 1)
          BY <5>2, <5>4
        <5> QED BY <5>2, <5>3, <5>5 DEF a, c, w
      <4>2. NthPacket(device.air[j + 1], cap.count + Len(socket) + (j + 1),
                      sweeps)
        BY <3>1, <4>1 DEF InOrder
      <4> QED BY <2>1, <4>1, <4>2 DEF NthPacket, Lead, Centre
    <3>8. InOrder'
      BY <3>6, <3>7 DEF InOrder
    <3> QED BY <1>3, <2>1, <2>2, <3>1, <3>8 DEF FilledInv
  <2>3. CASE ~(calm /\ pc = "read")
    BY <1>3, <2>1, <2>3 DEF FilledInv
  <2> QED BY <2>2, <2>3
<1>13. CASE UNCHANGED capVars
  <2>1. /\ pscfg' = pscfg /\ pc' = pc /\ device' = device
        /\ socket' = socket /\ cap' = cap /\ sweeps' = sweeps
        /\ calm' = calm
    BY <1>13 DEF capVars
  <2>2. InOrder' <=> InOrder
    BY <2>1 DEF InOrder, NthPacket, Lead, Centre
  <2> QED BY <1>3, <2>1, <2>2 DEF FilledInv
<1> QED BY <1>4, <1>5, <1>6, <1>7, <1>8, <1>9, <1>10, <1>11, <1>12, <1>13
        DEF CaptureNext, ClientNext

\* With nothing refused, lost or late, a measurement gets all its packets and
\* its spectrum is full of this sweep's bins from end to end, whatever the
\* range, the resolution and the errors of the planner's float arithmetic.
THEOREM SpectrumIsWhole == CaptureSpec => []WholeSpectrum
<1>1. CalmInv /\ FilledInv => WholeSpectrum
  BY DEF CalmInv, Calm, FilledInv, WholeSpectrum, Measured, Whole
<1> QED BY <1>1, InvInit, InvNext, CalmInit, CalmStep, FilledInit, FilledStep,
           PTL DEF CaptureSpec

(***************************************************************************)
(* How near the bins of the spectrum are to the frequencies they are taken   *)
(* for.  First the frequencies of a packet's bins: the n of them are B div n *)
(* hertz wide, rounded down to r.                                           *)
(***************************************************************************)
LEMMA BinHertz ==
    ASSUME NEW B \in Nat \ {0}, NEW n \in Nat \ {0}, NEW r \in Nat \ {0},
           r = B \div n, NEW m \in Nat
    PROVE  LET f == (m * B) \div n IN
           /\ f \in Nat /\ m * r <= f /\ f <= m * r + m
<1> DEFINE f == (m * B) \div n
<1>1. m * B \in Nat
  BY Z3
<1>2. /\ f \in Nat /\ f * n <= m * B /\ m * B < f * n + n
      /\ r * n <= B /\ B < r * n + n
  BY <1>1, DivBounds
<1> HIDE DEF f
<1>3. m * r \in Nat /\ f * n \in Nat /\ r * n \in Nat
  BY <1>2
<1>4. m * r <= f
  <2> SUFFICES ASSUME m * r >= f + 1 PROVE FALSE
    BY <1>2, <1>3
  <2>1. (m * r) * n >= (f + 1) * n /\ (f + 1) * n = f * n + n
    BY <1>2, <1>3, Z3
  <2>2. (m * r) * n = m * (r * n) /\ m * (r * n) <= m * B
    BY <1>2, Z3
  <2> QED BY <1>1, <1>2, <1>3, <2>1, <2>2
<1>5. f <= m * r + m
  <2> SUFFICES ASSUME f >= m * r + m + 1 PROVE FALSE
    BY <1>2, <1>3
  <2>1. f * n >= (m * r + m + 1) * n
    BY <1>2, <1>3, Z3
  <2>2. (m * r + m + 1) * n = m * (r * n + n) + n
    BY Z3
  <2>3. m * (r * n + n) >= m * B
    BY <1>2, <1>3, Z3
  <2> QED BY <1>1, <1>2, <1>3, <2>1, <2>2, <2>3
<1> QED BY <1>2, <1>4, <1>5 DEF f

\* In a packet turned round, as hertz below the end of the band.
LEMMA TurnedBinHertz ==
    ASSUME NEW B \in Nat \ {0}, NEW n \in Nat \ {0}, NEW r \in Nat \ {0},
           r = B \div n, NEW m \in Nat, m + 1 <= n
    PROVE  LET g == ((n - 1 - m) * B) \div n IN
           /\ g \in Nat /\ (m + 1) * r <= B - g
           /\ B - g <= (m + 1) * r + m + 1
<1> DEFINE q == n - 1 - m
           g == (q * B) \div n
           l == m + 1
<1>1. q \in Nat /\ l \in Nat /\ q = n - l
  OBVIOUS
<1>2. q * B \in Nat /\ q * B = n * B - l * B /\ l * B \in Nat /\ n * B \in Nat
  <2> HIDE DEF q, l
  <2> QED BY <1>1, Z3
<1> HIDE DEF q, l
<1>3. /\ g \in Nat /\ g * n <= q * B /\ q * B < g * n + n
      /\ r * n <= B /\ B < r * n + n
  BY <1>2, DivBounds
<1> HIDE DEF g
<1>4. l * r \in Nat /\ g * n \in Nat /\ r * n \in Nat
  BY <1>1, <1>3
<1>5. (B - g) * n = n * B - g * n
  BY <1>3, Z3
<1>6. l * r <= B - g
  <2> SUFFICES ASSUME B - g <= l * r - 1 PROVE FALSE
    BY <1>3, <1>4
  <2>1. (B - g) * n <= (l * r - 1) * n
    BY <1>3, <1>4, Z3
  <2>2. (l * r - 1) * n = l * (r * n) - n /\ l * (r * n) <= l * B
    BY <1>1, <1>3, <1>4, Z3
  <2>3. l * (r * n) \in Nat
    BY <1>1, <1>4
  <2> QED BY <1>2, <1>3, <1>4, <1>5, <2>1, <2>2, <2>3
<1>7. B - g <= l * r + l
  <2> SUFFICES ASSUME B - g >= l * r + l + 1 PROVE FALSE
    BY <1>1, <1>3, <1>4
  <2>1. (B - g) * n >= (l * r + l + 1) * n
    BY <1>1, <1>3, <1>4, Z3
  <2>2. (l * r + l + 1) * n = l * (r * n + n) + n
    BY <1>1, Z3
  <2>3. l * (r * n + n) >= l * B
    BY <1>1, <1>3, <1>4, Z3
  <2>4. l * (r * n + n) \in Nat
    BY <1>1, <1>4
  <2> QED BY <1>2, <1>3, <1>4, <1>5, <2>1, <2>2, <2>3, <2>4
<1>8. l = m + 1
  BY DEF l
<1>9. l * r = (m + 1) * r
  BY <1>8
<1>10. l * r + l = (m + 1) * r + m + 1
  BY <1>1, <1>4, <1>8, <1>9
<1> QED BY <1>3, <1>6, <1>7, <1>9, <1>10 DEF g, q

\* In the direct digitizer's packet, counted from the bin of a frequency.
LEMMA DdBinHertz ==
    ASSUME NEW B \in Nat \ {0}, NEW n \in Nat \ {0}, NEW r \in Nat \ {0},
           r = B \div n, NEW a \in Nat, NEW i \in Nat
    PROVE  LET x == (a * n) \div B
               f == ((x + i) * B) \div n IN
           /\ f \in Nat /\ f <= a + i * r + i /\ f >= a + i * r - r - 1
<1> DEFINE x == (a * n) \div B
           f == ((x + i) * B) \div n
<1>1. a * n \in Nat
  BY Z3
<1>2. /\ x \in Nat /\ x * B <= a * n /\ a * n < x * B + B
      /\ r * n <= B /\ B < r * n + n
  BY <1>1, DivBounds
<1> HIDE DEF x
<1>3. (x + i) * B \in Nat /\ (x + i) * B = x * B + i * B
  BY <1>2, Z3
<1>4. f \in Nat /\ f * n <= (x + i) * B /\ (x + i) * B < f * n + n
  BY <1>3, DivBounds
<1> HIDE DEF f
<1>5. /\ f * n \in Nat /\ x * B \in Nat /\ i * B \in Nat /\ i * r \in Nat
      /\ r * n \in Nat
  BY <1>2, <1>4
<1>6. f <= a + i * r + i
  <2> SUFFICES ASSUME f >= a + i * r + i + 1 PROVE FALSE
    BY <1>4, <1>5
  <2>1. f * n >= (a + i * r + i + 1) * n
    BY <1>4, <1>5, Z3
  <2>2. (a + i * r + i + 1) * n = a * n + i * (r * n + n) + n
    BY Z3
  <2>3. i * (r * n + n) >= i * B
    BY <1>2, <1>5, Z3
  <2>4. i * (r * n + n) \in Nat
    BY <1>5
  <2> QED BY <1>1, <1>2, <1>3, <1>4, <1>5, <2>1, <2>2, <2>3, <2>4
<1>7. f >= a + i * r - r - 1
  <2> SUFFICES ASSUME f <= a + i * r - r - 2 PROVE FALSE
    BY <1>4, <1>5
  <2>1. f * n <= (a + i * r - r - 2) * n
    BY <1>4, <1>5, Z3
  <2>2. (a + i * r - r - 2) * n = a * n + i * (r * n) - r * n - 2 * n
    BY Z3
  <2>3. i * (r * n) <= i * B
    BY <1>2, <1>5, Z3
  <2>4. i * (r * n) \in Nat
    BY <1>5
  <2> QED BY <1>1, <1>2, <1>3, <1>4, <1>5, <2>1, <2>2, <2>3, <2>4
<1> QED BY <1>4, <1>6, <1>7 DEF f, x

\* A bin pasted from a packet of a step: as far from its frequency as the
\* offset is from where the step's usable band begins, but for the rounding.
LEMMA UsableContent ==
    ASSUME PlanInv, Planned, NEW pkt, ~DdPacket, pscfg.mode # "DD",
           pkt.spp = pscfg.samples_per_packet, pkt.dd = FALSE,
           pkt.centre \in Int,
           cap.offset \in Nat, cap.offset < pscfg.buflen,
           NEW j \in Nat, j < Copied(pkt, BlockOf(Prop, pkt))
    PROVE  LET n == pscfg.samples_per_packet \div 2
               m == BlockOf(Prop, pkt).first + j
               q == IF pkt.inv THEN pkt.spp \div 2 - 1 - m ELSE m
               off == Content(Prop, pkt, q).freq
                      - (pscfg.fstart + (cap.offset + j) * pscfg.rbw)
               a == pkt.centre - HalfUsable(Prop) - pscfg.fstart
                    - cap.offset * pscfg.rbw
           IN  off \in Int /\ a - pscfg.rbw <= off /\ off <= a + pscfg.rbw + n
<1> DEFINE p == Prop
           b == UsableBins(p, pkt)
           block == BlockOf(p, pkt)
           B == p.full_bw
           L == p.usable_left
           R == p.usable_right
           U == p.usable_bw
           half == HalfUsable(p)
           P == Passband(p)
           n == pscfg.samples_per_packet \div 2
           r == pscfg.rbw
           c == pkt.centre
           fs == pscfg.fstart
           o == cap.offset
           m == block.first + j
           q == IF pkt.inv THEN pkt.spp \div 2 - 1 - m ELSE m
           f == (q * B) \div n
           freq == Content(p, pkt, q).freq
<1>1. PlanTyped(pscfg)
  BY PlanIsTyped
<1>2. /\ B \in Nat \ {0} /\ L \in Nat /\ R \in Nat /\ R <= B /\ L <= R
      /\ n \in Nat \ {0} /\ r \in Nat \ {0} /\ r = B \div n
      /\ pscfg.buflen \in Nat
  BY <1>1, TableFacts DEF Prop
<1>3. /\ R - L = U /\ fs \in Nat /\ pkt.spp \in Nat
  <2>1. /\ pscfg.mode \in Modes /\ fs \in Nat
        /\ pscfg.samples_per_packet \in MinSpp .. MaxSpp
    BY <1>1 DEF PlanTyped
  <2> QED BY <2>1, PlanAssumption DEF Prop
<1>4. U \in Nat /\ half \in Nat /\ 2 * half <= U /\ U <= 2 * half + 1
  BY PlanReaches
<1>5. P = L + half
  <2>1. (L + R) \div 2 = L + U \div 2
    <3> HIDE DEF L, R, U
    <3>1. L + R = 2 * L + U
      BY <1>2, <1>3, <1>4
    <3>2. (2 * L + U) \div 2 = L + U \div 2
      BY <1>2, <1>4
    <3> QED BY <3>1, <3>2
  <2> QED BY <2>1 DEF Passband, HalfUsable
<1>6. /\ b.first \in Nat /\ b.last \in Nat /\ b.last <= n
      /\ block.first = b.first /\ block.len <= b.last - b.first
      /\ block.len \in Nat /\ block.offset = o
  <2>1. /\ b.first \in Nat /\ b.last \in Nat /\ b.last <= n
        /\ block.first = b.first /\ block.offset = o
        /\ \/ block.len = b.last - b.first /\ b.last - b.first \in Nat
           \/ /\ o + (b.last - b.first) >= pscfg.buflen
              /\ block.len = pscfg.buflen - o
    BY UsableBlock
  <2> HIDE DEF b, block, n
  <2> QED BY <1>2, <2>1
<1>7. m \in Nat /\ m + 1 <= n /\ m = b.first + j
  <2>1. Copied(pkt, block) <= block.len /\ Copied(pkt, block) \in Nat
    <3>1. pscfg.buflen \in Int /\ block.first \in Int /\ block.offset \in Int
      BY <1>2, <1>6
    <3> HIDE DEF block
    <3> QED BY <1>3, <1>6, <3>1, CopiedBounds
  <2>2. j < Copied(pkt, block)
    OBVIOUS
  <2> HIDE DEF b, block, n
  <2> QED BY <1>2, <1>6, <2>1, <2>2
<1>8. freq = IF pkt.inv THEN c + P - f ELSE c - P + f
  BY DEF Content
<1>9. b = IF pkt.inv THEN [first |-> (B - R) \div r, last |-> (B - L) \div r]
          ELSE [first |-> L \div r, last |-> R \div r]
  BY DEF UsableBins
<1>10. pkt.spp \div 2 = n
  OBVIOUS
<1> DEFINE z == fs + (o + j) * r
           a == c - half - fs - o * r
           first == b.first
<1>11. /\ (o + j) * r = o * r + j * r /\ o * r \in Nat /\ j * r \in Nat
       /\ first * r \in Nat
  BY <1>2, <1>6, Z3
<1> SUFFICES freq - z \in Int /\ a - r <= freq - z /\ freq - z <= a + r + n
  OBVIOUS
<1>12. CASE ~pkt.inv
  <2>1. q = m /\ freq = c - P + f /\ first = L \div r
    BY <1>8, <1>9, <1>12
  <2>2. first * r <= L /\ L < first * r + r
    BY <1>2, <2>1, DivBounds
  <2> HIDE DEF b, block, first, freq, q, n, r, B, P, m
  <2>3. f \in Nat /\ m * r <= f /\ f <= m * r + m
    BY <1>2, <1>7, <2>1, BinHertz
  <2>4. m * r = first * r + j * r
    <3>1. m = first + j
      BY <1>7 DEF first
    <3>2. first \in Nat
      BY <1>6 DEF first
    <3> QED BY <1>2, <3>1, <3>2, Z3
  <2> HIDE DEF f, L, R, U, half, c, fs, o
  <2>5. c \in Int /\ P \in Int /\ freq = c - P + f
    BY <1>2, <1>4, <1>5, <2>1 DEF c
  <2> QED BY <1>2, <1>3, <1>4, <1>5, <1>7, <1>11, <2>2, <2>3, <2>4, <2>5
<1>13. CASE pkt.inv
  <2>1. q = n - 1 - m /\ freq = c + P - f /\ first = (B - R) \div r
    BY <1>8, <1>9, <1>10, <1>13
  <2>2. first * r <= B - R /\ B - R < first * r + r
    <3>1. B - R \in Nat
      BY <1>2
    <3> QED BY <1>2, <2>1, <3>1, DivBounds
  <2> HIDE DEF b, block, first, freq, q, n, r, B, P, m
  <2>3. f \in Nat /\ (m + 1) * r <= B - f /\ B - f <= (m + 1) * r + m + 1
    BY <1>2, <1>7, <2>1, TurnedBinHertz
  <2>4. (m + 1) * r = first * r + j * r + r
    <3>1. m = first + j
      BY <1>7 DEF first
    <3>2. first \in Nat
      BY <1>6 DEF first
    <3> QED BY <1>2, <3>1, <3>2, Z3
  <2> HIDE DEF f, L, R, U, half, c, fs, o
  <2>5. c \in Int /\ P \in Int /\ freq = c + P - f
    BY <1>2, <1>4, <1>5, <2>1 DEF c
  <2> QED BY <1>2, <1>3, <1>4, <1>5, <1>7, <1>11, <2>2, <2>3, <2>4, <2>5
<1> QED BY <1>12, <1>13

\* Where the direct digitizer's packet is put, and that as many of its bins
\* are copied as there are at most.
LEMMA DdPlace ==
    ASSUME PlanInv, Planned, NEW pkt, DdPacket,
           pkt.spp = pscfg.samples_per_packet
    PROVE  LET n == pscfg.samples_per_packet \div 2
               x == (pscfg.fstart * n) \div Prop.full_bw
               block == BlockOf(Prop, pkt)
               k == Copied(pkt, block)
           IN  /\ block.offset = 0 /\ block.first = x /\ x \in Nat
               /\ k \in Nat /\ (k > 0 => k <= n - x + 1)
<1> DEFINE p == Prop
           block == BlockOf(p, pkt)
           B == p.full_bw
           n == pscfg.samples_per_packet \div 2
           r == pscfg.rbw
           fs == pscfg.fstart
           x == (fs * n) \div B
           k == Copied(pkt, block)
<1>1. PlanTyped(pscfg)
  BY PlanIsTyped
<1>2. /\ B \in Nat \ {0} /\ n \in Nat \ {0} /\ r \in Nat \ {0}
      /\ r = B \div n /\ pscfg.buflen \in Nat
  BY <1>1, TableFacts DEF Prop
<1>3. fs \in Nat /\ pkt.spp \in Nat
  <2>1. fs \in Nat /\ pscfg.samples_per_packet \in MinSpp .. MaxSpp
    BY <1>1 DEF PlanTyped
  <2> QED BY <2>1, PlanAssumption
<1>4. /\ block.offset = 0 /\ block.first = x
      /\ block.len = Wrap(DdBins(p, pkt).last - x)
  BY DEF BlockOf, OffsetOf, DdBins
<1>5. x \in Nat
  BY <1>2, <1>3, BinsToHertz
<1>6. block.len \in Nat
  <2>1. DdBins(p, pkt).last \in Int
    <3>1. Word \in Nat \ {0}
      BY CaptureAssumption
    <3>2. (4 * pkt.spp) \div 10 \in Int
      BY <1>3
    <3>3. (pscfg.fstop * (pkt.spp \div 2)) \div p.full_bw - 1 \in Int
      <4>1. pscfg.fstop \in Nat
        BY <1>1 DEF PlanTyped
      <4>2. pscfg.fstop * n \in Nat
        BY <1>2, <4>1, Z3
      <4>3. (pscfg.fstop * n) \div B \in Nat
        BY <1>2, <4>2, DivBounds
      <4> QED BY <4>3
    <3>4. Wrap((pscfg.fstop * (pkt.spp \div 2)) \div p.full_bw - 1) \in Int
      BY <3>1, <3>3, Wraps
    <3> QED BY <3>2, <3>4 DEF DdBins
  <2>2. DdBins(p, pkt).last - x \in Int
    BY <1>5, <2>1
  <2>3. Wrap(DdBins(p, pkt).last - x) \in 0 .. Word - 1 /\ Word \in Nat
    BY <2>2, Wraps, CaptureAssumption
  <2> QED BY <1>4, <2>3
<1>7. /\ k \in Nat
      /\ k > 0 => k <= pkt.spp \div 2 - block.first + 1
  <2>1. pscfg.buflen \in Int /\ block.first \in Int /\ block.offset \in Int
    BY <1>2, <1>4, <1>5
  <2> HIDE DEF block, x
  <2> QED BY <1>3, <1>6, <2>1, CopiedBounds
<1> QED BY <1>4, <1>5, <1>7

\* A bin pasted from the direct digitizer's packet.
LEMMA DdContent ==
    ASSUME PlanInv, Planned, NEW pkt, DdPacket,
           pkt.spp = pscfg.samples_per_packet, pkt.dd,
           NEW j \in Nat, j < Copied(pkt, BlockOf(Prop, pkt))
    PROVE  LET block == BlockOf(Prop, pkt)
               off == Content(Prop, pkt, block.first + j).freq
                      - (pscfg.fstart + j * pscfg.rbw)
           IN  /\ block.offset = 0 /\ off \in Int
               /\ off >= - pscfg.rbw - 1
               /\ off <= pscfg.samples_per_packet \div 2
<1> DEFINE p == Prop
           block == BlockOf(p, pkt)
           B == p.full_bw
           n == pscfg.samples_per_packet \div 2
           r == pscfg.rbw
           fs == pscfg.fstart
           x == (fs * n) \div B
           f == ((x + j) * B) \div n
           k == Copied(pkt, block)
<1>1. PlanTyped(pscfg)
  BY PlanIsTyped
<1>2. /\ B \in Nat \ {0} /\ n \in Nat \ {0} /\ r \in Nat \ {0}
      /\ r = B \div n /\ pscfg.buflen \in Nat
  BY <1>1, TableFacts DEF Prop
<1>3. fs \in Nat /\ pkt.spp \in Nat
  <2>1. fs \in Nat /\ pscfg.samples_per_packet \in MinSpp .. MaxSpp
    BY <1>1 DEF PlanTyped
  <2> QED BY <2>1, PlanAssumption
<1>4. /\ block.offset = 0 /\ block.first = x /\ x \in Nat
      /\ k \in Nat /\ (k > 0 => k <= n - x + 1)
  BY DdPlace
<1>7. x + j <= n /\ j <= n
  <2>2. j < k
    OBVIOUS
  <2> HIDE DEF k, block, x, n
  <2> QED BY <1>2, <1>4, <2>2
<1>8. Content(p, pkt, block.first + j).freq = f
  BY <1>4 DEF Content
<1>9. f \in Nat /\ f <= fs + j * r + j /\ f >= fs + j * r - r - 1
  BY <1>2, <1>3, DdBinHertz
<1> HIDE DEF f, x, block
<1>10. j * r \in Nat
  BY <1>2
<1>11. f - (fs + j * r) <= n /\ f - (fs + j * r) >= - r - 1
       /\ f - (fs + j * r) \in Int
  BY <1>2, <1>3, <1>7, <1>9, <1>10
<1> QED BY <1>4, <1>8, <1>11 DEF block

(***************************************************************************)
(* How far the spectrum reaches at most after count packets: of every step   *)
(* it takes up more than the step is wide, two bins and the rounding of the  *)
(* step at most.                                                            *)
(***************************************************************************)
Limit(count) ==
    IF ~pscfg.dd_mode THEN count * (pscfg.entry.fstep + Lag)
    ELSE IF count = 0 THEN 0
    ELSE Prop.min_tunable - pscfg.fstart + 2 * pscfg.rbw
         + (count - 1) * (pscfg.entry.fstep + Lag)

LEMMA LagTyped ==
    ASSUME PlanInv, Planned
    PROVE  /\ Lag \in Nat /\ Lag = 2 * pscfg.rbw + Prop.tuning_resolution
           /\ Prop.tuning_resolution \in Nat /\ pscfg.rbw \in Nat \ {0}
<1>1. Prop.tuning_resolution \in Nat
  BY PlanReaches
<1>2. pscfg.rbw \in Nat \ {0}
  BY PlanIsTyped DEF PlanTyped
<1> QED BY <1>1, <1>2 DEF Lag

LEMMA LimitGrows ==
    ASSUME PlanInv, Planned, NEW c \in Nat
    PROVE  /\ Limit(c) \in Int
           /\ ~(pscfg.dd_mode /\ c < 1) =>
                 Limit(c + 1) = Limit(c) + (pscfg.entry.fstep + Lag)
           /\ pscfg.dd_mode => Limit(0 + 1) =
                 Prop.min_tunable - pscfg.fstart + 2 * pscfg.rbw
<1> DEFINE s == pscfg.entry.fstep + Lag
           d == Prop.min_tunable - pscfg.fstart + 2 * pscfg.rbw
<1>1. PlanTyped(pscfg)
  BY PlanIsTyped
<1>2. s \in Nat /\ d \in Int /\ pscfg.dd_mode \in BOOLEAN
  <2>1. Prop.min_tunable \in Nat
    BY <1>1, TableFacts DEF Prop
  <2>2. /\ pscfg.entry.fstep \in Nat \ {0} /\ pscfg.dd_mode \in BOOLEAN
        /\ pscfg.fstart \in Nat
    BY <1>1 DEF PlanTyped
  <2> QED BY <2>1, <2>2, LagTyped
<1>3. \A n \in Nat : Limit(n) = IF ~pscfg.dd_mode THEN n * s
                              ELSE IF n = 0 THEN 0 ELSE d + (n - 1) * s
  BY DEF Limit
<1> HIDE DEF s, d
<1>4. \A a \in Nat : (a + 1) * s = a * s + s /\ a * s \in Nat
  BY <1>2, Z3
<1>5. CASE ~pscfg.dd_mode
  <2>1. Limit(c) = c * s /\ Limit(c + 1) = (c + 1) * s
    BY <1>3, <1>5
  <2> QED BY <1>4, <1>5, <2>1 DEF s
<1>6. ASSUME pscfg.dd_mode, NEW a \in Nat
      PROVE  Limit(a + 1) = d + a * s
  <2>1. a + 1 \in Nat /\ a + 1 # 0 /\ (a + 1) - 1 = a
    OBVIOUS
  <2> QED BY <1>3, <1>6, <2>1
<1>7. CASE pscfg.dd_mode
  <2>1. Limit(0 + 1) = d
    <3>1. 0 * s = 0
      BY <1>2, Z3
    <3> QED BY <1>2, <1>6, <1>7, <3>1
  <2>2. c = 0 => Limit(c) = 0
    BY <1>3, <1>7
  <2>3. ASSUME c # 0 PROVE Limit(c) \in Int /\ Limit(c + 1) = Limit(c) + s
    <3> DEFINE a == c - 1
    <3>1. a \in Nat /\ c = a + 1 /\ a + 1 \in Nat
      BY <2>3
    <3> HIDE DEF a
    <3>2. Limit(c) = d + a * s /\ Limit(c + 1) = d + (a + 1) * s
      BY <1>6, <1>7, <3>1
    <3>3. a * s \in Nat /\ (a + 1) * s = a * s + s
      BY <1>4, <3>1
    <3> QED BY <1>2, <3>2, <3>3
  <2> QED BY <1>7, <2>1, <2>2, <2>3 DEF s, d
<1> QED BY <1>2, <1>5, <1>7

\* A bin that is as far off as the offset from its step, up to the rounding, is
\* near enough.
LEMMA OffsetClose ==
    ASSUME PlanInv, Planned, NEW c \in Nat, ~(pscfg.dd_mode /\ c < 1),
           pscfg.packet_total \in Nat, c < pscfg.packet_total,
           NEW o \in Nat, o * pscfg.rbw >= Reach(c),
           o * pscfg.rbw <= Limit(c),
           NEW off \in Int,
           LET a == Centre(pscfg.entry, c - Lead) - HalfUsable(Prop)
                    - pscfg.fstart - o * pscfg.rbw
           IN  /\ a - pscfg.rbw <= off
               /\ off <= a + pscfg.rbw + pscfg.samples_per_packet \div 2
    PROVE  /\ off <= 3 * pscfg.rbw + pscfg.samples_per_packet
           /\ off >= - (pscfg.packet_total * Lag)
<1> DEFINE e == pscfg.entry
           s == e.fstep
           fc == e.fcstart
           half == HalfUsable(Prop)
           res == Prop.tuning_resolution
           T == Prop.min_tunable
           fs == pscfg.fstart
           r == pscfg.rbw
           spp == pscfg.samples_per_packet
           n == spp \div 2
           N == pscfg.packet_total
           k == c - Lead
           or == o * r
           a == Centre(e, k) - half - fs - or
<1>1. /\ half \in Nat /\ res \in Nat /\ fc \in Nat /\ s \in Nat \ {0}
      /\ ~pscfg.dd_mode => fc <= fs + half /\ fs + half < fc + res
      /\ pscfg.dd_mode => fc + res <= T + half /\ T + half < fc + 2 * res
  BY PlanReaches
<1>2. PlanTyped(pscfg)
  BY PlanIsTyped
<1>3. /\ fs \in Nat /\ T \in Nat /\ spp \in Nat /\ n \in Nat /\ 2 * n <= spp
      /\ pscfg.dd_mode \in BOOLEAN
  <2>1. /\ fs \in Nat /\ pscfg.dd_mode \in BOOLEAN
        /\ spp \in MinSpp .. MaxSpp
    BY <1>2 DEF PlanTyped
  <2>2. T \in Nat
    BY <1>2, TableFacts DEF Prop
  <2> QED BY <2>1, <2>2, PlanAssumption
<1>4. Lag \in Nat /\ Lag = 2 * r + res /\ r \in Nat \ {0}
  BY LagTyped
<1>5. or \in Nat /\ or >= Reach(c) /\ or <= Limit(c)
  <2>1. o * r \in Nat
    BY <1>4
  <2> QED BY <2>1
<1>6. a - r <= off /\ off <= a + r + n
  OBVIOUS
<1>7. k \in Nat /\ Centre(e, k) = fc + k * s
  BY <1>3 DEF Lead, Centre
<1>8. /\ k * (s + 1) = k * s + k /\ k * s \in Nat
      /\ k * (s + Lag) = k * s + k * Lag /\ k * Lag \in Nat
  <2> HIDE DEF k, s
  <2> QED BY <1>1, <1>4, <1>7, Z3
<1>9. ASSUME NEW d \in Nat, N >= k + d PROVE N * Lag >= k * Lag + d * Lag
  <2>3. N \in Nat
    OBVIOUS
  <2> HIDE DEF k, N
  <2>1. N * Lag >= (k + d) * Lag
    BY <1>4, <1>7, <1>9, <2>3, Z3
  <2>2. (k + d) * Lag = k * Lag + d * Lag
    BY <1>4, <1>7, Z3
  <2> QED BY <2>1, <2>2
<1>10. N * Lag \in Nat
  BY <1>4
<1>11. CASE ~pscfg.dd_mode
  <2>1. k = c
    BY <1>11 DEF Lead
  <2>2. Reach(c) = k * (s + 1) /\ Limit(c) = k * (s + Lag)
    BY <1>11, <2>1 DEF Reach, Limit
  <2>3. N * Lag >= k * Lag + Lag
    <3>1. N >= k + 1
      BY <2>1
    <3> HIDE DEF k, N
    <3>2. N * Lag >= k * Lag + 1 * Lag
      BY <1>9, <3>1
    <3> QED BY <1>4, <3>2
  <2> HIDE DEF k, N, s, e, or, fc, half, fs, r, res, n, spp
  <2> QED BY <1>1, <1>3, <1>4, <1>5, <1>6, <1>7, <1>8, <1>10, <1>11, <2>2,
             <2>3 DEF a, N, r, spp
<1>12. CASE pscfg.dd_mode
  <2>1. k = c - 1 /\ c # 0
    BY <1>12 DEF Lead
  <2>2. /\ Reach(c) = T - fs - n - 2 * r + k * (s + 1)
        /\ Limit(c) = T - fs + 2 * r + k * (s + Lag)
    BY <1>12, <2>1 DEF Reach, Limit
  <2>3. N * Lag >= k * Lag + 2 * Lag
    <3>1. N >= k + 2
      BY <2>1
    <3> HIDE DEF k, N
    <3> QED BY <1>9, <3>1
  <2> HIDE DEF k, N, s, e, or, fc, half, fs, r, res, n, spp, T
  <2> QED BY <1>1, <1>3, <1>4, <1>5, <1>6, <1>7, <1>8, <1>10, <1>12, <2>2,
             <2>3 DEF a, N, r, spp
<1> QED BY <1>3, <1>11, <1>12

(***************************************************************************)
(* While packets are read, the bins in the buffer are near their             *)
(* frequencies, and so will those be that the next packet brings: the offset  *)
(* is between what the packets so far reach at least and at most.            *)
(***************************************************************************)
Within ==
    cap.offset < pscfg.buflen =>
        /\ cap.offset * pscfg.rbw >= Reach(cap.count)
        /\ cap.offset * pscfg.rbw <= Limit(cap.count)

\* What one packet does to the buffer.
LEMMA PastedBins ==
    ASSUME NEW pkt, pscfg.buflen \in Nat, cap' = Paste(Prop, pkt),
           pscfg' = pscfg, NEW i \in Bins
    PROVE  LET block == BlockOf(Prop, pkt)
               m == block.first + i - block.offset
               q == IF pkt.inv /\ ~DdPacket THEN pkt.spp \div 2 - 1 - m
                    ELSE m
           IN  IF i >= block.offset /\ i < block.offset + Copied(pkt, block)
                 THEN cap'.buf[i] = Content(Prop, pkt, q)
                 ELSE cap'.buf[i] = cap.buf[i]
<1>1. i \in 0 .. pscfg.buflen
  BY DEF Bins
<1> QED BY <1>1 DEF Paste

LEMMA StepBinClose ==
    ASSUME PlanInv, Planned, NEW pkt, ~DdPacket, pscfg.mode # "DD",
           NthPacket(pkt, cap.count + 1, sweeps),
           cap.count \in Nat, pscfg.packet_total \in Nat,
           cap.count < pscfg.packet_total,
           cap.offset \in Nat, cap.offset < pscfg.buflen, Within,
           NEW j \in Nat, j < Copied(pkt, BlockOf(Prop, pkt))
    PROVE  LET m == BlockOf(Prop, pkt).first + j
               q == IF pkt.inv THEN pkt.spp \div 2 - 1 - m ELSE m
           IN  Close(Content(Prop, pkt, q).freq, cap.offset + j)
<1> DEFINE n == pscfg.samples_per_packet \div 2
           m == BlockOf(Prop, pkt).first + j
           q == IF pkt.inv THEN pkt.spp \div 2 - 1 - m ELSE m
           off == Content(Prop, pkt, q).freq
                  - (pscfg.fstart + (cap.offset + j) * pscfg.rbw)
           c == cap.count
           centre == Centre(pscfg.entry, c - Lead)
           a == centre - HalfUsable(Prop) - pscfg.fstart
                - cap.offset * pscfg.rbw
<1>1. PlanTyped(pscfg)
  BY PlanIsTyped
<1>2. pscfg.dd_mode \in BOOLEAN /\ ~(pscfg.dd_mode /\ c < 1)
  BY <1>1 DEF PlanTyped, DdPacket
<1>3. c + 1 > Lead /\ (c + 1) - 1 - Lead = c - Lead /\ c - Lead \in Nat
  BY <1>2 DEF Lead
<1>4. /\ pkt.spp = pscfg.samples_per_packet /\ pkt.dd = FALSE
      /\ pkt.centre = centre
  BY <1>3 DEF NthPacket
<1>5. centre \in Int
  <2>1. pscfg.entry.fcstart \in Nat /\ pscfg.entry.fstep \in Nat
    BY <1>1 DEF PlanTyped
  <2> QED BY <1>3, <2>1 DEF Centre
<1>6. off \in Int /\ a - pscfg.rbw <= off /\ off <= a + pscfg.rbw + n
  <2> HIDE DEF centre
  <2> QED BY <1>4, <1>5, UsableContent
<1>7. /\ cap.offset * pscfg.rbw >= Reach(c)
      /\ cap.offset * pscfg.rbw <= Limit(c)
  BY DEF Within
<1> HIDE DEF off
<1>8. /\ off <= 3 * pscfg.rbw + pscfg.samples_per_packet
      /\ off >= - (pscfg.packet_total * Lag)
  BY <1>2, <1>6, <1>7, OffsetClose
<1> QED BY <1>8 DEF off, Close

LEMMA DdBinClose ==
    ASSUME PlanInv, Planned, NEW pkt, DdPacket,
           NthPacket(pkt, cap.count + 1, sweeps),
           cap.count \in Nat, pscfg.packet_total \in Nat,
           cap.count < pscfg.packet_total,
           NEW j \in Nat, j < Copied(pkt, BlockOf(Prop, pkt))
    PROVE  /\ BlockOf(Prop, pkt).offset = 0
           /\ Close(Content(Prop, pkt, BlockOf(Prop, pkt).first + j).freq, j)
<1> DEFINE block == BlockOf(Prop, pkt)
           r == pscfg.rbw
           spp == pscfg.samples_per_packet
           N == pscfg.packet_total
           off == Content(Prop, pkt, block.first + j).freq
                  - (pscfg.fstart + j * r)
<1>1. pkt.spp = spp /\ pkt.dd
  <2>1. cap.count + 1 <= Lead
    BY DEF DdPacket, Lead
  <2> QED BY <2>1 DEF NthPacket
<1>2. /\ block.offset = 0 /\ off \in Int
      /\ off >= - r - 1 /\ off <= spp \div 2
  BY <1>1, DdContent
<1>3. r \in Nat \ {0} /\ spp \in Nat /\ Lag \in Nat /\ Lag >= r + 1
  <2>1. spp \in MinSpp .. MaxSpp
    BY PlanIsTyped DEF PlanTyped
  <2> QED BY <2>1, LagTyped, PlanAssumption
<1>4. N * Lag >= Lag /\ N * Lag \in Nat
  <2>1. N \in Nat /\ N >= 1
    OBVIOUS
  <2> HIDE DEF N
  <2> QED BY <1>3, <2>1, Z3
<1> HIDE DEF off, r, N, spp, block
<1>5. off <= 3 * r + spp /\ off >= - (N * Lag)
  BY <1>2, <1>3, <1>4
<1> QED BY <1>2, <1>5 DEF off, r, N, spp, block, Close

LEMMA NearOnce ==
    ASSUME PlanInv, Planned, pscfg.mode = "DD" => pscfg.only_dd,
           cap.count \in Nat, pscfg.packet_total \in Nat,
           cap.count < pscfg.packet_total,
           NEW pkt, NthPacket(pkt, cap.count + 1, sweeps),
           cap.offset \in Nat, AllClose, Within,
           cap' = Paste(Prop, pkt), pscfg' = pscfg
    PROVE  AllClose'
<1> DEFINE block == BlockOf(Prop, pkt)
           k == Copied(pkt, block)
           m(i) == block.first + i - block.offset
           q(i) == IF pkt.inv /\ ~DdPacket THEN pkt.spp \div 2 - 1 - m(i)
                   ELSE m(i)
<1>1. PlanTyped(pscfg)
  BY PlanIsTyped
<1>2. pscfg.buflen \in Nat /\ pscfg.rbw \in Nat
  BY <1>1, TableFacts
<1>3. Bins' = Bins /\ Bins = 0 .. pscfg.buflen - 1
  BY DEF Bins
<1>4. \A freq, i : Close(freq, i)' <=> Close(freq, i)
  BY DEF Close, Lag, Prop
<1>5. ASSUME NEW i \in Bins, i >= block.offset, i < block.offset + k
      PROVE  Close(Content(Prop, pkt, q(i)).freq, i)
  <2>1. i \in Nat /\ i < pscfg.buflen
    BY <1>2, <1>3
  <2>2. CASE DdPacket
    <3>1. block.offset = 0 /\ block.first \in Nat /\ k \in Nat
      <4>1. pkt.spp = pscfg.samples_per_packet
        BY DEF NthPacket
      <4> QED BY <2>2, <4>1, DdPlace
    <3>3. i < k
      <4> HIDE DEF block, k
      <4> QED BY <1>5, <2>1, <3>1
    <3>4. Close(Content(Prop, pkt, block.first + i).freq, i)
      BY <2>1, <2>2, <3>3, DdBinClose
    <3>5. q(i) = block.first + i
      <4>1. m(i) = block.first + i
        <5> HIDE DEF block
        <5> QED BY <2>1, <3>1
      <4> QED BY <2>2, <4>1
    <3> QED BY <3>4, <3>5
  <2>3. CASE ~DdPacket
    <3>1. block.offset = cap.offset
      BY <2>3 DEF BlockOf, OffsetOf
    <3>2. cap.offset < pscfg.buflen
      <4> HIDE DEF block, k
      <4> QED BY <1>2, <1>5, <2>1, <3>1
    <3>3. pscfg.mode # "DD"
      <4>1. pscfg.only_dd => pscfg.dd_mode /\ pscfg.packet_total = 1
        BY <1>1 DEF PlanTyped
      <4> QED BY <2>3, <4>1 DEF DdPacket
    <3> DEFINE j == i - cap.offset
    <3>4. j \in Nat /\ cap.offset + j = i
      <4> HIDE DEF block, k
      <4> QED BY <1>5, <2>1, <3>1
    <3>5. block.first \in Int /\ k \in Int
      <4>1. pkt.inv => pscfg.mode # "DD"
        BY <3>3
      <4>2. block.first \in Nat
        <5>1. UsableBins(Prop, pkt).first \in Nat
              /\ block.first = UsableBins(Prop, pkt).first
          BY <2>3, <3>2, <4>1, UsableBlock
        <5> QED BY <5>1
      <4>3. k \in Nat
        <5>1. pkt.spp = pscfg.samples_per_packet
          BY DEF NthPacket
        <5> QED BY <2>3, <3>2, <4>1, <5>1, UsableReaches
      <4> QED BY <4>2, <4>3
    <3>6. j < k
      <4> HIDE DEF block, k
      <4> QED BY <1>5, <2>1, <3>1, <3>5
    <3>7. LET mm == block.first + j
              qq == IF pkt.inv THEN pkt.spp \div 2 - 1 - mm ELSE mm
          IN  Close(Content(Prop, pkt, qq).freq, cap.offset + j)
      <4> HIDE DEF j
      <4> QED BY <2>3, <3>2, <3>3, <3>4, <3>6, StepBinClose
    <3>8. m(i) = block.first + j
      <4> HIDE DEF block, k
      <4> QED BY <2>1, <3>1, <3>4, <3>5
    <3>9. q(i) = IF pkt.inv THEN pkt.spp \div 2 - 1 - (block.first + j)
                 ELSE block.first + j
      BY <2>3, <3>8
    <3> HIDE DEF j, q, m, block, k
    <3> QED BY <3>4, <3>7, <3>9
  <2> QED BY <2>2, <2>3
<1>6. ASSUME NEW i \in Bins
      PROVE  IF i >= block.offset /\ i < block.offset + k
               THEN cap'.buf[i] = Content(Prop, pkt, q(i))
               ELSE cap'.buf[i] = cap.buf[i]
  BY <1>2, PastedBins
<1> HIDE DEF q, m, k, block
<1>7. ASSUME NEW i \in Bins, cap'.buf[i] # Poison
      PROVE  Close(cap'.buf[i].freq, i)
  <2>1. CASE i >= block.offset /\ i < block.offset + k
    <3>1. cap'.buf[i] = Content(Prop, pkt, q(i))
      BY <1>6, <2>1
    <3>2. Close(Content(Prop, pkt, q(i)).freq, i)
      BY <1>5, <2>1
    <3> QED BY <3>1, <3>2
  <2>2. CASE ~(i >= block.offset /\ i < block.offset + k)
    <3>1. cap'.buf[i] = cap.buf[i]
      BY <1>6, <2>2
    <3> QED BY <1>7, <3>1 DEF AllClose
  <2> QED BY <2>1, <2>2
<1> QED BY <1>3, <1>4, <1>7 DEF AllClose

LEMMA WithinOnce ==
    ASSUME PlanInv, Planned, ~pscfg.only_dd, Pasted, pc = "read",
           cap.count \in Nat, pscfg.packet_total \in Nat,
           cap.count + 1 < pscfg.packet_total,
           NEW pkt, NthPacket(pkt, cap.count + 1, sweeps), Within,
           cap' = Paste(Prop, pkt), pscfg' = pscfg
    PROVE  Within'
<1> DEFINE block == BlockOf(Prop, pkt)
           k == Copied(pkt, block)
           off == Wrap(block.offset + block.len)
           end == pscfg.buflen
           r == pscfg.rbw
           s == pscfg.entry.fstep
           o == cap.offset
           c == cap.count
<1>1. PlanTyped(pscfg)
  BY PlanIsTyped
<1>2. /\ end \in Nat /\ r \in Nat \ {0} /\ s \in Nat /\ Lag \in Nat
      /\ pscfg.dd_mode \in BOOLEAN /\ MaxSpp \in Nat
  BY <1>1, TableFacts, LagTyped DEF PlanTyped
<1>3. cap'.count = c + 1 /\ cap'.offset = off
  BY DEF Paste
<1>4. /\ Reach(cap.count)' = Reach(c + 1) /\ Limit(cap.count)' = Limit(c + 1)
  BY <1>3 DEF Reach, Limit, Prop, Lag
<1>5. SUFFICES ASSUME off < end
               PROVE  off * r >= Reach(c + 1) /\ off * r <= Limit(c + 1)
  BY <1>3, <1>4 DEF Within
<1>6. o \in 0 .. Word - 1 /\ o <= end + MaxSpp
  BY DEF Pasted, LastPacket
<1>7. pkt.spp = pscfg.samples_per_packet /\ (pkt.inv /\ ~DdPacket => pscfg.mode # "DD")
  <2>1. ~DdPacket => c + 1 > Lead
    BY <1>2 DEF DdPacket, Lead
  <2> QED BY <2>1 DEF NthPacket
<1>8. CASE DdPacket
  <2>1. c = 0 /\ pscfg.dd_mode
    BY <1>8 DEF DdPacket
  <2>2. /\ block.offset = 0 /\ k \in Nat
        /\ \/ k >= end /\ Wrap(block.len) >= end
           \/ /\ k = block.len /\ Wrap(block.len) = block.len
              /\ block.len < end
              /\ block.len * r >= Prop.min_tunable - pscfg.fstart
                                  - pscfg.samples_per_packet \div 2 - 2 * r
              /\ block.len * r <= Prop.min_tunable - pscfg.fstart + 2 * r
    BY <1>7, <1>8, DdReaches
  <2>3. block.len \in 0 .. Word - 1
    <3>1. pkt.spp \in 0 .. MaxSpp
      <4>1. pscfg.samples_per_packet \in MinSpp .. MaxSpp
        BY <1>1 DEF PlanTyped
      <4> QED BY <1>7, <4>1, PlanAssumption
    <3> QED BY <1>1, <1>8, <3>1, DdBlock
  <2>4. off = Wrap(block.len)
    <3>1. 0 + block.len = block.len
      <4> HIDE DEF block
      <4> QED BY <2>3, CaptureAssumption
    <3> QED BY <2>2, <3>1
  <2>5. Wrap(block.len) = block.len
    <3> HIDE DEF block
    <3> QED BY <2>3, Wraps, CaptureAssumption
  <2>6. ~(Wrap(block.len) >= end)
    <3> HIDE DEF block, off
    <3> QED BY <1>2, <1>5, <2>3, <2>4, <2>5, CaptureAssumption
  <2>7. off = block.len
    BY <2>4, <2>5
  <2>8. /\ Reach(0 + 1) = Prop.min_tunable - pscfg.fstart
                          - pscfg.samples_per_packet \div 2 - 2 * r
        /\ Limit(0 + 1) = Prop.min_tunable - pscfg.fstart + 2 * r
    BY <2>1, ReachGrows, LimitGrows
  <2>9. c + 1 = 0 + 1
    BY <2>1
  <2> HIDE DEF off, block, k
  <2> QED BY <2>2, <2>6, <2>7, <2>8, <2>9
<1>9. CASE ~DdPacket
  <2>1. block.offset = o /\ off = Wrap(o + block.len)
    BY <1>9 DEF BlockOf, OffsetOf
  <2>2. o < end
    <3>1. /\ \/ /\ Wrap(o + block.len) = o + block.len
                /\ o + block.len < end
             \/ Wrap(o + block.len) = end
          /\ block.len \in 0 .. Word - 1
      BY <1>1, <1>6, <1>9, ClampedBlock
    <3> HIDE DEF block, off
    <3> QED BY <1>2, <1>5, <1>6, <2>1, <3>1, CaptureAssumption
  <2>3. o \in Nat
    BY <1>6, CaptureAssumption
  <2>4. /\ k \in Nat
        /\ \/ Wrap(o + block.len) = end
           \/ /\ k = block.len /\ Wrap(o + block.len) = o + block.len
              /\ block.len * r >= s + 1 /\ block.len * r <= s + Lag
    BY <1>7, <1>9, <2>2, <2>3, UsableReaches
  <2> DEFINE l == block.len
  <2>5. /\ l \in Nat /\ off = o + l
        /\ l * r >= s + 1 /\ l * r <= s + Lag
    <3> HIDE DEF block, off, k
    <3> QED BY <1>2, <1>5, <2>1, <2>4
  <2>6. o * r >= Reach(c) /\ o * r <= Limit(c)
    BY <2>2 DEF Within
  <2>7. /\ Reach(c + 1) = Reach(c) + (s + 1) /\ Reach(c) \in Int
        /\ Limit(c + 1) = Limit(c) + (s + Lag) /\ Limit(c) \in Int
    BY <1>9, ReachGrows, LimitGrows DEF DdPacket
  <2> HIDE DEF l, off, o, r, s, c
  <2>8. off * r = o * r + l * r /\ o * r \in Nat /\ l * r \in Nat
    BY <1>2, <2>3, <2>5, Z3
  <2> QED BY <1>2, <2>5, <2>6, <2>7, <2>8
<1> QED BY <1>8, <1>9

NearInv ==
    calm =>
        /\ pc = "read" => /\ ~pscfg.only_dd => Within
                          /\ (pscfg.mode = "DD" => pscfg.only_dd) => AllClose
        /\ pc \in {"measure", "ended"} /\ Planned
           /\ (pscfg.mode = "DD" => pscfg.only_dd) => AllClose

LEMMA NearInit == CaptureInit => NearInv
  BY DEF CaptureInit, NearInv

LEMMA NearStep ==
    /\ Inv /\ CalmInv /\ Pasted /\ FilledInv /\ NearInv
    /\ [CaptureNext]_capVars
    => NearInv'
<1> SUFFICES ASSUME Inv, CalmInv, Pasted, FilledInv, NearInv,
                    [CaptureNext]_capVars
             PROVE  NearInv'
  OBVIOUS
<1>1. PlanInv /\ CaptureInv /\ calm \in BOOLEAN /\ (calm => Calm)
  BY DEF Inv, CalmInv
<1>2. ASSUME calm' => /\ pc' \notin {"read", "measure", "ended"} \/ ~Planned'
                      /\ pc' # "read"
      PROVE  NearInv'
  BY <1>2 DEF NearInv
<1>3. ASSUME pscfg' = pscfg, cap' = cap
      PROVE  /\ AllClose' <=> AllClose
             /\ Within' <=> Within
             /\ Planned' <=> Planned
  BY <1>3 DEF AllClose, Close, Bins, Within, Reach, Limit, Lag, Prop, Planned
<1>4. ASSUME NEW q \in Requests, Measure(q) PROVE NearInv'
  <2>1. /\ pc' \in {"load", "crashed", "ended"}
        /\ pc' = "ended" => pscfg'.status # "ok"
    BY <1>4 DEF Measure
  <2> QED BY <1>2, <2>1 DEF Planned
<1>5. CASE IdentityLost \/ LoadCommand
  <2>1. pc' \in {"load", "crashed"}
    BY <1>5 DEF IdentityLost, LoadCommand
  <2> QED BY <1>2, <2>1
<1>6. CASE StartCapture
  <2>1. /\ pc = "load" /\ pc' = "read" /\ pscfg' = pscfg
        /\ cap' = [NoCapture EXCEPT !.buf =
                      [i \in 0 .. pscfg.buflen |-> Poison]]
    BY <1>6 DEF StartCapture
  <2>2. /\ cap'.count = 0 /\ cap'.offset = 0
        /\ cap'.buf = [i \in 0 .. pscfg.buflen |-> Poison]
    BY <2>1 DEF NoCapture
  <2>3. PlanTyped(pscfg)
    BY <1>1, <2>1, PlanIsTyped DEF CaptureInv
  <2>4. /\ pscfg.buflen \in Nat /\ pscfg.rbw \in Nat \ {0}
        /\ pscfg.entry.fstep \in Nat \ {0} /\ Lag \in Nat
    <3>1. Planned
      BY <1>1, <2>1 DEF CaptureInv
    <3> QED BY <1>1, <2>3, <3>1, TableFacts, LagTyped DEF PlanTyped
  <2>5. AllClose'
    <3>1. \A i \in Bins' : i \in 0 .. pscfg.buflen
      BY <2>1, <2>4 DEF Bins
    <3>2. \A i \in Bins' : cap'.buf[i] = Poison
      BY <2>2, <3>1
    <3> QED BY <3>2 DEF AllClose, Poison
  <2>6. Within'
    <3>1. Reach(cap.count)' = 0 /\ Limit(cap.count)' = 0
      <4>1. 0 * (pscfg.entry.fstep + 1) = 0 /\ 0 * (pscfg.entry.fstep + Lag) = 0
        BY <2>4, Z3
      <4>2. Reach(cap.count)' = Reach(0) /\ Limit(cap.count)' = Limit(0)
        BY <2>1, <2>2 DEF Reach, Limit, Lag, Prop
      <4>3. Reach(0) = 0 /\ Limit(0) = 0
        BY <4>1 DEF Reach, Limit
      <4> QED BY <4>2, <4>3
    <3>2. cap'.offset * pscfg'.rbw = 0
      <4>1. 0 * pscfg.rbw = 0
        BY <2>4, Z3
      <4> QED BY <2>1, <2>2, <4>1
    <3> QED BY <3>1, <3>2 DEF Within
  <2> QED BY <2>1, <2>5, <2>6 DEF NearInv
<1>7. CASE ReadPacket
  <2>1. /\ pc = "read" /\ socket # <<>>
        /\ pscfg' = pscfg /\ calm' = calm
        /\ cap' = Paste(Prop, Head(socket))
        /\ \/ LastPacket /\ pc' = "measure"
           \/ ~LastPacket /\ pc' = "read"
    BY <1>7 DEF ReadPacket
  <2>2. SUFFICES ASSUME calm PROVE NearInv'
    BY <2>1 DEF NearInv
  <2>3. /\ Calm /\ Planned /\ OnItsWay /\ InOrder
        /\ ~pscfg.only_dd => Within
        /\ cap.count \in 0 .. pscfg.packet_total - 1
    BY <1>1, <2>1, <2>2 DEF CaptureInv, Calm, FilledInv, NearInv
  <2>4. /\ pscfg.packet_total \in Nat /\ cap.count \in Nat
        /\ cap.count < pscfg.packet_total
    BY <1>1, <2>3, SomePacket
  <2>5. Len(socket) \in Nat /\ Head(socket) = socket[1] /\ Len(socket) # 0
    BY <2>1, <2>3, Shifted, QueueLengths DEF OnItsWay
  <2>6. NthPacket(Head(socket), cap.count + 1, sweeps)
    <3>1. 1 \in 1 .. Len(socket)
      BY <2>5
    <3> QED BY <2>3, <2>5, <3>1 DEF InOrder
  <2>7. cap.offset \in Nat
    <3>1. cap.offset \in 0 .. Word - 1 /\ Word \in Nat
      BY <2>1, CaptureAssumption DEF Pasted
    <3> QED BY <3>1
  <2>8. ASSUME pscfg.mode = "DD" => pscfg.only_dd PROVE AllClose'
    <3>1. AllClose
      BY <2>1, <2>2, <2>8 DEF NearInv
    <3>2. CASE ~pscfg.only_dd
      BY <1>1, <2>1, <2>3, <2>4, <2>6, <2>7, <2>8, <3>1, <3>2, NearOnce
    <3>3. CASE pscfg.only_dd
      <4>1. PlanTyped(pscfg)
        BY <1>1, <2>3, PlanIsTyped
      <4>2. pscfg.packet_total = 1 /\ pscfg.buflen \in Nat
        BY <3>3, <4>1, TableFacts DEF PlanTyped
      <4>3. cap.count = 0
        BY <2>4, <4>2
      <4>4. cap.offset = 0
        BY <2>1, <4>3 DEF Pasted
      <4>5. Within
        <5>1. /\ pscfg.rbw \in Nat \ {0} /\ pscfg.entry.fstep \in Nat \ {0}
              /\ Lag \in Nat
          BY <1>1, <2>3, <4>1, LagTyped DEF PlanTyped
        <5>2. /\ 0 * pscfg.rbw = 0 /\ 0 * (pscfg.entry.fstep + 1) = 0
              /\ 0 * (pscfg.entry.fstep + Lag) = 0
          BY <5>1, Z3
        <5>3. Reach(0) = 0 /\ Limit(0) = 0
          BY <5>2 DEF Reach, Limit
        <5> QED BY <4>3, <4>4, <5>2, <5>3 DEF Within
      <4> QED BY <1>1, <2>1, <2>3, <2>4, <2>6, <2>7, <2>8, <3>1, <4>5, NearOnce
    <3> QED BY <3>2, <3>3
  <2>9. ASSUME ~LastPacket, ~pscfg.only_dd PROVE Within'
    <3>1. cap.count + 1 < pscfg.packet_total
      BY <2>4, <2>9 DEF LastPacket
    <3> QED BY <1>1, <2>1, <2>3, <2>4, <2>6, <2>9, <3>1, WithinOnce
  <2> QED BY <2>1, <2>8, <2>9 DEF NearInv
<1>8. CASE ReadTimeout \/ AbortCapture
  <2>1. /\ pc' = "abort" \/ pc = "abort"
        /\ calm' = calm \/ calm' = FALSE
    BY <1>8 DEF ReadTimeout, AbortCapture
  <2>2. CASE pc' = "abort"
    BY <1>2, <2>2
  <2>3. CASE pc = "abort"
    <3>1. ~calm
      BY <1>1, <2>3 DEF Calm
    <3> QED BY <1>1, <2>1, <3>1 DEF NearInv
  <2> QED BY <2>1, <2>2, <2>3
<1>9. CASE ReadError
  BY <1>9 DEF ReadError, NearInv
<1>10. CASE peak_find \/ calculate_channel_power
  <2>1. /\ pc = "measure" /\ pc' \in {"crashed", "ended"}
        /\ pscfg' = pscfg /\ cap' = cap /\ calm' = calm
    BY <1>10 DEF peak_find, calculate_channel_power
  <2> QED BY <1>3, <2>1 DEF NearInv
<1>11. CASE Return
  <2>1. pc' = "idle"
    BY <1>11 DEF Return
  <2> QED BY <1>2, <2>1
<1>12. CASE DeviceSends
  <2>1. pscfg' = pscfg /\ pc' = pc /\ cap' = cap /\ calm' = calm
    BY <1>12 DEF DeviceSends
  <2> QED BY <1>3, <2>1 DEF NearInv
<1>13. CASE UNCHANGED capVars
  <2>1. pscfg' = pscfg /\ pc' = pc /\ cap' = cap /\ calm' = calm
    BY <1>13 DEF capVars
  <2> QED BY <1>3, <2>1 DEF NearInv
<1> QED BY <1>4, <1>5, <1>6, <1>7, <1>8, <1>9, <1>10, <1>11, <1>12, <1>13
        DEF CaptureNext, ClientNext

\* With nothing refused, lost or late, every bin of the spectrum is near the
\* frequency it is taken for, whatever the range, the resolution and the errors
\* of the planner's float arithmetic, and however many steps there are.
THEOREM BinsAreNear == CaptureSpec => []BinsNearby
<1>1. CalmInv /\ NearInv => BinsNearby
  BY DEF CalmInv, NearInv, BinsNearby, Measured
<1> QED BY <1>1, InvInit, InvNext, TrafficInit, TrafficStep, PastedInit,
           PastedStep, CalmInit, CalmStep, FilledInit, FilledStep, NearInit,
           NearStep, PTL DEF CaptureSpec

=============================================================================
