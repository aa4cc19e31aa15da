----------------------------- MODULE SweepCapture -----------------------------
(***************************************************************************)
(* The measurement functions of the API (peak_find,                         *)
(* calculate_channel_power, calculate_occupied_bandwidth of wsa_api.c) and   *)
(* what they call in wsa_sweep_device.c: the plan is loaded into the         *)
(* instrument's sweep list one SCPI command after the other, the sweep is    *)
(* started, the packets are read and their usable bins pasted together into  *)
(* one spectrum.                                                            *)
(*                                                                          *)
(* Two actors: the client, and the instrument that sends the packets of the  *)
(* sweep through the data socket while the client works.  A command may be   *)
(* refused or lost, a packet may be late, a read may fail.                   *)
(***************************************************************************)
EXTENDS SweepPlan, Sequences, FiniteSetsExt

CONSTANTS
    MaxTune,          \* descr.max_tune_freq of the instrument's model
    DefaultEntry,     \* the sweep entry template after SWEEP:ENTRY:NEW
    InvertedFrom,     \* centres from here on come with inverted spectrum
    Word,             \* 2^32, brought down to what TLC can count
    MaxFaults,        \* bound: requests lost, packets late, reads failed
    MaxMeasurements,  \* bound: measurements made
    MaxSocket         \* bound: packets waiting in the data socket

ASSUME CaptureAssumption ==
    /\ MaxTune \in Nat /\ InvertedFrom \in Nat /\ Word \in Nat \ {0}
    /\ MaxFaults \in Nat /\ MaxMeasurements \in Nat
    /\ MaxSocket \in Nat \ {0}
    /\ DefaultEntry \in [mode : STRING, fcstart : Nat, fcstop : Nat,
                         fstep : Nat \ {0}, spp : Nat]

\* The entry of the direct digitizer is saved with the template's frequencies,
\* and wsa_plan_sweep counts one packet for it: the template is of one step.
ASSUME TemplateAssumption ==
    /\ DefaultEntry.fcstart <= DefaultEntry.fcstop
    /\ DefaultEntry.fcstop - DefaultEntry.fcstart < DefaultEntry.fstep
    /\ DefaultEntry.spp <= MaxSpp

\* What the table of the code satisfies besides PlanAssumption: the good part
\* of the direct digitizer's packet, four fifths of it, is what lies below the
\* tunable range; the usable band keeps away from the ends of the band; the
\* indexes into the spectrum are no counters that wrap; and half the usable
\* band is wider than what the rounding of the bins can lose.
ASSUME BandAssumption ==
    \A m \in Modes : LET p == Properties[m] IN
        /\ 10 * p.min_tunable = 8 * p.full_bw
        /\ p.usable_right + MaxSpp \div 2 <= p.full_bw
        /\ m # "DD" => p.usable_left >= MaxSpp \div 2
        /\ p.max_tunable \div (p.full_bw \div (MaxSpp \div 2)) + 2 * MaxSpp
              < Word
        /\ \A n \in MinSpp \div 2 .. MaxSpp \div 2, e \in FloatErrors \cup {0} :
              2 * (p.full_bw \div n) + n - e <= p.usable_bw \div 2

VARIABLES
    pc,        \* where the client is: idle, load, read, abort, measure, ended
               \* or crashed
    script,    \* the commands of the load still to be sent
    device,    \* the instrument: template, sweep list, packets still to send
    socket,    \* the packets in the data socket
    cap,       \* the locals of wsa_capture_power_spectrum, and the spectrum
    outcome,   \* what the capture and the measurement returned
    sweeps,    \* how many sweeps were started
    faults,    \* how many faults there were
    calm       \* nothing was refused, lost or late so far

capVars == <<pscfg, asked, pc, script, device, socket, cap, outcome, sweeps,
             faults, calm>>

Poison == [sweep |-> 0, freq |-> 0]
NoOutcome == [captured |-> "none", ret |-> "none", peak |-> "none"]
NoCapture == [count |-> 0, offset |-> 0, buf |-> [i \in {0} |-> Poison],
              over |-> FALSE]

-----------------------------------------------------------------------------
(***************************************************************************)
(* Loading the plan.  The attenuator and the packets per block, which        *)
(* nothing here depends on, are left out.  A save is one command: the query  *)
(* for the list's size before it decides nothing, since identifier 0 is      *)
(* never refused, and if it fails the entry is not saved, like a lost one.   *)
(***************************************************************************)
Set(fields) == [op |-> "set", to |-> fields]

MutNotCleared(c) ==
    <<[op |-> "new"], [op |-> "once"]>>
    \o (IF c.dd_mode
          THEN <<Set([mode |-> "DD"]), Set([spp |-> c.samples_per_packet]),
                 [op |-> "save"]>>
          ELSE <<>>)
    \o <<Set([mode |-> c.mode]),
         Set([fcstart |-> c.entry.fcstart, fcstop |-> c.entry.fcstop]),
         Set([fstep |-> c.entry.fstep]), Set([spp |-> c.samples_per_packet])>>
    \o (IF c.only_dd THEN <<>> ELSE <<[op |-> "save"]>>)
wsa_sweep_plan_load(c) ==
    <<[op |-> "delete all"], [op |-> "new"], [op |-> "once"]>>
    \o (IF c.dd_mode
          THEN <<Set([mode |-> "DD"]), Set([spp |-> c.samples_per_packet]),
                 [op |-> "save"]>>
          ELSE <<>>)
    \o <<Set([mode |-> c.mode]),
         Set([fcstart |-> c.entry.fcstart, fcstop |-> c.entry.fcstop]),
         Set([fstep |-> c.entry.fstep]), Set([spp |-> c.samples_per_packet])>>
    \o (IF c.only_dd THEN <<>> ELSE <<[op |-> "save"]>>)

\* wsa_verify_freq, in the setters of the entry's frequencies, goes by the
\* model and not by the planner's table.  The least frequency of all models
\* is 0, below which no frequency of a plan can be.
FreqRefused(cmd) ==
    /\ cmd.op = "set"
    /\ \E f \in {"fcstart", "fcstop", "fstep"} \cap DOMAIN cmd.to :
          cmd.to[f] > MaxTune

DeviceExecutes(cmd) ==
    CASE cmd.op = "delete all" -> [device EXCEPT !.list = <<>>]
      [] cmd.op = "new" -> [device EXCEPT !.template = DefaultEntry]
      [] cmd.op = "once" -> [device EXCEPT !.once = TRUE]
      [] cmd.op = "save" ->
            [device EXCEPT !.list = Append(@, device.template)]
      [] cmd.op = "set" ->
            [device EXCEPT !.template =
                [f \in DOMAIN @ |-> IF f \in DOMAIN cmd.to THEN cmd.to[f]
                                    ELSE @[f]]]

\* The load begins with *IDN?, which changes nothing if it is answered.  If it
\* is not, _wsa_dev_init looks for the model in strtok_r's NULL.
IdentityLost ==
    /\ pc = "load" /\ script = wsa_sweep_plan_load(pscfg) /\ faults < MaxFaults
    /\ faults' = faults + 1 /\ calm' = FALSE
    /\ pc' = "crashed" /\ script' = <<>>
    /\ UNCHANGED <<pscfg, asked, device, socket, cap, outcome, sweeps>>

\* The next command of the load: whatever it returns is ignored.  While it
\* sweeps the instrument may refuse it.
LoadCommand ==
    /\ pc = "load" /\ script # <<>>
    /\ script' = Tail(script)
    /\ LET cmd == Head(script) IN
       \/ /\ ~FreqRefused(cmd)
          /\ device' = DeviceExecutes(cmd)
          /\ UNCHANGED <<faults, calm>>
       \/ /\ FreqRefused(cmd) \/ device.air # <<>>
          /\ calm' = FALSE
          /\ UNCHANGED <<device, faults>>
       \/ /\ faults < MaxFaults
          /\ faults' = faults + 1 /\ calm' = FALSE
          /\ UNCHANGED device
    /\ UNCHANGED <<pscfg, asked, pc, socket, cap, outcome, sweeps>>

-----------------------------------------------------------------------------
(***************************************************************************)
(* The instrument sweeps: a packet for every step of every entry.  The       *)
(* direct digitizer does not tune.                                          *)
(***************************************************************************)
EntryPackets(e, n) ==
    [k \in 1 .. LastStep(e) + 1 |->
        [dd |-> e.mode = "DD", centre |-> Centre(e, k - 1), spp |-> e.spp,
         inv |-> e.mode # "DD" /\ Centre(e, k - 1) >= InvertedFrom,
         sweep |-> n]]

SweepOf(list, n) ==
    LET upTo[i \in 0 .. Len(list)] ==
            IF i = 0 THEN <<>> ELSE upTo[i - 1] \o EntryPackets(list[i], n)
    IN  upTo[Len(list)]

DeviceSends ==
    /\ device.air # <<>> /\ Len(socket) < MaxSocket
    /\ socket' = Append(socket, Head(device.air))
    /\ device' = [device EXCEPT !.air =
                     IF Len(@) = 1 /\ ~device.once
                       THEN SweepOf(device.list, sweeps) ELSE Tail(@)]
    /\ UNCHANGED <<pscfg, asked, pc, script, cap, outcome, sweeps, faults,
                   calm>>

-----------------------------------------------------------------------------
(***************************************************************************)
(* The capture.  What bin m of a packet's transform stands for; the centre   *)
(* is in the middle of the passband, not of the band.                       *)
(***************************************************************************)
Passband(p) == (p.usable_left + p.usable_right) \div 2

Content(p, pkt, m) ==
    LET f == (m * p.full_bw) \div (pkt.spp \div 2)
    IN  [sweep |-> pkt.sweep,
         freq |-> IF pkt.dd THEN f
                  ELSE IF pkt.inv THEN pkt.centre + Passband(p) - f
                  ELSE pkt.centre - Passband(p) + f]

Wrap(n) == n % Word

\* The first and last bin taken from a packet; the first packet of a plan in
\* DD mode is taken to be the direct digitizer's.
DdPacket == pscfg.dd_mode /\ cap.count < 1

MutInvertedAlike(p, pkt) ==
    [first |-> p.usable_left \div pscfg.rbw,
     last |-> p.usable_right \div pscfg.rbw]
UsableBins(p, pkt) ==
    IF pkt.inv /\ ~DdPacket
      THEN [first |-> (p.full_bw - p.usable_right) \div pscfg.rbw,
            last |-> (p.full_bw - p.usable_left) \div pscfg.rbw]
      ELSE [first |-> p.usable_left \div pscfg.rbw,
            last |-> p.usable_right \div pscfg.rbw]

\* The code computes these in single precision.  That is off by less than a
\* hundredth of a bin, so the model's exact quotients differ, by one bin, only
\* from those that fall so close to a whole number.
DdBins(p, pkt) ==
    LET n == pkt.spp \div 2
    IN  [first |-> (pscfg.fstart * n) \div p.full_bw,
         last |-> IF pscfg.fstop > p.min_tunable THEN (4 * pkt.spp) \div 10
                  ELSE Wrap((pscfg.fstop * n) \div p.full_bw - 1)]

\* Not beyond the end of the buffer.
Clamped(b) ==
    LET len == Wrap(b.last - b.first)
        excess == Wrap(cap.offset + len) - pscfg.buflen
    IN  IF excess >= 0 THEN [b EXCEPT !.last = Wrap(@ - excess)] ELSE b

MutOffsetKept(p, pkt) == 0
OffsetOf(p, pkt) == IF DdPacket THEN 0 ELSE cap.offset

BlockOf(p, pkt) ==
    LET b == IF DdPacket THEN DdBins(p, pkt) ELSE Clamped(UsableBins(p, pkt))
    IN  [offset |-> OffsetOf(p, pkt), first |-> b.first,
         len |-> Wrap(b.last - b.first)]

\* The copy stops after the packet's last bin, and when it is past the
\* buffer's length.
Copied(pkt, block) ==
    Max({0, Min({block.len, pkt.spp \div 2 - block.first + 1,
                 pscfg.buflen - block.offset + 1})})

\* One data packet: its spectrum turned round if it is inverted, and its
\* block copied.  Cell buflen of buf is the first one beyond the buffer.
Paste(p, pkt) ==
    LET block == BlockOf(p, pkt)
        n == Copied(pkt, block)
        reversed == pkt.inv /\ ~DdPacket
        bin(j) == IF reversed THEN pkt.spp \div 2 - 1 - j ELSE j
    IN  [count |-> cap.count + 1,
         offset |-> Wrap(block.offset + block.len),
         buf |-> [i \in 0 .. pscfg.buflen |->
                    IF i >= block.offset /\ i < block.offset + n
                      THEN Content(p, pkt, bin(block.first + i - block.offset))
                      ELSE cap.buf[i]],
         over |-> \/ cap.over
                  \/ block.offset + n > pscfg.buflen
                  \/ pkt.spp > pscfg.samples_per_packet]

\* The buffer is poisoned and the sweep started, whatever comes of that.
StartCapture ==
    /\ pc = "load" /\ script = <<>>
    /\ pc' = "read"
    /\ cap' = [NoCapture EXCEPT !.buf = [i \in 0 .. pscfg.buflen |-> Poison]]
    /\ sweeps' = sweeps + 1
    /\ \/ /\ device.air = <<>> /\ device.list # <<>>
          /\ device' = [device EXCEPT !.air = SweepOf(device.list, sweeps + 1)]
          /\ UNCHANGED <<faults, calm>>
       \/ /\ device.air # <<>> \/ device.list = <<>>
          /\ calm' = FALSE
          /\ UNCHANGED <<device, faults>>
       \/ /\ faults < MaxFaults
          /\ faults' = faults + 1 /\ calm' = FALSE
          /\ UNCHANGED device
    /\ UNCHANGED <<pscfg, asked, script, socket, outcome>>

MutOneMore == cap.count >= pscfg.packet_total
LastPacket == cap.count + 1 >= pscfg.packet_total

ReadPacket ==
    /\ pc = "read" /\ socket # <<>>
    /\ socket' = Tail(socket)
    /\ cap' = Paste(Prop, Head(socket))
    /\ IF LastPacket
         THEN pc' = "measure" /\ outcome' = [outcome EXCEPT !.captured = "ok"]
         ELSE UNCHANGED <<pc, outcome>>
    /\ UNCHANGED <<pscfg, asked, script, device, sweeps, faults, calm>>

\* Three waits in a row without an answer.  With packets on their way that is
\* a fault.
MutNoTimeout == FALSE
TimedOut == socket = <<>> /\ (device.air = <<>> \/ faults < MaxFaults)

ReadTimeout ==
    /\ pc = "read" /\ TimedOut
    /\ pc' = "abort"
    /\ IF device.air # <<>>
         THEN faults' = faults + 1 /\ calm' = FALSE
         ELSE UNCHANGED <<faults, calm>>
    /\ outcome' = [outcome EXCEPT !.captured = "timeout"]
    /\ UNCHANGED <<pscfg, asked, script, device, socket, cap, sweeps>>

\* wsa_read_vrt_packet then aborts the sweep and flushes the instrument; what
\* has left the instrument stays in the socket.
AbortCapture ==
    /\ pc = "abort"
    /\ pc' = "measure"
    /\ \/ device' = [device EXCEPT !.air = <<>>] /\ UNCHANGED <<faults, calm>>
       \/ /\ faults < MaxFaults
          /\ faults' = faults + 1 /\ calm' = FALSE
          /\ UNCHANGED device
    /\ UNCHANGED <<pscfg, asked, script, socket, cap, outcome, sweeps>>

\* Any other error of the read.  After a packet of no known stream the sweep is
\* aborted too; the rest are returned at once.
ReadError ==
    /\ pc = "read" /\ faults < MaxFaults
    /\ faults' = faults + 1 /\ calm' = FALSE
    /\ pc' \in {"abort", "measure"}
    /\ outcome' = [outcome EXCEPT !.captured = "error"]
    /\ UNCHANGED <<pscfg, asked, script, device, socket, cap, sweeps>>

-----------------------------------------------------------------------------
(***************************************************************************)
(* The measurement functions.  A plan that cannot be made leaves pscfg        *)
(* without a value, which is then freed.                                    *)
(***************************************************************************)
OneStepWide(c) == c.entry.fcstop - c.entry.fcstart = c.entry.fstep

Measure(q) ==
    /\ pc = "idle" /\ sweeps < MaxMeasurements
    /\ wsa_power_spectrum_alloc(q)
    /\ IF pscfg'.status = "ok"
         THEN /\ pc' = "load"
              /\ script' = wsa_sweep_plan_load(pscfg')
              /\ calm' = (calm /\ ~OneStepWide(pscfg'))
              /\ UNCHANGED outcome
         ELSE /\ \/ pc' = "crashed" /\ UNCHANGED outcome
                 \/ pc' = "ended" /\ outcome' = [outcome EXCEPT !.ret = "error"]
              /\ UNCHANGED <<script, calm>>
    /\ UNCHANGED <<device, socket, cap, sweeps, faults>>

\* The capture's result is overwritten.  psbuf has no value of its own: the
\* capture only sets it if it happens not to be NULL.
PowerOfPeak ==
    IF \E i \in 0 .. pscfg.buflen - 1 : cap.buf[i] = Poison THEN "poison"
    ELSE "measured"

peak_find ==
    /\ pc = "measure"
    /\ \/ pc' = "crashed" /\ UNCHANGED outcome
       \/ /\ pscfg.buflen > 0
          /\ pc' = "ended"
          /\ outcome' = [outcome EXCEPT !.ret = "ok", !.peak = PowerOfPeak]
    /\ UNCHANGED <<pscfg, asked, script, device, socket, cap, sweeps, faults,
                   calm>>

\* (Also the occupied bandwidth; both go over the bins one by one.)
calculate_channel_power ==
    /\ pc = "measure"
    /\ \/ pscfg.buflen > 0 /\ pc' = "crashed" /\ UNCHANGED outcome
       \/ pc' = "ended" /\ outcome' = [outcome EXCEPT !.ret = "ok"]
    /\ UNCHANGED <<pscfg, asked, script, device, socket, cap, sweeps, faults,
                   calm>>

Return ==
    /\ pc = "ended" /\ pc' = "idle"
    /\ wsa_power_spectrum_free
    /\ cap' = NoCapture /\ outcome' = NoOutcome
    /\ UNCHANGED <<script, device, socket, sweeps, faults, calm>>

CaptureInit ==
    /\ PlanInit
    /\ pc = "idle" /\ script = <<>>
    /\ device = [template |-> DefaultEntry, list |-> <<>>, once |-> FALSE,
                 air |-> <<>>]
    /\ socket = <<>> /\ cap = NoCapture /\ outcome = NoOutcome
    /\ sweeps = 0 /\ faults = 0 /\ calm = TRUE

ClientNext ==
    \/ \E q \in Requests : Measure(q)
    \/ IdentityLost \/ LoadCommand \/ StartCapture
    \/ ReadPacket \/ ReadTimeout \/ AbortCapture \/ ReadError
    \/ peak_find \/ calculate_channel_power
    \/ Return

CaptureNext == ClientNext \/ DeviceSends

CaptureSpec == CaptureInit /\ [][CaptureNext]_capVars

\* Every wait of the client ends, and the instrument keeps sending.
FairCapture ==
    /\ CaptureSpec
    /\ WF_capVars(LoadCommand \/ StartCapture \/ ReadPacket \/ ReadTimeout
                  \/ AbortCapture \/ peak_find \/ calculate_channel_power
                  \/ Return)
    /\ WF_capVars(DeviceSends)

-----------------------------------------------------------------------------
(***************************************************************************)
(* Properties                                                              *)
(***************************************************************************)
Bins == 0 .. pscfg.buflen - 1
Measured == pc = "ended" /\ Planned

\* The variables keep their shapes; a capture is under way, or has just
\* ended, for a plan in hand, and reads no more packets than it needs.
CaptureInv ==
    /\ pc \in {"idle", "load", "read", "abort", "measure", "ended", "crashed"}
    /\ pc \in {"load", "read", "abort", "measure"} => Planned
    /\ pc = "idle" => pscfg = NoCfg /\ cap = NoCapture
    /\ script # <<>> => pc = "load"
    /\ pc = "read" => cap.count \in 0 .. pscfg.packet_total - 1
    /\ pc \in {"read", "abort", "measure"} =>
          DOMAIN cap.buf = 0 .. pscfg.buflen
    /\ outcome \in [captured : {"none", "ok", "timeout", "error"},
                    ret : {"none", "ok", "error"},
                    peak : {"none", "measured", "poison"}]
    /\ sweeps \in 0 .. MaxMeasurements /\ faults \in 0 .. MaxFaults

\* With nothing refused, lost or late, the capture gets all its packets, and
\* they fill the spectrum with this sweep's bins from end to end.  (A sweep of
\* the direct digitizer alone stops short of the end, see PeakIsMeasured.)
WholeSpectrum ==
    Measured /\ calm =>
        /\ outcome.captured = "ok"
        /\ ~pscfg.only_dd =>
              \A i \in Bins : cap.buf[i].sweep = sweeps

\* The bins lie near the frequencies they are taken for, but ever less so: of
\* each block up to two bins more are copied than its step is wide (the step is
\* one shorter than the usable band, and both ends of the copy are rounded), so
\* that a bin may lag behind by two, and by the rounding of the step, for every
\* packet before it.  It runs ahead by what the rounding down of the resolution
\* to whole hertz adds up to in a packet, and by three bins at most.  (The mode
\* of the direct digitizer, which does not tune, is for ranges below the
\* tunable.)
Lag == 2 * pscfg.rbw + Prop.tuning_resolution

Close(freq, i) ==
    LET off == freq - (pscfg.fstart + i * pscfg.rbw)
    IN  /\ off <= 3 * pscfg.rbw + pscfg.samples_per_packet
        /\ off >= - (pscfg.packet_total * Lag)

AllClose == \A i \in Bins : cap.buf[i] # Poison => Close(cap.buf[i].freq, i)

BinsNearby ==
    Measured /\ calm /\ (pscfg.mode = "DD" => pscfg.only_dd) => AllClose

\* With nothing refused, lost or late, a measurement leaves no packet behind
\* for the next one to take for its own, and the instrument at rest.
NothingLeft ==
    calm /\ pc \in {"idle", "ended"} => socket = <<>> /\ device.air = <<>>

\* A packet leaves the bins of the packets before it alone.
NeverOverwrites ==
    [][pc = "read" =>
          \A i \in Bins : cap.buf[i] # Poison => cap'.buf[i] = cap.buf[i]]_capVars

\* A measurement that begins returns, or the process dies of it, whatever
\* packets and commands are lost.
MeasurementReturns == pc = "load" ~> pc \in {"idle", "crashed"}

\* What the comment in wsa_capture_power_spectrum says of the copy.
InsideBuffer == ~cap.over

\* What peak_find promises: a peak within the range, not the poison.
PeakIsMeasured == calm => outcome.peak # "poison"

\* What the measurements promise: 0 on success, or a negative value on error.
FailureReported ==
    outcome.ret = "ok" => outcome.captured = "ok"

\* What the capture promises: the power spectrum of the configuration.
SpectrumIsOwn ==
    Measured /\ outcome.captured = "ok" =>
        \A i \in Bins : cap.buf[i].sweep \in {0, sweeps}

=============================================================================
