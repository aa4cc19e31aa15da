# WSA C API: a TLA+ model

This directory holds TLA+ models of the C API for ThinkRF's networked spectrum
analysers (`src/api`), the TLC configurations that check them, and theorems
about them checked by TLAPS.

The library is a single-threaded client. What makes it hard is not threads but
the other party: an instrument at the far end of two TCP connections that
executes commands, captures and sends on its own, while the client matches
answers to queries and packets to captures by nothing but their order. Most of
what is modelled here is that matching, and what is left of it after a timeout.

## The system

| component | code | state | operations | what makes it correct |
|---|---|---|---|---|
| SCPI command channel | `wsa_lib.c` (send_command, send_query, send_command_file, query_error, query_stb, query_esr), `wsa_client.c` | command socket; the request and answers on their way; the instrument's error queue | set, query, command file, the queries of opening | an answer is that of the query just sent; a command reported done was executed, one reported failed was not; every call returns |
| data connection | `wsa_lib.c` (read_vrt_packet_raw), `wsa_client.c` (sock_recv_data), `wsa_api.c` (read_vrt_packet, flush, abort) | data socket; how much of the packet is still missing | read a packet, abort, flush | packets are delivered whole, in order, none left out; a failed read leaves the instrument at rest; a reader out of step recovers |
| sweep planner | `wsa_sweep_device.c` (power_spectrum_alloc, plan_sweep) | the power spectrum configuration | plan, free | the steps cover the range without gaps, are tunable, meet the resolution; the packets announced are those that come |
| sweep capture and measurements | `wsa_sweep_device.c` (plan_load, capture_power_spectrum), `wsa_api.c` (peak_find, channel power, occupied bandwidth) | the plan, the packets read, the spectrum | load the sweep list, start, read packets, paste bins, measure | a spectrum is whole, of this sweep, with every bin near its frequency; a failed capture is reported and leaves nothing behind |
| acquisition control | `wsa_api.c` (stream and sweep start and stop, capture block, capture mode, clean_data_socket) | the instrument's capture mode | start, stop, abort, flush | a stop stops what runs; a flush never meets a sweep |
| connection | `wsa_lib.c` (connect, disconnect, dev_init), `wsa_client.c` (setup_sock, addr_check) | the two descriptors, the model's limits, the interface string | open, ping, close | an open device has its own two sockets; a close closes what the open opened, and nothing else |
| settings, LAN | `wsa_api.c`, limits from `wsa_lib.c` (dev_init) | in the instrument | range check, one command or query, conversion | what a call reports is what the instrument holds; what can be set can be read; a call that fails changes nothing |
| sweep list | `wsa_api.c` | in the instrument: the template and the entries | new, save, read, copy, delete, size, iteration | an identifier is refused only if it is none; an entry is read field by field as it was saved |
| discovery | `wsa_probe.c` | a socket for each interface, per search | begin, poll, end | no socket is forgotten or shared; a poll reports one sender; the loop over the interfaces ends |
| signal processing | `wsa_dsp.c`, kiss_fft | none | FFT, power, peak | numerical |
| conversions, errors, debug | `wsa_commons.c`, `wsa_debug.c` | none | number parsing, tokenising, messages | |

How they interact: the wrappers of `wsa_api.c` call `wsa_send_command` and
`wsa_send_query` on the command socket. `wsa_read_vrt_packet` reads the data
socket and, if that fails, calls the command socket to abort and flush. The
measurement functions plan a sweep, load it through some ten wrappers, start it
and read packets. The only shared state is the instrument.

Which behaviours are hard:

* answers and packets come late, after the call that wanted them has given up;
* packets come in pieces, and a read may end between two of them;
* the instrument goes on capturing while it is being aborted and flushed;
* a command of a sequence fails and the rest is executed all the same;
* the connection goes down between any two steps;
* arithmetic on frequencies: integer division, a float, unsigned wrap-around;
* a call of several exchanges decides on what an earlier one read, while the
  instrument goes on.

PROJECT.json lists each at its line under `hazards`.

## The modules

`ScpiChannel` — the command socket. `pc`, `api` and `stage` stand for where in
the library the client is: a call, the procedure of it that is at work, sending
or receiving. One `wsa_sock_recv` takes any non-empty prefix of the answers that
have arrived. The device executes one request at a time in the order of arrival
and keeps an error queue; SYST:ERR? pops it. Requests carry numbers that the
program does not have; they only say which answer belongs to which query.
`lates` counts the queries abandoned with their answer still to come. A missing
identification, which `_wsa_dev_init` does not survive, ends in `crashed`.

`VrtReader` — the data socket. The stream is counted in pieces: a header is two
of them, a packet three or more. `wsa_sock_recv(n)` takes n pieces of what has
arrived, so that every way of cutting a packet apart is there. A packet is read
in two parts; a packet with a foreign stream identifier or without a UTC
timestamp is refused after the first. A reader in the middle of a packet takes
what it finds for a header: nothing, or one that announces any size of
`LookAlikes`. After a timeout or a foreign packet come `Abort`, `SweepStatus` and
`Flush`, the three exchanges `wsa_read_vrt_packet` makes; each may be lost.

`PacketQueue` — what the data connection promises: packets are taken in order,
until step is lost; it is regained only by giving up all that was sent.
`VrtReader` implements it (property `PacketsInOrder`).

`SweepPlan` — the planner's arithmetic, division by division, as operators named
after the variables of `wsa_plan_sweep`, and two actions: plan and free. The one
computation in single precision is exact but for an error out of `FloatErrors`.

`SweepCapture` — EXTENDS SweepPlan with the client that loads, sweeps, reads and
measures, and the instrument that sends the packets of the sweep list it was
given. A bin of the spectrum is the number of the sweep and the frequency it was
measured at, or the poison. A command may be refused (by `wsa_verify_freq`, or by
an instrument that still sweeps) or lost, a packet late, a read failed, with or
without the abort that wsa_read_vrt_packet makes of some failures; an unanswered
`*IDN?` at the start of the load ends in `crashed`.
`calm` says that nothing of this has happened, and that no plan was exactly one
step wide, where client and instrument disagree on the number of packets.

`Connection` — opening, pinging and closing. `table` is the process's descriptors,
`struct` the two numbers a device structure remembers and never forgets, `method`
the interface string, which `wsa_connect` cuts at its first colon. The operating
system gives a closed number to the next file opened, one of the library's or
another. Sockets carry the number of the call that opened them, which the program
does not know; `unclosed` are the calls that gave up with sockets left, and
`astray` says that a descriptor of somebody else was closed. The application
opens and pings a device only while it is not open, and may close it any time.

`Settings` and `SweepList` — no variables: a row for each getter and setter of
`wsa_api.c`, with the checks of the set function in their order and what the get
function does with each field of the answer (conversion, range, what is written to
the caller and when). `Refusal` and `ReadOut` are the two interpreters of a row;
`wsa_dev_init` has the models' limits, `wsa_sweep_entry_read` the text of an entry.
The library has a function for each pair of row and interpreter, all of one shape;
what differs from function to function is in the row, the oddities included.

`Instrument` — the calls that are made of such exchanges, and the instrument
that holds the settings, the sweep list and the capture mode. `stage` is the
exchange a call has come to: wsa_sweep_entry_copy asks for the size twice, starts
with an identifier ask for the mode first, a flush for the status. An exchange is
`ScpiChannel`'s in three steps (sent, executed, received): answers are told apart by
their order only, several may be received as one text, and a call may give up while
its answer is to come. `told`, `before` and `ret` are histories: what the application
may believe, the state a call began with, what it returned.

`Probe` — discovery on sockets of its own. `wsa_probe_begin` goes through the
interfaces of a machine out of `Networks`, on which sending works always, sometimes
or never; `wsa_probe_poll` reads one datagram of each readable socket into a buffer
that keeps what a shorter one does not overwrite. Several searches share the
process's descriptors. Instruments answer or do not, strangers send what they like.

`MC*` give the constants their values. `*Proofs` hold the theorems.

## The runs

| run | configuration | properties | what it shows |
|---|---|---|---|
| `scpi` | ScpiChannel.cfg | TypeOK, OwnAnswers, StaleAnswersBounded, DoneMeansApplied, FailedMeansRefused, ErrorBacklogBounded, OpenDrainsErrors, ChannelInv, NoLateEffect | answers and verifications are matched to their requests as long as no query was abandoned; every abandoned query puts the client at most one answer behind |
| `scpi_live` | ScpiLive.cfg | CallsReturn, OpenReturns | every call returns; wsa_open's loop over the error queue ends if the device answers |
| `plan` | SweepPlan.cfg | PlanCovers, StepsTunable, PacketsAgree, ResolutionMet, NeverCleanup | the plans for 4,097 requests on both sides of every limit |
| `capture` | SweepCapture.cfg | CaptureInv, WholeSpectrum, BinsNearby, NothingLeft, NeverOverwrites | two measurements in a row, of ten kinds of range at two resolutions: the spectrum is whole, no bin is written twice, and its bins are within the drift of their frequencies |
| `capture_faults` | SweepFaults.cfg | MeasurementReturns | a measurement ends whatever is lost |
| `connection` | Connection.cfg | ConnectionInv, OpenIsOwn, SocketsAccounted | an open device keeps its own two sockets as long as no stale close hits somebody else's; only calls that gave up leave sockets behind |
| `vrt` | VrtReader.cfg | ReaderInv, AbortedIsQuiet, PacketsInOrder, CallsReturn, Recovers | every cut of two packets out of four kinds, with timeouts, one lost command, and a lost connection |
| `instrument` | Instrument.cfg | InstrumentInv, ToldIsTrue, DeliveredIsTrue, ReadsBack, FailedChangesNothing, OutOfBoundsIsTrue, FlushSpares | three calls in a row on every setting, on the sweep list and on captures: the application is told the truth while answers arrive in time, whatever the instrument refuses; a flush never reaches a sweep |
| `probe` | Probe.cfg | ProbeInv, ReportIsOne, ProbesReturn | two searches on machines with up to three interfaces: every socket is accounted for, a poll reports one sender, the loop over the interfaces ends unless one of them is hopeless |
| `capture_peak`, `capture_buffer`, `instrument_mode` | see PROJECT.json | one each | what the code does otherwise than it says (below) |

Bounds, and why they are enough:

* `scpi`: three calls, one abandoned query, two errors. An abandoned query's
  answer meets the next query and the one after; a third call sees the client
  after it has, or has not, caught up. Two errors in the queue distinguish the
  oldest from the newest, and the first call already finds 0 to 2 of them.
  `scpi_live` has one call and three abandoned queries instead: a call makes up
  to five queries, and its drain loop may meet several late answers.
* `plan`: the table is the code's in units of 500 kHz, with the upper limit at
  300 MHz and short packets. Starts and widths lie on both sides of the
  lower limit, of half a band, of a band and of the upper limit; the float
  error is -1, 0 or 1 unit, far more than that of the code.
* `capture`: two measurements, so that the second meets what the first has left;
  three packets in the socket, so that the instrument runs ahead of the client
  and waits for it; units of 25 kHz. The ranges are several steps with inverted
  spectra, one narrow step, the direct digitizer and steps at two resolutions, the
  direct digitizer alone, one that ends just above the lower limit,
  one without width, one too high for the model, one exactly one step wide, one
  backwards. `Word`, the 2^32 at which the code's lengths wrap
  around, is a million: far above any length, as in the code.
* `vrt`: two packets, so that there is a next packet to fall into after the first
  was refused or cut; a header of two pieces and packets of three and four, so
  that either part can be cut; look-alikes of three pieces, which reach beyond a
  packet's end when they start in the middle of it. One lost command is enough
  to lose any one of abort, status and flush.

* `connection`: two devices, since it takes another owner for a number to be
  somebody else's; four descriptors, which two open devices use up, so that an
  open may also find one number or none; three calls, so that a device is opened
  again after a close. The devices are alike, hence the symmetry.

* `instrument`: a session is about one setting by itself, with the candidates on
  both sides of each of its limits, or about a few calls on the list or on captures,
  since settings do not touch each other but through the calls listed together.
  Three calls are one to set, one to disturb it (copy, new, reset, apply) and one to
  read. The list has at most three entries, identifiers go from one below to one
  past it; one exchange may be abandoned. Limits are those of the code: they are
  compared, not counted through.
* `probe`: three interfaces, two sockets in a handle (32 in the code) and three
  descriptors, so that the handle's limit and the process's are both met; two
  searches, so that one ends while the other goes on; one stranger, enough to
  follow or precede an answer.

Deadlock is checked where the system never stops (`plan`, `vrt`, `connection`); in the others
the session ends after the last call, or with the process.

Fairness. In the library every wait is a `select` with a timeout in a loop that
counts its attempts: `WF(Library)` in `ScpiChannel` and `VrtReader`, and in
`SweepCapture` weak fairness of the client's steps within a measurement. Nothing
is assumed of the application, which need not call. Nothing is assumed of the
device but where the property needs it and says so: `OpenReturns` takes
`WF(DeviceExecutes)` as a premise, since the drain loop goes on as long as the
queries fail; `Recovers` takes as premises that the application goes on reading
and that data in the socket arrive in the end; `MeasurementReturns` has an
instrument that goes on sending, without which a continuous sweep would have to
stop for a timeout to be due. In `Probe` the steps of the library are weakly fair,
and `SF(SendBroadcast)` says of the machine, not of the code, that on an interface
where sending works sometimes it does not fail for ever; without it the loop that
tries the same interface again need not end even there.

What TLC found to be otherwise than the code says (each a run that must end in a
violation; quoted under `findings`):

* `capture_peak`: with a range below the tunable limit the last bins keep the
  poison (77), which is higher than any measurement, and peak_find returns it.
* `capture_buffer`: with a range that ends just above the tunable limit, the block
  of the direct digitizer is one bin longer than the spectrum, and the copy, which
  stops only past the end, writes that bin too.
* `instrument_mode`: wsa_get_capture_mode writes nothing to its caller, so that
  wsa_stream_stop refuses to stop a stream that is running.

What `BinsNearby` allows is worth a word. Of each packet up to two bins more are
pasted than the step to the next one is wide: the step is a bin short of the
usable band, and both ends of the copy are rounded. The next packet goes after
them, so that the bins lag behind their frequencies by up to two for every packet
before, a drift of hundreds of bins in a plan of two hundred steps. Bins also run
ahead, since the bin width is rounded down to whole hertz, within a packet by up to
a hertz for each of its bins, and by three bins at most. The property says that it
is no more than that, at every resolution. A plan in the direct digitizer's own mode
is left out unless its range lies below the tunable one: in that mode the instrument
does not tune, so that every step repeats the same spectrum.

Stated in the modules but not run, each violated by what the code does, which TLC
shows in the model:

* `ScpiChannel`: `SetVerified` (a comment in wsa_send_command says what
  DoneMeansApplied only holds of sessions without an abandoned query),
  `FileReturnsLines` (wsa_lib.c:604 promises the number of lines; a file that ends
  with a set command returns that command's bytes), `OpenNeverCrashes`.
* `SweepPlan`: `FcstopIsMultiple` (the comment at wsa_sweep_device.c:697; the float
  quotient is never truncated, so that nothing is forced to a multiple).
* `SweepCapture`: `FailureReported` (the measurement functions return 0 when the
  capture failed), `SpectrumIsOwn` (after a failed capture the next one takes the
  packets left in the socket for its own).
* `VrtReader`: `OffsetOnce` (the reference level offset is subtracted again with
  every packet of samples that shares a digitizer packet).
* `Connection`: `ClosedAutomatically` (wsa_api.c:84 says that an instrument that
  could not be opened is closed; the sockets stay open), `ClosesOnlyItsOwn`
  (wsa_lib.c:466 says the connection is closed if one is started; a second close, or
  a ping that fails, closes the numbers whoever has them by now).
* `Instrument`: `SetMeansSet` (wsa_set_trigger_sync_state prints the pointer it was
  given, wsa_set_lan_dns drops the second address).

## The proofs

The theorems hold for every value of the constants that satisfies the named
assumptions (`ChannelAssumption`, `ReaderAssumption`, `PlanAssumption`,
`CaptureAssumption`, `TemplateAssumption`, `BandAssumption`, `ConnectionAssumption`,
`ProbeAssumption`, `InstrumentAssumption`, `TextsAssumption`, `ParametersAssumption`),
which TLC evaluates in the runs of the module that states each. `TemplateAssumption` says that a sweep entry
freshly made is of one step, `BandAssumption` what the property table satisfies
beyond the planner's needs: where the usable band lies, that the four fifths of the
direct digitizer's packet which the code pastes are what lies below the tunable range
(50 of 62.5 MHz in every row of the table), and that half the usable band is wider
than what rounding a packet's bins can lose (hence packets of 60 samples at least in
the runs, where a bin is a larger share of the band). `TextsAssumption` says that the instrument first holds, and
the application sends, texts of as many fields as the get function of the setting
reads: the number of fields is fixed by the format strings of the code, their
contents are not restricted. `ParametersAssumption` says that what the application
passes to a set function has the C type of the parameter: a number where the get
function reads one, within the limits of an int where it reads an int.

* `ScpiChannelProofs`. `OwnAnswers` and `DoneMeansApplied` are not inductive: that
  the answer received is the query's own follows from there being no other,
  which follows from where requests can be. `AnswersInv` adds it: a query under
  way is the last request, and no answer is on its way with it (`QueryIsLast`);
  one answer at most is on its way, and nothing else (`OneAnswer`); the command
  being verified is queued, executed, or has its error in the queue
  (`CommandAccounted`), so that "No error" can only be read once it has been
  executed. All three are lost with the first abandoned query, hence
  `lates = 0`. Theorems `TypesKept`, `AnswersKept`,
  `AnswersAreOwn`, `DoneIsApplied`.
* `ScpiErrorsProofs`. `StaleAnswersAreBounded` counts: the queries on their way and
  the answers on theirs are together no more than the abandoned queries and the one
  in progress. That a query sent adds one, and that the device's step takes one away
  and puts its answer in its place, is by a bijection between the queries of a
  sequence and those of its tail (`QueriesAppend`, `QueriesTail`). What the device's
  errors mean is the second half of the invariant, `ErrorsInv`: a set command on its
  way is the one being verified (`SetIsVerified`); the queue holds one error more than
  the unverified requests logged only between a refusal and the answer to SYST:ERR?
  (`Backlog`), so that the error read is the command's own (`RefusalAnswered`); and
  wsa_open leaves its drain loop with the queue empty (`Drained`). Theorems
  `ChannelKept` (`ChannelInv`, both halves), `FailedIsRefused`, `BacklogIsBounded`,
  `OpenDrains`, `NoEffectIsLate`.
* `SweepPlanProofs`. The plan's invariant is that it is what `wsa_plan_sweep`
  computes for the request at hand; the rest is arithmetic, in lemmas about
  rounding down, steps and centres. `PlanSeesTheRange`: consecutive steps
  overlap, since a step is shorter than the usable band, and the first and last
  reach the ends of the range, for any resolution that `PlanAssumption` allows.
  Also `PlanStaysTunable`, `PacketTotalAgrees`, `PlanMeetsResolution`,
  `CleanupIsDead`: the clean-up entry is never made as long as the float
  error is below half a usable band.
* `SweepCaptureProofs`. `MeasurementsPlan`: a session of measurements implements
  `PlanSpec`, every step being the planner's or leaving the plan alone; what was
  proved of the planner therefore holds in it (`MeasurementsArePlanned`).
  `CaptureKept`: a capture reads no more packets than its plan announces, and
  none without a plan.

  `BlocksApart` (`NeverOverwrites`) holds whatever is lost, and so for any packets:
  what is in the sweep list and on its way are entries and packets with packet sizes
  the device takes (`Traffic`), and the bins from the offset on are unwritten
  (`Pasted`), since no length wraps around: a block clamped to the rest of the
  buffer is as long as that rest, or shorter.

  `EveryPacketTaken` (`NothingLeft`) follows the load command by command: after k of
  them, template and list are what the first k have made of them (`Held`), whatever
  was there before, so that the sweep started is the plan's (`LoadedPackets`); from
  then on the packets read, in the socket and still to come are together those the
  plan announces (`OnItsWay`).

  `SpectrumIsWhole` (`WholeSpectrum`) adds in which order they come (`InOrder`), and
  how far the first `count` of them reach (`Reach`): the offset, in hertz, is never
  short of it (`Filled`). The step to the next packet is a bin short of the usable
  band, so a block, with both its ends rounded, is as long as a step
  (`UsableReaches`), and four fifths of the direct digitizer's packet reach the
  tunable range (`DdReaches`); the last packet therefore ends at the buffer's end
  (`EndReached`). Statements about every packet of a sweep are inductions over its
  length, made without an induction rule: a shortest sweep for which one fails
  cannot be (`Least`, `UpTo`, `SweepIn`).

  `BinsAreNear` (`BinsNearby`) bounds the offset from both sides (`Within`): it is
  no less than what the packets so far reach and no more than that and two bins for
  each (`Limit`). A bin is as far from the frequency it is taken for as the offset
  was from the place where the usable band of its step begins (`OffsetClose`), and
  by what the packet's own bins are off (`UsableContent`); the packet of the direct
  digitizer begins at the range's start (`DdContent`).
* `VrtReaderProofs`. `DeliversInOrder` is the refinement of `PacketQueue`. It needs
  `ReaderInv`: the packets lie in the stream without gaps (`Contiguous`), and a
  reader in step is at the end of the last packet between calls, and within a
  call as far into the next as what it still needs says (`Position`). From this,
  what is in when nothing is needed any more is exactly one packet.
  `FailedReadsRest`: the sweep is aborted before the flush asks, so that the
  flush is not refused.

* `ConnectionProofs`. That a number in a structure is its own device's socket is
  lost if the socket may be closed under it; `ConnectionInv` says who may. A call
  in progress is on a device that is not open (`CallUnderWay`), so that setting up
  its sockets overwrites no number of an open one; the sockets of an open device
  and of the call in progress are where its structure says (`StructuresKnow`), so
  that closing the two numbers leaves none of them. Theorems `ConnectionKept`,
  `OpenDevicesAreTheirOwn`, `NoSocketForgotten`.

* `ProbeProofs`. `ProbeInv` has the sockets of a handle as sets; the proof says it
  element by element (`Owned`) and adds that a socket nobody owns is silent, the one
  being set up included (`Silent`), without which a broadcast that fails would close
  a socket with answers to come. A poll's sockets stay readable until it comes to
  them, since no two are the same (`StillReadable`, `Distinct`). Theorems
  `SocketsAreKept` and `OneSenderIsReported`, the second by what one more datagram
  does to a report (`OneMore`).

* `InstrumentProofs`. What a call concludes is only worth something if the answer is
  its own, so the invariant is about the exchange: as long as nothing was abandoned
  and the link is up, what is on its way is what the call in progress sent, behind
  block captures that nobody verifies, or the one answer to it, and that answer says
  what the instrument holds (`Exchange`); a refused command has left its error in
  the queue and everything else as it was, until the verification takes it out
  (`Verifying`). Between the status that lets a flush pass and the flush nothing that
  starts a sweep is on its way (`FlushRests`). Theorems `NoFlushReachesASweep`,
  `RefusalsChangeNothing`, `OutOfBoundsMeansIt`, for any sessions, settings, length
  of the list and number of calls.

  `AnswersAndErrorsAccounted` (`InstrumentInv`) holds after abandoned exchanges too:
  the answers owed are counted as in the channel (`Answers`), the errors in the queue
  are those of requests nobody verifies but for the command just being verified
  (`Backlog`), and the process cannot die in wsa_sweep_entry_read of an answer in
  its place, since the text of an entry, put together from eleven settings, has a
  word where strcpy and strstr expect one (`EntryShape`, `EntryIsRead`).

  `BelievedIsHeld` (`ToldIsTrue`) and `DeliveredIsHeld` (`DeliveredIsTrue`) rest on a
  second invariant over the first, `Belief`: between calls what was told is what is
  held, during one it is what was held when the call began; what a command has
  changed is known as soon as its verification found no error (`Confirmed`, `Done`);
  and an answer received is what the instrument holds, or a sweep that has since come
  to its end (`IsReading`). What a get function makes of an answer is proved row by
  row: it returns it as it is, or is one of those that leave their variable alone
  (`SettingIsRead`).

  `SettingsReadBack` (`ReadsBack`) rests on a third one, `Legibility`: whatever the
  application has been told, a set function has let out or a get function has read
  (`Legible`). That the two functions of a setting agree is again row by row
  (`Agrees`, `RowsAgree`): what passes every check of the set function, the get
  function does not refuse. What they disagree on is named in `Unreadable`: the two
  ends of an int, which to_int refuses along with what is beyond them, and a sweep
  attenuation other than 0 and 1, which its set function lets through.

Only model-checked: the liveness properties, since the provers have no fairness.
Every safety property of a run that passes is a theorem.

## What is left out

* SIGPIPE, interrupted system calls and failing malloc; a command that the kernel
  takes in parts.
* Answers that arrive in parts. wsa_send_query takes what one recv call returns for
  the answer, so that the rest of one would be taken for the next answer; answers are
  lines short enough for one segment, and the models (`ScpiChannel`, `Instrument`)
  have them arrive whole.
* The bytes: answers are members of a small set, packets are counted in
  pieces, the samples are not there. The numbers an answer is converted to
  matter in `IsInteger` only.
* A resolution bandwidth of 0, which divides by zero at wsa_sweep_device.c:649.
* In `Connection`: addresses that resolve to several hosts (the loop over them is
  one attempt), the choice of ports, the address check.
* The reference level offset is that of an R5500, the other models have none.
* In `SweepCapture`, the single precision in which the first and last bin of the
  direct digitizer's packet are computed: `DdBins` divides exactly, and differs from
  the code by a bin where the quotient is within a hundredth of a whole number.
* In the load of a plan: the attenuator and the packets per block; the query for the
  list's size that wsa_sweep_entry_save makes first, whose failure is that of the
  command; an answer to `*IDN?` that is another instrument's. Occupied
  bandwidth is modelled with channel power, which treats a failed capture alike.
* In `Instrument`: the attenuation of the WSA5000-418 and -427, which set and get
  different controls; the warning that one conflict of the instrument's is turned
  into, which is one more refusal here; wsa_read_status; what wsa_sweep_stop then
  does to the data socket (wsa_clean_data_socket): whether that loop ends depends on
  how much processor time a wait consumes, which the model would have to assume.
* In `Probe`: how the interfaces are listed, and the memory of that list.
* The fields of a packet and the decoding of samples; wsa_dsp.c, whose floating
  point neither TLC nor the provers compute with; kiss_fft (third-party); the debug
  output, the Windows port, the test program.

## Plan

Done: all the modules above. To come: an abstract command channel (a request is
executed, and its own answer received) that both `ScpiChannel` and the exchanges of
`Instrument` implement while no query is abandoned.
