------------------------------- MODULE Probe -------------------------------
(***************************************************************************)
(* Finding instruments on the local networks (api/src/wsa_probe.c, unix):    *)
(* wsa_probe_begin sends a broadcast on every interface, each on a socket of *)
(* its own that the handle keeps, wsa_probe_poll reads the answers and       *)
(* wsa_probe_end closes the sockets.                                        *)
(*                                                                          *)
(* A poll reads one datagram from every socket that select found readable,   *)
(* into one buffer that is cleared when the poll begins, and writes each     *)
(* answer over the one before.  took is a history: the datagrams this poll   *)
(* has read.                                                                *)
(***************************************************************************)
EXTENDS Naturals, Sequences

CONSTANTS
    Networks,    \* sequences of interfaces the machine may have
    Instruments, \* what may answer on them
    Old,         \* instruments that answer without an identity
    Handles,     \* handles of the application
    MaxSockets,  \* sockets in a handle
    MaxFd,       \* the descriptors of the process are 1 .. MaxFd
    MaxBegins,   \* calls of wsa_probe_begin (a bound of the model)
    MaxStrange   \* datagrams that answer nothing (a bound of the model)

\* An interface: "inet", "other" (another family, or the loopback), or one that
\* has no address at all, "null"; whether sending on it works, "always",
\* "sometimes" or "never"; and the instruments that hear a broadcast.
Interfaces ==
    [kind : {"inet", "other", "null"}, sends : {"always", "sometimes", "never"},
     hear : SUBSET Instruments]

ASSUME ProbeAssumption ==
    /\ Networks \subseteq Seq(Interfaces)
    /\ MaxSockets \in Nat /\ MaxFd \in Nat /\ MaxBegins \in Nat /\ MaxStrange \in Nat

Fds == 1 .. MaxFd

VARIABLES
    net,      \* the interfaces of this machine
    live,     \* the handles that wsa_probe_begin returned and nobody ended
    sockets,  \* their sockets
    open,     \* descriptors in use
    heard,    \* for each socket, the instruments that have yet to answer
    queue,    \* for each socket, the datagrams that have arrived
    pc,       \* "idle", "begin", "opened", "poll", "crashed"
    handle,   \* the handle of the call in progress
    at,       \* the interface, or the number of the socket, it has come to
    fd,       \* the socket being set up
    ready,    \* the sockets select found readable
    buffer,   \* what readbuffer begins with, and whose identity it holds
    took,     \* the datagrams the poll has read
    report,   \* what the poll has written to the caller's variables
    begins, strange

network == <<heard, queue>>
polling == <<ready, buffer, took, report>>
vars == <<net, live, sockets, open, network, pc, handle, at, fd, polling,
          begins, strange>>

Zeros == [magic |-> "none", who |-> "none"]
NoReport == [found |-> FALSE, address |-> "none", device |-> "none"]

Init ==
    /\ net \in Networks
    /\ live = {} /\ sockets = [h \in Handles |-> <<>>] /\ open = {}
    /\ heard = [f \in Fds |-> {}] /\ queue = [f \in Fds |-> <<>>]
    /\ pc = "idle" /\ handle \in Handles /\ at = 1 /\ fd = 0
    /\ ready = {} /\ buffer = Zeros /\ took = <<>> /\ report = NoReport
    /\ begins = 0 /\ strange = 0

SocketsOf(h) == {sockets[h][i] : i \in DOMAIN sockets[h]}

-----------------------------------------------------------------------------
(***************************************************************************)
(* wsa_probe_begin.  It returns at once when the interfaces cannot be        *)
(* listed.  The loop goes to the next interface only at its end: whatever    *)
(* fails on an interface is tried on the same one again.                    *)
(***************************************************************************)
wsa_probe_begin(h) ==
    /\ pc = "idle" /\ h \notin live /\ begins < MaxBegins
    /\ begins' = begins + 1
    /\ \/ /\ pc' = "begin" /\ handle' = h /\ at' = 1
          /\ live' = live \cup {h}
          /\ sockets' = [sockets EXCEPT ![h] = <<>>]
       \/ UNCHANGED <<pc, handle, at, live, sockets>>
    /\ UNCHANGED <<net, open, network, fd, polling, strange>>

Probing == at <= Len(net) /\ Len(sockets[handle]) < MaxSockets

MutContinues(next) == at' = at
GoesOn(next) == at' = next

\* The address of an interface that has none is looked at all the same.
SkipInterface ==
    /\ pc = "begin" /\ Probing /\ net[at].kind # "inet"
    /\ IF net[at].kind = "null" THEN pc' = "crashed" ELSE pc' = pc
    /\ GoesOn(at + 1)
    /\ UNCHANGED <<net, live, sockets, open, network, handle, fd, polling,
                   begins, strange>>

Lowest(f) == f \in Fds \ open /\ \A g \in Fds \ open : f <= g

OpenSocket ==
    /\ pc = "begin" /\ Probing /\ net[at].kind = "inet"
    /\ pc' = "opened"
    /\ \E f \in Fds : Lowest(f) /\ fd' = f /\ open' = open \cup {f}
    /\ UNCHANGED <<net, live, sockets, network, handle, at, polling, begins,
                   strange>>

\* setsockopt and sendto.
SendBroadcast ==
    /\ pc = "opened" /\ net[at].sends # "never"
    /\ pc' = "begin"
    /\ sockets' = [sockets EXCEPT ![handle] = Append(@, fd)]
    /\ heard' = [heard EXCEPT ![fd] = net[at].hear]
    /\ GoesOn(at + 1)
    /\ UNCHANGED <<net, live, open, queue, handle, fd, polling, begins, strange>>

MutLeftOpen == open
Closed == open \ {fd}
SendFails ==
    /\ pc = "opened" /\ net[at].sends # "always"
    /\ pc' = "begin"
    /\ open' = Closed
    /\ UNCHANGED <<net, live, sockets, network, handle, at, fd, polling, begins,
                   strange>>

BeginOver ==
    /\ pc = "begin" /\ ~Probing
    /\ pc' = "idle"
    /\ UNCHANGED <<net, live, sockets, open, network, handle, at, fd, polling,
                   begins, strange>>

-----------------------------------------------------------------------------
(***************************************************************************)
(* wsa_probe_end.                                                           *)
(***************************************************************************)
wsa_probe_end(h) ==
    /\ pc = "idle" /\ h \in live
    /\ live' = live \ {h}
    /\ open' = open \ SocketsOf(h)
    /\ heard' = [f \in Fds |-> IF f \in SocketsOf(h) THEN {} ELSE heard[f]]
    /\ queue' = [f \in Fds |-> IF f \in SocketsOf(h) THEN <<>> ELSE queue[f]]
    /\ UNCHANGED <<net, sockets, pc, handle, at, fd, polling, begins, strange>>

-----------------------------------------------------------------------------
(***************************************************************************)
(* wsa_probe_poll: select, and then the sockets one after the other.        *)
(***************************************************************************)
Readable(h) == {f \in SocketsOf(h) : queue[f] # <<>>}

wsa_probe_poll(h) ==
    /\ pc = "idle" /\ h \in live
    /\ handle' = h /\ at' = 1
    /\ ready' = Readable(h)
    /\ pc' = IF Readable(h) = {} THEN "idle" ELSE "poll"
    /\ buffer' = Zeros /\ took' = <<>> /\ report' = NoReport
    /\ UNCHANGED <<net, live, sockets, open, network, fd, begins, strange>>

PollOver == at > Len(sockets[handle])

\* What the buffer holds after a datagram.  The answer of an old instrument ends
\* before the identity, and so may other datagrams, or be empty.
Holds(d) ==
    CASE d.kind = "identity" -> [magic |-> "identity", who |-> d.from]
      [] d.kind = "foreign" -> [magic |-> "none", who |-> d.from]
      [] d.kind = "old" -> [buffer EXCEPT !.magic = "WSA4000"]
      [] d.kind = "short" -> [buffer EXCEPT !.magic = "identity"]
      [] d.kind = "empty" -> buffer

Found(d) ==
    LET held == Holds(d)
    IN  [found |-> TRUE, address |-> d.from,
         device |-> IF held.magic = "WSA4000" THEN "WSA4000" ELSE held.who]

MutLastDatagram(d) == IF Holds(d).magic = "none" THEN NoReport ELSE Found(d)
Reported(d) == IF Holds(d).magic = "none" THEN report ELSE Found(d)

ReadSocket ==
    /\ pc = "poll" /\ ~PollOver /\ sockets[handle][at] \in ready
    /\ at' = at + 1
    /\ LET f == sockets[handle][at]
           d == Head(queue[f])
       IN  \/ /\ queue' = [queue EXCEPT ![f] = Tail(@)]
              /\ buffer' = Holds(d) /\ report' = Reported(d)
              /\ took' = Append(took, d)
           \/ UNCHANGED <<queue, buffer, report, took>>
    /\ UNCHANGED <<net, live, sockets, open, heard, pc, handle, fd, ready, begins,
                   strange>>

SkipSocket ==
    /\ pc = "poll" /\ ~PollOver /\ sockets[handle][at] \notin ready
    /\ at' = at + 1
    /\ UNCHANGED <<net, live, sockets, open, network, pc, handle, fd, polling,
                   begins, strange>>

PollReturns ==
    /\ pc = "poll" /\ PollOver
    /\ pc' = "idle"
    /\ UNCHANGED <<net, live, sockets, open, network, handle, at, fd, polling,
                   begins, strange>>

-----------------------------------------------------------------------------
(***************************************************************************)
(* The networks.  An instrument answers a broadcast it heard, or its answer  *)
(* is lost; somebody else may send to the socket.                           *)
(***************************************************************************)
Answer(f, i) ==
    /\ i \in heard[f]
    /\ heard' = [heard EXCEPT ![f] = @ \ {i}]
    /\ \/ queue' = [queue EXCEPT ![f] =
             Append(@, [from |-> i, kind |-> IF i \in Old THEN "old" ELSE "identity"])]
       \/ UNCHANGED queue
    /\ UNCHANGED <<net, live, sockets, open, pc, handle, at, fd, polling, begins,
                   strange>>

Stranger(f, k) ==
    /\ strange < MaxStrange
    /\ \E h \in live : f \in SocketsOf(h)
    /\ strange' = strange + 1
    /\ queue' = [queue EXCEPT ![f] = Append(@, [from |-> "stranger", kind |-> k])]
    /\ UNCHANGED <<net, live, sockets, open, heard, pc, handle, at, fd, polling,
                   begins>>

Begins == SkipInterface \/ OpenSocket \/ SendFails \/ BeginOver
Polls == ReadSocket \/ SkipSocket \/ PollReturns

Next ==
    \/ \E h \in Handles : wsa_probe_begin(h) \/ wsa_probe_end(h) \/ wsa_probe_poll(h)
    \/ Begins \/ SendBroadcast \/ Polls
    \/ \E f \in Fds : (\E i \in heard[f] : Answer(f, i))
                      \/ (\E k \in {"foreign", "short", "empty"} : Stranger(f, k))

Spec == Init /\ [][Next]_vars

\* The process runs, and an interface on which sending works sometimes does not
\* fail for ever.
FairProbe == Spec /\ WF_vars(Begins \/ Polls) /\ SF_vars(SendBroadcast)

-----------------------------------------------------------------------------
(***************************************************************************)
(* Properties                                                              *)
(***************************************************************************)
Kept == UNION {SocketsOf(h) : h \in live}

\* The descriptors in use are the sockets of the handles that were not ended,
\* each in one place of one handle, and the one being set up: whatever fails,
\* none is forgotten and none is shared.
ProbeInv ==
    /\ pc \in {"idle", "begin", "opened", "poll", "crashed"}
    /\ live \subseteq Handles /\ open \subseteq Fds
    /\ open = Kept \cup IF pc = "opened" THEN {fd} ELSE {}
    /\ pc = "opened" => fd \notin Kept
    /\ \A h, g \in live : \A i \in DOMAIN sockets[h], j \in DOMAIN sockets[g] :
          sockets[h][i] = sockets[g][j] => h = g /\ i = j
    /\ \A h \in live : Len(sockets[h]) <= MaxSockets
    /\ \A f \in Fds \ open : queue[f] = <<>> /\ heard[f] = {}

\* A poll finds an instrument if it reads an answer on any socket, whatever it
\* reads on the others, and the address and the identity it hands out are those
\* of one sender, the last to answer; unless it read a datagram that ends too
\* early, for which the contents of another pass.
Answers == {i \in DOMAIN took : took[i].kind \in {"identity", "old"}}
IsReported(d) ==
    /\ report.address = d.from
    /\ report.device = IF d.kind = "old" THEN "WSA4000" ELSE d.from
ReportIsOne ==
    pc = "idle" =>
        /\ Answers # {} => report.found
        /\ (\A i \in DOMAIN took : took[i].kind \notin {"short", "empty"}) =>
              /\ report.found => Answers # {}
              /\ \A i \in Answers : (\A j \in Answers : j <= i) => IsReported(took[i])

\* wsa_probe_begin and wsa_probe_poll return, unless there is an interface on
\* which nothing can ever be sent, or no descriptor is left: the loop stays on
\* that interface.
Hopeless ==
    /\ pc \in {"begin", "opened"} /\ Probing /\ net[at].kind = "inet"
    /\ net[at].sends = "never" \/ (pc = "begin" /\ open = Fds)
ProbesReturn == pc # "idle" ~> pc \in {"idle", "crashed"} \/ Hopeless
=============================================================================
