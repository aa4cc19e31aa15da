---------------------------- MODULE ProbeProofs ----------------------------
(***************************************************************************)
(* Proofs about Probe: the sockets of a search are accounted for whatever    *)
(* fails, and a poll reports one sender, for any machines, instruments and   *)
(* bounds.                                                                  *)
(***************************************************************************)
EXTENDS Probe, TLAPS

Kinds == {"identity", "old", "foreign", "short", "empty"}
Datagrams == [from : Instruments \cup {"stranger"}, kind : Kinds]

Types ==
    /\ net \in Seq(Interfaces)
    /\ live \subseteq Handles /\ handle \in Handles
    /\ sockets \in [Handles -> Seq(Fds)]
    /\ open \subseteq Fds
    /\ heard \in [Fds -> SUBSET Instruments]
    /\ queue \in [Fds -> Seq(Datagrams)]
    /\ pc \in {"idle", "begin", "opened", "poll", "crashed"}
    /\ at \in Nat \ {0}
    /\ took \in Seq(Datagrams)
    /\ pc # "idle" => handle \in live
    /\ pc = "opened" =>
          fd \in Fds /\ at <= Len(net) /\ Len(sockets[handle]) < MaxSockets

\* A poll takes at most one datagram of each socket, so that every socket it has
\* yet to come to and that was found readable still is.
StillReadable ==
    pc = "poll" =>
        \A i \in DOMAIN sockets[handle] :
            i >= at /\ sockets[handle][i] \in ready => queue[sockets[handle][i]] # <<>>

Owned(f) == \E h \in live : \E i \in DOMAIN sockets[h] : f = sockets[h][i]

Distinct ==
    \A h, g \in live : \A i \in DOMAIN sockets[h], j \in DOMAIN sockets[g] :
        sockets[h][i] = sockets[g][j] => h = g /\ i = j

InUse ==
    /\ \A f \in Fds : f \in open <=> Owned(f) \/ (pc = "opened" /\ f = fd)
    /\ pc = "opened" => ~Owned(fd)

Bounded == \A h \in live : Len(sockets[h]) <= MaxSockets

\* Nothing is sent to a descriptor before its broadcast or after its end.
Silent == \A f \in Fds : ~Owned(f) => queue[f] = <<>> /\ heard[f] = {}

\* The socket numbers of live handles, element by element.
LEMMA KeptElements ==
    \A f : f \in Kept <=> Owned(f)
PROOF BY DEF Kept, SocketsOf, Owned

-----------------------------------------------------------------------------
LEMMA TypesStep ==
    ASSUME Types, StillReadable, [Next]_vars
    PROVE  Types'
<1> USE ProbeAssumption DEF Types, Fds
<1>1. ASSUME NEW h \in Handles, wsa_probe_begin(h)
      PROVE  Types'
    <2>1. sockets' \in [Handles -> Seq(Fds)] /\ live' \subseteq Handles
        <3>1. sockets' = [sockets EXCEPT ![h] = <<>>] \/ sockets' = sockets
            BY <1>1 DEF wsa_probe_begin
        <3>2. live' = live \cup {h} \/ live' = live
            BY <1>1 DEF wsa_probe_begin
        <3>3. <<>> \in Seq(Fds)
            OBVIOUS
        <3>4. sockets' \in [Handles -> Seq(Fds)]
            BY <3>1, <3>3
        <3> QED
            BY <3>2, <3>4
    <2>2. handle' \in Handles /\ pc' \in {"idle", "begin"} /\ at' \in Nat \ {0}
        BY <1>1 DEF wsa_probe_begin
    <2>3. pc' # "idle" => handle' \in live'
        <3>1. CASE pc' = "begin" /\ handle' = h /\ live' = live \cup {h}
            BY <3>1
        <3>2. CASE UNCHANGED <<pc, handle, at, live, sockets>>
            BY <1>1, <3>2 DEF wsa_probe_begin
        <3> QED
            BY <1>1, <3>1, <3>2 DEF wsa_probe_begin
    <2> QED
        BY <1>1, <2>1, <2>2, <2>3 DEF wsa_probe_begin, polling, network
<1>2. ASSUME NEW h \in Handles, wsa_probe_end(h)
      PROVE  Types'
    <2>1. heard' \in [Fds -> SUBSET Instruments]
        BY <1>2 DEF wsa_probe_end
    <2>2. queue' \in [Fds -> Seq(Datagrams)]
        BY <1>2 DEF wsa_probe_end
    <2>3. live' \subseteq Handles /\ open' \subseteq Fds
        BY <1>2 DEF wsa_probe_end
    <2> QED
        BY <1>2, <2>1, <2>2, <2>3 DEF wsa_probe_end, polling
<1>3. ASSUME NEW h \in Handles, wsa_probe_poll(h)
      PROVE  Types'
    BY <1>3 DEF wsa_probe_poll, network
<1>4. CASE SkipInterface
    BY <1>4 DEF SkipInterface, GoesOn, polling, network
<1>5. CASE OpenSocket
    BY <1>5 DEF OpenSocket, Probing, polling, network
<1>6. CASE SendFails
    BY <1>6 DEF SendFails, Closed, polling, network
<1>7. CASE BeginOver
    BY <1>7 DEF BeginOver, polling, network
<1>8. CASE SendBroadcast
    <2>1. net[at].hear \in SUBSET Instruments
        <3>1. at \in DOMAIN net
            BY <1>8 DEF SendBroadcast
        <3>2. net[at] \in Interfaces
            BY <3>1
        <3> QED
            BY <3>2 DEF Interfaces
    <2>2. heard' \in [Fds -> SUBSET Instruments]
        BY <1>8, <2>1 DEF SendBroadcast
    <2>3. sockets' \in [Handles -> Seq(Fds)]
        <3>1. Append(sockets[handle], fd) \in Seq(Fds)
            BY <1>8 DEF SendBroadcast
        <3> QED
            BY <1>8, <3>1 DEF SendBroadcast
    <2> QED
        BY <1>8, <2>2, <2>3 DEF SendBroadcast, GoesOn, polling
<1>9. CASE ReadSocket
    <2> DEFINE f == sockets[handle][at]
    <2>1. at \in DOMAIN sockets[handle] /\ f \in Fds
        BY <1>9 DEF ReadSocket, PollOver
    <2>2. queue[f] \in Seq(Datagrams) /\ queue[f] # <<>>
        BY <1>9, <2>1 DEF ReadSocket, StillReadable
    <2>3. Head(queue[f]) \in Datagrams /\ Tail(queue[f]) \in Seq(Datagrams)
        BY <2>2
    <2>4. queue' \in [Fds -> Seq(Datagrams)]
        BY <1>9, <2>1, <2>3 DEF ReadSocket
    <2>5. took' \in Seq(Datagrams)
        <3> DEFINE d == Head(queue[f])
        <3>1. took' = Append(took, d) \/ took' = took
            BY <1>9 DEF ReadSocket
        <3>2. d \in Datagrams
            BY <2>3
        <3> HIDE DEF d
        <3>3. Append(took, d) \in Seq(Datagrams)
            BY <3>2
        <3> QED
            BY <3>1, <3>3
    <2> QED
        BY <1>9, <2>4, <2>5 DEF ReadSocket
<1>10. CASE SkipSocket
    BY <1>10 DEF SkipSocket, polling, network
<1>11. CASE PollReturns
    BY <1>11 DEF PollReturns, polling, network
<1>12. ASSUME NEW f \in Fds, NEW i \in heard[f], Answer(f, i)
       PROVE  Types'
    <2>1. heard' \in [Fds -> SUBSET Instruments]
        BY <1>12 DEF Answer
    <2>2. i \in Instruments
        OBVIOUS
    <2>3. [from |-> i, kind |-> IF i \in Old THEN "old" ELSE "identity"] \in Datagrams
        BY <2>2 DEF Datagrams, Kinds
    <2>4. queue' \in [Fds -> Seq(Datagrams)]
        <3> DEFINE d == [from |-> i, kind |-> IF i \in Old THEN "old" ELSE "identity"]
        <3>1. d \in Datagrams
            BY <2>3
        <3>2. queue' = [queue EXCEPT ![f] = Append(@, d)] \/ queue' = queue
            BY <1>12 DEF Answer
        <3> HIDE DEF d
        <3>3. Append(queue[f], d) \in Seq(Datagrams)
            BY <3>1
        <3> QED
            BY <3>2, <3>3
    <2> QED
        BY <1>12, <2>1, <2>4 DEF Answer, polling
<1>13. ASSUME NEW f \in Fds, NEW k \in {"foreign", "short", "empty"}, Stranger(f, k)
       PROVE  Types'
    <2>1. [from |-> "stranger", kind |-> k] \in Datagrams
        BY DEF Datagrams, Kinds
    <2>2. queue' \in [Fds -> Seq(Datagrams)]
        BY <1>13, <2>1 DEF Stranger
    <2> QED
        BY <1>13, <2>2 DEF Stranger, polling
<1>14. CASE UNCHANGED vars
    BY <1>14 DEF vars, network, polling
<1> QED
    BY <1>1, <1>2, <1>3, <1>4, <1>5, <1>6, <1>7, <1>8, <1>9, <1>10, <1>11, <1>12,
       <1>13, <1>14 DEF Next, Begins, Polls

-----------------------------------------------------------------------------
\* The steps that leave the sockets of the handles alone.
LEMMA SameSockets ==
    ASSUME UNCHANGED <<live, sockets>>
    PROVE  /\ \A f : Owned(f)' <=> Owned(f)
           /\ Distinct => Distinct'
           /\ Bounded => Bounded'
PROOF BY DEF Owned, Distinct, Bounded

LEMMA ReadableStep ==
    ASSUME Types, Types', StillReadable, Distinct, [Next]_vars
    PROVE  StillReadable'
<1> USE DEF StillReadable
<1>1. ASSUME NEW h \in Handles, wsa_probe_begin(h)
      PROVE  StillReadable'
    BY <1>1 DEF wsa_probe_begin
<1>2. ASSUME NEW h \in Handles, wsa_probe_end(h)
      PROVE  StillReadable'
    BY <1>2 DEF wsa_probe_end
<1>3. ASSUME NEW h \in Handles, wsa_probe_poll(h)
      PROVE  StillReadable'
    BY <1>3 DEF wsa_probe_poll, Readable, network
<1>4. CASE SkipInterface \/ OpenSocket \/ SendFails \/ BeginOver \/ SendBroadcast
    BY <1>4 DEF SkipInterface, OpenSocket, SendFails, BeginOver, SendBroadcast
<1>5. CASE ReadSocket
    <2> SUFFICES ASSUME NEW i \in DOMAIN sockets[handle], i >= at + 1,
                        sockets[handle][i] \in ready
                 PROVE  queue'[sockets[handle][i]] # <<>>
        BY <1>5 DEF ReadSocket
    <2>1. at \in DOMAIN sockets[handle] /\ i > at /\ handle \in live
        BY <1>5 DEF ReadSocket, PollOver, Types
    <2>2. sockets[handle][i] # sockets[handle][at]
        <3> i \in DOMAIN sockets[handle] /\ at \in Nat /\ i # at
            BY <2>1 DEF Types
        <3> QED
            BY <2>1 DEF Distinct
    <2>3. sockets[handle][i] \in Fds /\ sockets[handle][at] \in Fds
        BY <2>1 DEF Types
    <2>4. queue'[sockets[handle][i]] = queue[sockets[handle][i]]
        BY <1>5, <2>2, <2>3 DEF ReadSocket, Types
    <2>5. i >= at
        BY <2>1 DEF Types
    <2> QED
        BY <1>5, <2>4, <2>5 DEF ReadSocket
<1>6. CASE SkipSocket
    BY <1>6 DEF SkipSocket, Types, polling, network
<1>7. CASE PollReturns
    BY <1>7 DEF PollReturns
<1>8. ASSUME NEW f \in Fds, NEW i \in heard[f], Answer(f, i)
      PROVE  StillReadable'
    <2> DEFINE d == [from |-> i, kind |-> IF i \in Old THEN "old" ELSE "identity"]
    <2>1. queue' = [queue EXCEPT ![f] = Append(@, d)] \/ queue' = queue
        BY <1>8 DEF Answer
    <2>2. UNCHANGED <<sockets, pc, handle, at, ready>>
        BY <1>8 DEF Answer, polling
    <2> HIDE DEF d
    <2>3. Append(queue[f], d) # <<>>
        <3>1. queue[f] \in Seq(Datagrams)
            BY DEF Types
        <3>2. Len(Append(queue[f], d)) = Len(queue[f]) + 1 /\ Len(queue[f]) \in Nat
            BY <3>1
        <3> QED
            BY <3>2
    <2>4. \A g \in Fds : queue[g] # <<>> => queue'[g] # <<>>
        BY <2>1, <2>3 DEF Types
    <2> QED
        BY <2>2, <2>4 DEF Types
<1>9. ASSUME NEW f \in Fds, NEW k \in {"foreign", "short", "empty"}, Stranger(f, k)
      PROVE  StillReadable'
    <2> DEFINE d == [from |-> "stranger", kind |-> k]
    <2>1. queue' = [queue EXCEPT ![f] = Append(@, d)] \/ queue' = queue
        BY <1>9 DEF Stranger
    <2>2. UNCHANGED <<sockets, pc, handle, at, ready>>
        BY <1>9 DEF Stranger, polling
    <2> HIDE DEF d
    <2>3. Append(queue[f], d) # <<>>
        <3>1. queue[f] \in Seq(Datagrams)
            BY DEF Types
        <3>2. Len(Append(queue[f], d)) = Len(queue[f]) + 1 /\ Len(queue[f]) \in Nat
            BY <3>1
        <3> QED
            BY <3>2
    <2>4. \A g \in Fds : queue[g] # <<>> => queue'[g] # <<>>
        BY <2>1, <2>3 DEF Types
    <2> QED
        BY <2>2, <2>4 DEF Types
<1>10. CASE UNCHANGED vars
    BY <1>10 DEF vars, network, polling
<1> QED
    BY <1>1, <1>2, <1>3, <1>4, <1>5, <1>6, <1>7, <1>8, <1>9, <1>10
       DEF Next, Begins, Polls

-----------------------------------------------------------------------------
Accounts == Distinct /\ InUse /\ Bounded /\ Silent

\* The steps that change neither the sockets nor the descriptors in use.
LEMMA SameAccounts ==
    ASSUME Types, Accounts, UNCHANGED <<live, sockets, open>>,
           (pc = "opened" \/ pc' = "opened") => UNCHANGED <<pc, fd>>,
           \A f \in Fds : ~Owned(f) => UNCHANGED <<queue[f], heard[f]>>
    PROVE  Accounts'
<1>1. Distinct' /\ Bounded' /\ \A f : Owned(f)' <=> Owned(f)
    BY SameSockets DEF Accounts
<1>2. InUse'
    BY <1>1 DEF InUse, Owned, Accounts
<1>3. Silent'
    BY <1>1 DEF Silent, Accounts
<1> QED
    BY <1>1, <1>2, <1>3 DEF Accounts

LEMMA AccountsStep ==
    ASSUME Types, Types', Accounts, StillReadable, [Next]_vars
    PROVE  Accounts'
<1> USE ProbeAssumption
<1>1. ASSUME NEW h \in Handles, wsa_probe_begin(h)
      PROVE  Accounts'
    <2>1. UNCHANGED <<net, open, heard, queue, fd>> /\ pc # "opened" /\ pc' # "opened"
        BY <1>1 DEF wsa_probe_begin, network
    <2>2. CASE UNCHANGED <<pc, handle, at, live, sockets>>
        BY <2>1, <2>2, SameAccounts
    <2>3. CASE live' = live \cup {h} /\ sockets' = [sockets EXCEPT ![h] = <<>>]
        <3>1. h \notin live /\ sockets'[h] = <<>>
            BY <1>1, <2>3 DEF wsa_probe_begin, Types
        <3>2. \A g \in live : sockets'[g] = sockets[g]
            BY <2>3, <3>1 DEF Types
        <3>3. \A f : Owned(f)' <=> Owned(f)
            BY <2>3, <3>1, <3>2 DEF Owned
        <3>4. Distinct'
            BY <2>3, <3>1, <3>2 DEF Distinct, Accounts
        <3>5. Bounded'
            BY <2>3, <3>1, <3>2 DEF Bounded, Accounts
        <3>6. InUse'
            BY <2>1, <3>3 DEF InUse, Accounts
        <3>7. Silent'
            BY <2>1, <3>3 DEF Silent, Accounts
        <3> QED
            BY <3>4, <3>5, <3>6, <3>7 DEF Accounts
    <2> QED
        BY <1>1, <2>2, <2>3 DEF wsa_probe_begin
<1>2. ASSUME NEW h \in Handles, wsa_probe_end(h)
      PROVE  Accounts'
    <2>1. /\ h \in live /\ live' = live \ {h} /\ open' = open \ SocketsOf(h)
          /\ pc # "opened" /\ UNCHANGED <<sockets, pc>>
        BY <1>2 DEF wsa_probe_end
    <2>2. Distinct' /\ Bounded'
        BY <2>1 DEF Distinct, Bounded, Accounts
    <2>3. \A f : f \in SocketsOf(h) <=> \E i \in DOMAIN sockets[h] : f = sockets[h][i]
        BY DEF SocketsOf
    <2>4. \A f \in SocketsOf(h) : ~Owned(f)'
        BY <2>1, <2>3 DEF Distinct, Owned, Accounts
    <2>5. \A f : f \notin SocketsOf(h) => (Owned(f)' <=> Owned(f))
        BY <2>1, <2>3 DEF Owned
    <2>6. InUse'
        BY <2>1, <2>4, <2>5 DEF InUse, Accounts
    <2>7. Silent'
        BY <1>2, <2>5 DEF wsa_probe_end, Silent, Accounts
    <2> QED
        BY <2>2, <2>6, <2>7 DEF Accounts
<1>3. ASSUME NEW h \in Handles, wsa_probe_poll(h)
      PROVE  Accounts'
    BY <1>3, SameAccounts DEF wsa_probe_poll, network
<1>4. CASE SkipInterface
    BY <1>4, SameAccounts DEF SkipInterface, network
<1>5. CASE OpenSocket
    <2> PICK f \in Fds : Lowest(f) /\ fd' = f /\ open' = open \cup {f}
        BY <1>5 DEF OpenSocket
    <2>1. /\ f \notin open /\ fd' = f /\ open' = open \cup {f}
          /\ pc # "opened" /\ pc' = "opened"
          /\ UNCHANGED <<live, sockets, heard, queue>>
        BY <1>5 DEF OpenSocket, network, Lowest
    <2>2. Distinct' /\ Bounded' /\ \A g : Owned(g)' <=> Owned(g)
        BY <2>1, SameSockets DEF Accounts
    <2>3. InUse'
        BY <2>1, <2>2 DEF InUse, Accounts, Types
    <2>4. Silent'
        BY <2>1, <2>2 DEF Silent, Accounts
    <2> QED
        BY <2>2, <2>3, <2>4 DEF Accounts
<1>6. CASE SendFails
    <2>1. /\ pc = "opened" /\ pc' # "opened" /\ open' = open \ {fd}
          /\ UNCHANGED <<live, sockets, heard, queue>>
        BY <1>6 DEF SendFails, Closed, network
    <2>2. Distinct' /\ Bounded' /\ \A g : Owned(g)' <=> Owned(g)
        BY <2>1, SameSockets DEF Accounts
    <2>3. fd \in Fds /\ ~Owned(fd)
        BY <2>1 DEF InUse, Accounts, Types
    <2>4. InUse'
        BY <2>1, <2>2, <2>3 DEF InUse, Accounts
    <2>5. Silent'
        BY <2>1, <2>2 DEF Silent, Accounts
    <2> QED
        BY <2>2, <2>4, <2>5 DEF Accounts
<1>7. CASE BeginOver
    BY <1>7, SameAccounts DEF BeginOver, network
<1>8. CASE SendBroadcast
    <2>1. /\ pc = "opened" /\ pc' # "opened" /\ UNCHANGED <<live, open, queue, handle>>
          /\ handle \in live /\ handle \in Handles /\ fd \in Fds
          /\ sockets' = [sockets EXCEPT ![handle] = Append(@, fd)]
        BY <1>8 DEF SendBroadcast, Types
    <2> DEFINE s == sockets[handle]
               n == Len(sockets[handle]) + 1
    <2>2. /\ s \in Seq(Fds) /\ sockets'[handle] = Append(s, fd)
          /\ \A g \in live : g # handle => sockets'[g] = sockets[g]
        BY <2>1 DEF Types
    <2>3. /\ DOMAIN sockets'[handle] = DOMAIN s \cup {n} /\ n \notin DOMAIN s
          /\ sockets'[handle][n] = fd
          /\ \A i \in DOMAIN s : sockets'[handle][i] = s[i]
        BY <2>2
    <2>4. ~Owned(fd)
        BY <2>1 DEF InUse, Accounts
    <2>5. \A f : Owned(f)' <=> Owned(f) \/ f = fd
        BY <2>1, <2>2, <2>3 DEF Owned
    <2>6. Distinct'
        <3> SUFFICES ASSUME NEW h \in live, NEW g \in live,
                            NEW i \in DOMAIN sockets'[h], NEW j \in DOMAIN sockets'[g],
                            sockets'[h][i] = sockets'[g][j]
                     PROVE  h = g /\ i = j
            BY <2>1 DEF Distinct
        <3>1. CASE h = handle /\ i = n
            <4>1. g = handle /\ j \notin DOMAIN s
                BY <2>2, <2>3, <2>4, <3>1 DEF Owned
            <4> QED
                BY <2>3, <3>1, <4>1
        <3>2. CASE g = handle /\ j = n
            <4>1. h = handle /\ i \notin DOMAIN s
                BY <2>2, <2>3, <2>4, <3>2 DEF Owned
            <4> QED
                BY <2>3, <3>2, <4>1
        <3>3. CASE ~(h = handle /\ i = n) /\ ~(g = handle /\ j = n)
            <4> HIDE DEF n
            <4>1. i \in DOMAIN sockets[h] /\ sockets'[h][i] = sockets[h][i]
                <5>1. CASE h = handle
                    BY <2>3, <3>3, <5>1
                <5>2. CASE h # handle
                    BY <2>2, <5>2
                <5> QED
                    BY <5>1, <5>2
            <4>2. j \in DOMAIN sockets[g] /\ sockets'[g][j] = sockets[g][j]
                <5>1. CASE g = handle
                    BY <2>3, <3>3, <5>1
                <5>2. CASE g # handle
                    BY <2>2, <5>2
                <5> QED
                    BY <5>1, <5>2
            <4>3. sockets[h][i] = sockets[g][j]
                BY <4>1, <4>2
            <4> QED
                BY <4>1, <4>2, <4>3 DEF Distinct, Accounts
        <3> QED
            BY <3>1, <3>2, <3>3
    <2>7. Bounded'
        <3>1. Len(sockets'[handle]) = n /\ n <= MaxSockets
            BY <2>1, <2>2 DEF Types
        <3> QED
            BY <2>1, <2>2, <3>1 DEF Bounded, Accounts
    <2>8. InUse'
        BY <2>1, <2>5 DEF InUse, Accounts
    <2>9. Silent'
        <3>1. \A f \in Fds : f # fd => heard'[f] = heard[f]
            BY <1>8 DEF SendBroadcast, Types
        <3> QED
            BY <2>1, <2>5, <3>1 DEF Silent, Accounts
    <2> QED
        BY <2>6, <2>7, <2>8, <2>9 DEF Accounts
<1>9. CASE ReadSocket
    <2> DEFINE f == sockets[handle][at]
    <2>1. at \in DOMAIN sockets[handle] /\ f \in Fds /\ handle \in live
        BY <1>9 DEF ReadSocket, PollOver, Types
    <2>2. Owned(f)
        BY <2>1 DEF Owned
    <2>3. \A g \in Fds : ~Owned(g) => queue'[g] = queue[g]
        BY <1>9, <2>2 DEF ReadSocket, Types
    <2>4. UNCHANGED <<live, sockets, open, heard, pc, fd>>
        BY <1>9 DEF ReadSocket
    <2> QED
        BY <2>3, <2>4, SameAccounts
<1>10. CASE SkipSocket
    BY <1>10, SameAccounts DEF SkipSocket, network
<1>11. CASE PollReturns
    BY <1>11, SameAccounts DEF PollReturns, network
<1>12. ASSUME NEW f \in Fds, NEW i \in heard[f], Answer(f, i)
       PROVE  Accounts'
    <2>1. Owned(f)
        BY DEF Silent, Accounts
    <2>2. \A g \in Fds : ~Owned(g) => UNCHANGED <<queue[g], heard[g]>>
        BY <1>12, <2>1 DEF Answer, Types
    <2>3. UNCHANGED <<live, sockets, open, pc, fd>>
        BY <1>12 DEF Answer
    <2> QED
        BY <2>2, <2>3, SameAccounts
<1>13. ASSUME NEW f \in Fds, NEW k \in {"foreign", "short", "empty"}, Stranger(f, k)
       PROVE  Accounts'
    <2>1. Owned(f)
        BY <1>13 DEF Stranger, SocketsOf, Owned
    <2>2. \A g \in Fds : ~Owned(g) => UNCHANGED <<queue[g], heard[g]>>
        BY <1>13, <2>1 DEF Stranger, Types
    <2>3. UNCHANGED <<live, sockets, open, pc, fd>>
        BY <1>13 DEF Stranger
    <2> QED
        BY <2>2, <2>3, SameAccounts
<1>14. CASE UNCHANGED vars
    BY <1>14, SameAccounts DEF vars, network
<1> QED
    BY <1>1, <1>2, <1>3, <1>4, <1>5, <1>6, <1>7, <1>8, <1>9, <1>10, <1>11, <1>12,
       <1>13, <1>14 DEF Next, Begins, Polls

-----------------------------------------------------------------------------
Sound == Types /\ StillReadable /\ Accounts

LEMMA SoundAlways == Spec => []Sound
<1>1. Init => Sound
    <2> SUFFICES ASSUME Init
                 PROVE  Sound
        OBVIOUS
    <2>1. Types
        <3>1. sockets \in [Handles -> Seq(Fds)] /\ took \in Seq(Datagrams)
            BY DEF Init
        <3>2. queue \in [Fds -> Seq(Datagrams)] /\ heard \in [Fds -> SUBSET Instruments]
            BY DEF Init
        <3> QED
            BY <3>1, <3>2, ProbeAssumption DEF Init, Types
    <2>2. StillReadable /\ \A f : ~Owned(f)
        BY DEF Init, StillReadable, Owned
    <2>3. Accounts
        BY <2>2 DEF Init, Accounts, Distinct, InUse, Bounded, Silent
    <2> QED
        BY <2>1, <2>2, <2>3 DEF Sound
<1>2. Sound /\ [Next]_vars => Sound'
    BY TypesStep, ReadableStep, AccountsStep DEF Sound, Accounts
<1> QED
    BY <1>1, <1>2, PTL DEF Spec

\* The descriptors in use are those of the searches in progress, each in one
\* place, and the one that wsa_probe_begin is setting up.
THEOREM SocketsAreKept == Spec => []ProbeInv
<1>1. Sound => ProbeInv
    <2> SUFFICES ASSUME Sound
                 PROVE  ProbeInv
        OBVIOUS
    <2> USE DEF Sound, Accounts
    <2>1. \A f : f \in Kept <=> Owned(f)
        BY KeptElements
    <2>2. \A f : Owned(f) => f \in Fds
        BY DEF Owned, Types
    <2>3. open = Kept \cup IF pc = "opened" THEN {fd} ELSE {}
        BY <2>1, <2>2 DEF InUse, Types
    <2>4. pc = "opened" => fd \notin Kept
        BY <2>1 DEF InUse
    <2>5. \A f \in Fds \ open : queue[f] = <<>> /\ heard[f] = {}
        BY DEF InUse, Silent
    <2> QED
        BY <2>3, <2>4, <2>5 DEF ProbeInv, Types, Distinct, Bounded
<1> QED
    BY <1>1, SoundAlways, PTL

-----------------------------------------------------------------------------
Buffers == [magic : {"none", "identity", "WSA4000"},
            who : Instruments \cup {"stranger", "none"}]

Reports ==
    /\ buffer \in Buffers
    /\ Answers # {} => report.found
    /\ (\A i \in DOMAIN took : took[i].kind \notin {"short", "empty"}) =>
          /\ report.found => Answers # {}
          /\ \A i \in Answers : (\A j \in Answers : j <= i) => IsReported(took[i])

\* One more datagram.
LEMMA OneMore ==
    ASSUME Types, Types', Reports, NEW d \in Datagrams,
           buffer' = Holds(d), report' = Reported(d), took' = Append(took, d)
    PROVE  Reports'
<1> DEFINE n == Len(took) + 1
           isAnswer == d.kind \in {"identity", "old"}
<1>1. /\ DOMAIN took' = DOMAIN took \cup {n} /\ took'[n] = d
      /\ \A i \in DOMAIN took : took'[i] = took[i] /\ i < n /\ i \in Nat
      /\ n \in Nat /\ n \notin DOMAIN took
    BY DEF Types
<1> HIDE DEF n
<1>2. Answers' = IF isAnswer THEN Answers \cup {n} ELSE Answers
    BY <1>1 DEF Answers
<1>3. Answers \subseteq DOMAIN took
    BY DEF Answers
<1>4. buffer' \in Buffers
    BY DEF Reports, Buffers, Holds, Datagrams, Kinds
<1>5. CASE d.kind = "identity"
    <2>1. report' = [found |-> TRUE, address |-> d.from, device |-> d.from]
        BY <1>5 DEF Reported, Found, Holds
    <2>2. \A i \in Answers' : (\A j \in Answers' : j <= i) => i = n
        BY <1>1, <1>2, <1>3, <1>5
    <2> QED
        BY <1>1, <1>2, <1>4, <1>5, <2>1, <2>2 DEF Reports, IsReported
<1>6. CASE d.kind = "old"
    <2>1. report' = [found |-> TRUE, address |-> d.from, device |-> "WSA4000"]
        BY <1>6 DEF Reported, Found, Holds, Reports, Buffers
    <2>2. \A i \in Answers' : (\A j \in Answers' : j <= i) => i = n
        BY <1>1, <1>2, <1>3, <1>6
    <2> QED
        BY <1>1, <1>2, <1>4, <1>6, <2>1, <2>2 DEF Reports, IsReported
<1>7. CASE d.kind = "foreign"
    <2>1. report' = report /\ Answers' = Answers
        BY <1>2, <1>7 DEF Reported, Holds
    <2> QED
        BY <1>1, <1>3, <1>4, <2>1 DEF Reports, IsReported
<1>8. CASE d.kind \in {"short", "empty"}
    <2>1. Answers' = Answers /\ (report' = report \/ report'.found)
        BY <1>2, <1>8 DEF Reported, Found
    <2>2. ~\A i \in DOMAIN took' : took'[i].kind \notin {"short", "empty"}
        BY <1>1, <1>8
    <2> QED
        BY <1>4, <2>1, <2>2 DEF Reports
<1> QED
    BY <1>5, <1>6, <1>7, <1>8 DEF Datagrams, Kinds

LEMMA ReportsStep ==
    ASSUME Sound, Types', Reports, [Next]_vars
    PROVE  Reports'
<1>1. CASE UNCHANGED <<buffer, took, report>>
    BY <1>1 DEF Reports, Answers, IsReported
<1>2. ASSUME NEW h \in Handles, wsa_probe_poll(h)
      PROVE  Reports'
    BY <1>2 DEF wsa_probe_poll, Zeros, NoReport, Reports, Answers, Buffers
<1>3. CASE ReadSocket
    <2> DEFINE f == sockets[handle][at]
               d == Head(queue[f])
    <2>1. CASE UNCHANGED <<queue, buffer, report, took>>
        BY <1>1, <2>1
    <2>2. CASE buffer' = Holds(d) /\ report' = Reported(d) /\ took' = Append(took, d)
        <3>1. at \in DOMAIN sockets[handle] /\ f \in Fds
            BY <1>3 DEF ReadSocket, PollOver, Types, Sound
        <3>2. queue[f] \in Seq(Datagrams) /\ queue[f] # <<>>
            BY <1>3, <3>1 DEF ReadSocket, StillReadable, Types, Sound
        <3>3. d \in Datagrams
            BY <3>2
        <3> HIDE DEF d
        <3> QED
            BY <2>2, <3>3, OneMore DEF Sound
    <2> QED
        BY <1>3, <2>1, <2>2 DEF ReadSocket
<1>4. ASSUME NEW h \in Handles, wsa_probe_begin(h) \/ wsa_probe_end(h)
      PROVE  UNCHANGED <<buffer, took, report>>
    BY <1>4 DEF wsa_probe_begin, wsa_probe_end, polling
<1>5. Begins \/ SendBroadcast \/ SkipSocket \/ PollReturns
         => UNCHANGED <<buffer, took, report>>
    BY DEF Begins, SkipInterface, OpenSocket, SendFails, BeginOver, SendBroadcast,
           SkipSocket, PollReturns, polling
<1>6. ASSUME NEW f \in Fds,
             (\E i \in heard[f] : Answer(f, i))
             \/ \E k \in {"foreign", "short", "empty"} : Stranger(f, k)
      PROVE  UNCHANGED <<buffer, took, report>>
    BY <1>6 DEF Answer, Stranger, polling
<1>7. CASE UNCHANGED vars
    BY <1>1, <1>7 DEF vars, polling
<1> QED
    BY <1>1, <1>2, <1>3, <1>4, <1>5, <1>6, <1>7 DEF Next, Polls

\* When wsa_probe_poll has returned, it has found an instrument if it read an
\* answer, and what it hands out is of one sender, unless a datagram ended too
\* early.
THEOREM OneSenderIsReported == Spec => []ReportIsOne
<1>1. Init => Reports
    BY DEF Init, Zeros, NoReport, Reports, Answers, Buffers
<1>2. Sound /\ Sound' /\ Reports /\ [Next]_vars => Reports'
    BY ReportsStep DEF Sound
<1>3. Reports => ReportIsOne
    BY DEF Reports, ReportIsOne
<1> QED
    BY <1>1, <1>2, <1>3, SoundAlways, PTL DEF Spec
=============================================================================
