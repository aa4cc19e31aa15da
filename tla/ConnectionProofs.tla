-------------------------- MODULE ConnectionProofs --------------------------
(***************************************************************************)
(* Theorems about Connection, for any devices, descriptors and calls: the   *)
(* sockets of an open device are its own unless somebody else's descriptor   *)
(* was closed, and none is lost but by a call that gives up.                *)
(***************************************************************************)
EXTENDS Connection, TLAPS

(***************************************************************************)
(* Types                                                                    *)
(***************************************************************************)

\* What a record of the table is: used where a step writes one.
LEMMA OwnerTypes ==
    ASSUME TypeOK
    PROVE  /\ Free \in [dev : Devices \cup {"none", "other"},
                        sock : Sockets \cup {"none"}, call : 0 .. MaxCalls]
           /\ OtherFile \in [dev : Devices \cup {"none", "other"},
                             sock : Sockets \cup {"none"}, call : 0 .. MaxCalls]
           /\ \A s \in Sockets :
                 Socket(s) \in [dev : Devices \cup {"none", "other"},
                                sock : Sockets \cup {"none"}, call : 0 .. MaxCalls]
  BY ConnectionAssumption DEF TypeOK, Free, OtherFile, Socket, Sockets

\* A socket that is set up is stored in its field, which leaves the
\* structures what they are.
LEMMA StructType ==
    ASSUME TypeOK, NEW s \in Sockets, NEW f \in Fds
    PROVE  [struct EXCEPT ![dev][Field(s)] = f, ![dev].tcpip = @ \/ s = "data"]
              \in [Devices -> [cmd : Fds \cup {0}, data : Fds \cup {0},
                               tcpip : BOOLEAN]]
  <1> DEFINE R == [cmd : Fds \cup {0}, data : Fds \cup {0}, tcpip : BOOLEAN]
  <1>1. struct[dev] \in R
    BY DEF TypeOK
  <1>2. [[struct[dev] EXCEPT ![s] = f] EXCEPT !.tcpip = @ \/ s = "data"] \in R
    BY <1>1 DEF Sockets
  <1> QED
    BY <1>2 DEF TypeOK, Field

LEMMA TypesInit == Init => TypeOK
  <1> SUFFICES ASSUME Init PROVE TypeOK
    OBVIOUS
  <1>1. 0 \in 0 .. MaxCalls
    BY ConnectionAssumption
  <1>2. Free \in [dev : Devices \cup {"none", "other"},
                 sock : Sockets \cup {"none"}, call : 0 .. MaxCalls]
    BY <1>1 DEF Free
  <1>3. table \in [Fds -> [dev : Devices \cup {"none", "other"},
                          sock : Sockets \cup {"none"}, call : 0 .. MaxCalls]]
    BY <1>2 DEF Init
  <1> QED
    BY <1>1, <1>3 DEF Init, TypeOK

LEMMA TypesStep == TypeOK /\ [Next]_vars => TypeOK'
  <1> SUFFICES ASSUME TypeOK, [Next]_vars PROVE TypeOK'
    OBVIOUS
  <1> USE ConnectionAssumption
  <1>1. ASSUME NEW d \in Devices, NEW a \in {"open", "ping"}, Connect(a, d)
        PROVE TypeOK'
    <2>1. calls' \in 0 .. MaxCalls
      BY <1>1 DEF Connect, TypeOK
    <2>2. unclosed' \subseteq 0 .. MaxCalls
      <3>1. unclosed' = unclosed \/ unclosed' = unclosed \cup {calls'}
        BY <1>1 DEF Connect, Fails
      <3> QED
        BY <2>1, <3>1 DEF TypeOK
    <2>3. method' \in [Devices -> {"whole", "cut"}]
      BY <1>1 DEF Connect, TypeOK
    <2>4. pc' \in {"idle", "cmd", "data", "identify", "disconnect"}
      BY <1>1 DEF Connect, Fails
    <2> QED
      BY <1>1, <2>1, <2>2, <2>3, <2>4 DEF Connect, TypeOK
  <1>2. ASSUME NEW d \in Devices, wsa_close(d) PROVE TypeOK'
    BY <1>2, OwnerTypes DEF wsa_close, wsa_disconnect, TypeOK
  <1>3. ASSUME NEW d \in Devices, NameAgain(d) PROVE TypeOK'
    BY <1>3 DEF NameAgain, TypeOK
  <1>4. ASSUME NEW s \in Sockets, NEW next \in {"data", "identify"},
               wsa_setup_sock(s, next)
        PROVE TypeOK'
    <2>1. CASE Fails(api, calls) /\ UNCHANGED <<table, struct>>
      BY <1>4, <2>1 DEF wsa_setup_sock, Fails, TypeOK
    <2>2. ASSUME NEW f \in Fds, Takes(f, Socket(s)),
                 struct' = [struct EXCEPT ![dev][Field(s)] = f,
                                          ![dev].tcpip = @ \/ s = "data"],
                 pc' = next, UNCHANGED unclosed
          PROVE TypeOK'
      <3>1. struct' \in [Devices -> [cmd : Fds \cup {0}, data : Fds \cup {0},
                                     tcpip : BOOLEAN]]
        BY <2>2, StructType
      <3>2. table' \in [Fds -> [dev : Devices \cup {"none", "other"},
                                sock : Sockets \cup {"none"}, call : 0 .. MaxCalls]]
        BY <2>2, OwnerTypes DEF Takes, TypeOK
      <3> QED
        BY <1>4, <2>2, <3>1, <3>2 DEF wsa_setup_sock, TypeOK
    <2> QED
      BY <1>4, <2>1, <2>2 DEF wsa_setup_sock
  <1>5. CASE Identify
    BY <1>5 DEF Identify, Fails, TypeOK
  <1>6. CASE PingDisconnects
    BY <1>6, OwnerTypes DEF PingDisconnects, wsa_disconnect, TypeOK
  <1>7. CASE OtherOpens
    BY <1>7, OwnerTypes DEF OtherOpens, Takes, TypeOK
  <1>8. CASE OtherCloses
    BY <1>8, OwnerTypes DEF OtherCloses, TypeOK
  <1>9. CASE UNCHANGED vars
    BY <1>9 DEF vars, TypeOK
  <1> QED
    BY <1>1, <1>2, <1>3, <1>4, <1>5, <1>6, <1>7, <1>8, <1>9
       DEF Next, wsa_open, wsa_ping, Sockets

-----------------------------------------------------------------------------
(***************************************************************************)
(* The invariant                                                            *)
(***************************************************************************)
Strengthening == CallUnderWay /\ StructuresKnow /\ OpenIsOwn /\ SocketsAccounted

LEMMA InvInit == Init => Strengthening
  BY ConnectionAssumption
     DEF Init, Strengthening, CallUnderWay, StructuresKnow, OpenIsOwn,
         SocketsAccounted, Free

\* A call begins with a number no socket has.
LEMMA ConnectKeeps ==
    ASSUME TypeOK, Strengthening, NEW d \in Devices,
           NEW a \in {"open", "ping"}, Connect(a, d)
    PROVE  Strengthening'
  <1>1. /\ UNCHANGED <<table, struct, session, astray>>
        /\ calls' = calls + 1 /\ calls \in Nat /\ dev' = d /\ pc = "idle"
        /\ session[d] = 0 /\ pc' \in {"idle", "cmd", "disconnect"}
        /\ unclosed \subseteq unclosed'
    BY DEF Connect, Fails, TypeOK
  <1>2. CallUnderWay'
    BY <1>1 DEF Strengthening, CallUnderWay, TypeOK
  <1>3. \A f \in Fds : table[f].dev \in Devices => table[f].call # calls'
    BY <1>1 DEF Strengthening, StructuresKnow, TypeOK
  <1>4. StructuresKnow'
    BY <1>1, <1>3 DEF Strengthening, StructuresKnow, InProgress, TypeOK
  <1>5. OpenIsOwn'
    BY <1>1 DEF Strengthening, OpenIsOwn, Holds
  <1>6. SocketsAccounted'
    BY <1>1 DEF Strengthening, SocketsAccounted
  <1> QED
    BY <1>2, <1>4, <1>5, <1>6 DEF Strengthening

\* A new socket has a number nobody had, and its number goes into its field.
LEMMA SetupFacts ==
    ASSUME TypeOK, NEW s \in Sockets, NEW f \in Fds, Takes(f, Socket(s)),
           struct' = [struct EXCEPT ![dev][Field(s)] = f,
                                    ![dev].tcpip = @ \/ s = "data"]
    PROVE  /\ table[f] = Free /\ table'[f] = Socket(s)
           /\ \A g \in Fds : g # f => table'[g] = table[g]
           /\ struct'[dev][s] = f
           /\ \A t \in Sockets : t # s => struct'[dev][t] = struct[dev][t]
           /\ struct'[dev].tcpip = (struct[dev].tcpip \/ s = "data")
           /\ \A d \in Devices : d # dev => struct'[d] = struct[d]
  <1>1. table[f] = Free /\ table' = [table EXCEPT ![f] = Socket(s)]
    BY DEF Takes, Lowest
  <1>2. struct'[dev] = [[struct[dev] EXCEPT ![s] = f] EXCEPT
                           !.tcpip = @ \/ s = "data"]
    <2>1. dev \in Devices /\ dev \in DOMAIN struct
          /\ struct[dev] \in [cmd : Fds \cup {0}, data : Fds \cup {0},
                              tcpip : BOOLEAN]
      BY DEF TypeOK
    <2>2. CASE s = "cmd"
      BY <2>1, <2>2 DEF Field
    <2>3. CASE s = "data"
      BY <2>1, <2>3 DEF Field
    <2> QED
      BY <2>2, <2>3 DEF Sockets
  <1>3. struct[dev] \in [cmd : Fds \cup {0}, data : Fds \cup {0},
                         tcpip : BOOLEAN]
    BY DEF TypeOK
  <1> QED
    BY <1>1, <1>2, <1>3 DEF TypeOK, Sockets

LEMMA SetupKeeps ==
    ASSUME TypeOK, Strengthening, NEW s \in Sockets,
           NEW next \in {"data", "identify"},
           s = "cmd" <=> next = "data", wsa_setup_sock(s, next)
    PROVE  Strengthening'
  <1>1. pc = s /\ UNCHANGED <<session, dev, calls, astray>>
    BY DEF wsa_setup_sock
  <1>2. CASE Fails(api, calls) /\ UNCHANGED <<table, struct>>
    <2>1. pc' \in {"idle", "disconnect"} /\ unclosed \subseteq unclosed'
          /\ (pc' = "idle" => calls \in unclosed')
      BY <1>2 DEF Fails
    <2>2. CallUnderWay'
      BY <1>1, <1>2, <2>1 DEF Strengthening, CallUnderWay, Sockets
    <2>3. StructuresKnow'
      BY <1>1, <1>2, <2>1 DEF Strengthening, StructuresKnow, InProgress, Sockets
    <2>4. OpenIsOwn'
      BY <1>1, <1>2 DEF Strengthening, OpenIsOwn, Holds
    <2>5. SocketsAccounted'
      BY <1>1, <1>2, <2>1 DEF Strengthening, SocketsAccounted
    <2> QED
      BY <2>2, <2>3, <2>4, <2>5 DEF Strengthening
  <1>3. ASSUME NEW f \in Fds, Takes(f, Socket(s)),
               struct' = [struct EXCEPT ![dev][Field(s)] = f,
                                        ![dev].tcpip = @ \/ s = "data"],
               pc' = next, UNCHANGED unclosed
        PROVE Strengthening'
    <2>1. /\ table[f] = Free /\ table'[f] = Socket(s)
          /\ \A g \in Fds : g # f => table'[g] = table[g]
          /\ struct'[dev][s] = f
          /\ \A t \in Sockets : t # s => struct'[dev][t] = struct[dev][t]
          /\ struct'[dev].tcpip = (struct[dev].tcpip \/ s = "data")
          /\ \A d \in Devices : d # dev => struct'[d] = struct[d]
      BY <1>3, SetupFacts
    <2>2. dev \in Devices /\ session[dev] = 0 /\ calls # 0
      BY <1>1 DEF Strengthening, CallUnderWay, TypeOK, Sockets
    <2>3. Free.dev \notin Devices /\ Socket(s) = [dev |-> dev, sock |-> s, call |-> calls]
      BY ConnectionAssumption DEF Free, Socket
    <2>4. Holds(dev, s, calls)'
      BY <1>1, <2>1, <2>3 DEF Holds
    <2>5. \A d \in Devices, t \in Sockets, c \in Nat :
             Holds(d, t, c) /\ (d # dev \/ t # s) => Holds(d, t, c)'
      BY <2>1, <2>3 DEF Holds
    <2>6. CallUnderWay'
      <3>1. calls \in Nat
        BY DEF TypeOK
      <3>2. next = "identify" => Holds(dev, "cmd", calls)'
        BY <1>1, <2>2, <2>5, <3>1 DEF Strengthening, CallUnderWay, Sockets
      <3>3. \A d \in Devices : session[d] # 0 => struct'[d].tcpip
        BY <2>1, <2>2 DEF Strengthening, CallUnderWay
      <3> QED
        BY <1>1, <1>3, <2>1, <2>2, <2>4, <3>2, <3>3
           DEF Strengthening, CallUnderWay, Sockets
    <2>7. StructuresKnow'
      <3> SUFFICES ASSUME NEW g \in Fds, table'[g].dev \in Devices
                   PROVE  /\ table'[g].sock \in Sockets /\ table'[g].call # 0
                          /\ table'[g].call <= calls
                          /\ table'[g].dev = dev /\ table'[g].call = calls /\ next = "data"
                                => table'[g].sock = "cmd"
                          /\ table'[g].call = session[table'[g].dev]
                                \/ (table'[g].dev = dev /\ table'[g].call = calls)
                             => g = struct'[table'[g].dev][table'[g].sock]
        BY <1>1, <1>3, <2>2 DEF StructuresKnow, InProgress
      <3>1. CASE g = f
        BY <2>1, <2>2, <2>3, <3>1 DEF TypeOK
      <3>2. CASE g # f
        <4>1. table'[g] = table[g]
          BY <2>1, <3>2
        <4>2. /\ table[g].sock \in Sockets /\ table[g].call # 0
              /\ table[g].call <= calls
              /\ InProgress(table[g].dev, table[g].call) =>
                    pc # "cmd" /\ (pc = "data" => table[g].sock = "cmd")
              /\ table[g].call = session[table[g].dev]
                     \/ InProgress(table[g].dev, table[g].call)
                  => g = struct[table[g].dev][table[g].sock]
          BY <4>1 DEF Strengthening, StructuresKnow
        <4>3. CASE table[g].dev # dev
          BY <2>1, <4>1, <4>2, <4>3
        <4>4. CASE table[g].dev = dev /\ table[g].call = calls
          <5>1. s = "data" /\ g = struct[dev][table[g].sock]
            BY <1>1, <4>2, <4>4 DEF InProgress, Sockets
          <5>2. table[g].sock = "cmd"
            BY <1>1, <4>2, <4>4, <5>1 DEF InProgress
          <5> QED
            BY <2>1, <4>1, <4>2, <5>1, <5>2 DEF Sockets
        <4>5. CASE table[g].dev = dev /\ table[g].call # calls
          BY <2>2, <4>1, <4>2, <4>5
        <4> QED
          BY <4>3, <4>4, <4>5
      <3> QED
        BY <3>1, <3>2
    <2>8. OpenIsOwn'
      <3> SUFFICES ASSUME ~astray, NEW d \in Devices, session[d] # 0
                   PROVE  Holds(d, "cmd", session[d])' /\ Holds(d, "data", session[d])'
        BY <1>1 DEF OpenIsOwn
      <3>1. d # dev /\ session[d] \in Nat
        BY <2>2 DEF TypeOK
      <3>2. Holds(d, "cmd", session[d]) /\ Holds(d, "data", session[d])
        BY DEF Strengthening, OpenIsOwn
      <3>3. \A t \in Sockets : Holds(d, t, session[d]) =>
               struct'[d][t] = struct[d][t]
               /\ table'[struct[d][t]] = table[struct[d][t]]
        BY <2>1, <2>3, <3>1 DEF Holds
      <3>4. Holds(d, "cmd", session[d])'
        BY <1>1, <3>2, <3>3 DEF Holds, Sockets
      <3>5. Holds(d, "data", session[d])'
        BY <1>1, <3>2, <3>3 DEF Holds, Sockets
      <3> QED
        BY <3>4, <3>5
    <2>9. SocketsAccounted'
      <3> SUFFICES ASSUME NEW g \in Fds, table'[g].dev \in Devices
                   PROVE  \/ table'[g].call = session[table'[g].dev]
                          \/ table'[g].call = calls /\ table'[g].dev = dev
                          \/ table'[g].call \in unclosed
        BY <1>1, <1>3 DEF SocketsAccounted
      <3>1. CASE g = f
        BY <2>1, <2>3, <3>1
      <3>2. CASE g # f
        BY <2>1, <3>2 DEF Strengthening, SocketsAccounted
      <3> QED
        BY <3>1, <3>2
    <2> QED
      BY <2>6, <2>7, <2>8, <2>9 DEF Strengthening
  <1> QED
    BY <1>2, <1>3 DEF wsa_setup_sock

\* Disconnecting a device that is not open, or is open no longer, takes
\* nothing from another device, unless astray tells.
LEMMA DisconnectFacts ==
    ASSUME TypeOK, Strengthening, NEW d \in Devices, wsa_disconnect(d),
           UNCHANGED struct
    PROVE  /\ \A f \in Fds : table'[f] = (IF f \in Closes(d) THEN Free ELSE table[f])
           /\ astray => astray'
           /\ ~astray' => \A e \in Devices \ {d}, t \in Sockets, c \in Nat :
                 Holds(e, t, c) => Holds(e, t, c)'
           /\ \A f \in Fds : table'[f].dev \in Devices =>
                 f \notin Closes(d) /\ table'[f] = table[f]
  <1>1. \A f \in Fds : table'[f] = (IF f \in Closes(d) THEN Free ELSE table[f])
    BY DEF wsa_disconnect
  <1>2. Free.dev \notin Devices
    BY ConnectionAssumption DEF Free
  <1>3. \A f \in Fds : table'[f].dev \in Devices =>
                 f \notin Closes(d) /\ table'[f] = table[f]
    BY <1>1, <1>2
  <1>4. ASSUME ~astray', NEW e \in Devices \ {d}, NEW t \in Sockets,
               NEW c \in Nat, Holds(e, t, c)
        PROVE  Holds(e, t, c)'
    <2>1. struct[e][t] \in Fds /\ table[struct[e][t]].dev = e
      BY <1>4 DEF Holds
    <2>2. e # "none"
      BY ConnectionAssumption
    <2>3. struct[e][t] \notin Closes(d)
      BY <1>4, <2>1, <2>2 DEF wsa_disconnect
    <2> QED
      BY <1>1, <1>4, <2>3 DEF Holds
  <1>5. astray => astray'
    BY DEF wsa_disconnect
  <1> QED
    BY <1>1, <1>3, <1>4, <1>5

LEMMA CloseKeeps ==
    ASSUME TypeOK, Strengthening, NEW d \in Devices, wsa_close(d)
    PROVE  Strengthening'
  <1>1. /\ pc = "idle" /\ UNCHANGED <<struct, pc, dev, calls, unclosed>>
        /\ wsa_disconnect(d)
        /\ session'[d] = 0 /\ \A e \in Devices : e # d => session'[e] = session[e]
    BY DEF wsa_close, TypeOK
  <1>2. /\ \A f \in Fds : table'[f].dev \in Devices =>
                 f \notin Closes(d) /\ table'[f] = table[f]
        /\ astray => astray'
        /\ ~astray' => \A e \in Devices \ {d}, t \in Sockets, c \in Nat :
                 Holds(e, t, c) => Holds(e, t, c)'
    BY <1>1, DisconnectFacts
  <1>3. CallUnderWay'
    BY <1>1 DEF Strengthening, CallUnderWay
  <1>4. StructuresKnow'
    BY <1>1, <1>2 DEF Strengthening, StructuresKnow, InProgress
  <1>5. OpenIsOwn'
    <2> SUFFICES ASSUME ~astray', NEW e \in Devices, session'[e] # 0
                 PROVE  (Holds(e, "cmd", session[e]) /\ Holds(e, "data", session[e]))'
      BY DEF OpenIsOwn
    <2>1. e # d /\ session'[e] = session[e] /\ session[e] \in Nat
      BY <1>1 DEF TypeOK
    <2>2. Holds(e, "cmd", session[e]) /\ Holds(e, "data", session[e])
      BY <1>2, <2>1 DEF Strengthening, OpenIsOwn
    <2> QED
      BY <1>1, <1>2, <2>1, <2>2 DEF Sockets, Holds
  <1>6. SocketsAccounted'
    <2> SUFFICES ASSUME NEW f \in Fds, table'[f].dev \in Devices,
                        table[f].call \notin unclosed
                 PROVE  table[f].call = session'[table[f].dev]
      BY <1>1, <1>2 DEF SocketsAccounted
    <2>1. table[f].dev \in Devices /\ f \notin Closes(d)
      BY <1>2
    <2>2. table[f].call = session[table[f].dev]
      BY <1>1, <2>1 DEF Strengthening, SocketsAccounted
    <2>3. f = struct[table[f].dev][table[f].sock] /\ table[f].sock \in Sockets
          /\ session[table[f].dev] # 0
      BY <2>1, <2>2 DEF Strengthening, StructuresKnow
    <2>4. table[f].dev # d
      BY <2>1, <2>3 DEF Strengthening, CallUnderWay, Closes, Sockets
    <2> QED
      BY <1>1, <2>1, <2>2, <2>4
  <1> QED
    BY <1>3, <1>4, <1>5, <1>6 DEF Strengthening

\* A ping that has connected finds both its sockets by its structure; one that
\* has not is among the calls that gave up.
LEMMA PingKeeps ==
    ASSUME TypeOK, Strengthening, PingDisconnects
    PROVE  Strengthening'
  <1>1. /\ pc = "disconnect" /\ pc' = "idle"
        /\ UNCHANGED <<struct, session, dev, calls>>
        /\ wsa_disconnect(dev) /\ dev \in Devices
        /\ unclosed \subseteq unclosed'
        /\ ~struct[dev].tcpip => calls \in unclosed'
    BY DEF PingDisconnects, TypeOK
  <1>2. /\ \A f \in Fds : table'[f].dev \in Devices =>
                 f \notin Closes(dev) /\ table'[f] = table[f]
        /\ astray => astray'
        /\ ~astray' => \A e \in Devices \ {dev}, t \in Sockets, c \in Nat :
                 Holds(e, t, c) => Holds(e, t, c)'
    BY <1>1, DisconnectFacts
  <1>3. session[dev] = 0
    BY <1>1 DEF Strengthening, CallUnderWay
  <1>4. CallUnderWay'
    BY <1>1 DEF Strengthening, CallUnderWay
  <1>5. StructuresKnow'
    BY <1>1, <1>2 DEF Strengthening, StructuresKnow, InProgress
  <1>6. OpenIsOwn'
    <2> SUFFICES ASSUME ~astray', NEW e \in Devices, session[e] # 0
                 PROVE  Holds(e, "cmd", session[e])' /\ Holds(e, "data", session[e])'
      BY <1>1 DEF OpenIsOwn
    <2>1. e # dev /\ session[e] \in Nat
      BY <1>3 DEF TypeOK
    <2>2. Holds(e, "cmd", session[e]) /\ Holds(e, "data", session[e])
      BY <1>2 DEF Strengthening, OpenIsOwn
    <2> QED
      BY <1>1, <1>2, <2>1, <2>2 DEF Sockets, Holds
  <1>7. SocketsAccounted'
    <2> SUFFICES ASSUME NEW f \in Fds, table'[f].dev \in Devices,
                        table[f].call # session[table[f].dev],
                        table[f].call \notin unclosed
                 PROVE  table[f].call \in unclosed'
      BY <1>1, <1>2 DEF SocketsAccounted
    <2>1. table[f].dev \in Devices /\ f \notin Closes(dev)
      BY <1>2
    <2>2. table[f].call = calls /\ table[f].dev = dev
      BY <2>1 DEF Strengthening, SocketsAccounted
    <2>3. f = struct[dev][table[f].sock] /\ table[f].sock \in Sockets
      BY <1>1, <2>1, <2>2 DEF Strengthening, StructuresKnow, InProgress
    <2>4. ~struct[dev].tcpip
      BY <2>1, <2>3 DEF Closes, Sockets
    <2> QED
      BY <1>1, <2>2, <2>4
  <1> QED
    BY <1>4, <1>5, <1>6, <1>7 DEF Strengthening

LEMMA IdentifyKeeps ==
    ASSUME TypeOK, Strengthening, Identify
    PROVE  Strengthening'
  <1>1. /\ pc = "identify" /\ pc' \in {"idle", "disconnect"}
        /\ UNCHANGED <<table, struct, dev, calls, astray>>
        /\ unclosed \subseteq unclosed'
        /\ session[dev] = 0 /\ dev \in Devices /\ calls \in Nat
        /\ \A d \in Devices : d # dev => session'[d] = session[d]
        /\ \/ pc' = "idle" /\ session'[dev] = calls
           \/ pc' = "idle" /\ session'[dev] = 0 /\ calls \in unclosed'
           \/ pc' = "disconnect" /\ session'[dev] = 0
    BY DEF Identify, Fails, TypeOK, Strengthening, CallUnderWay
  <1>2. Holds(dev, "cmd", calls) /\ Holds(dev, "data", calls)
        /\ struct[dev].tcpip /\ calls # 0
    BY <1>1 DEF Strengthening, CallUnderWay
  <1>3. CallUnderWay'
    BY <1>1, <1>2 DEF Strengthening, CallUnderWay
  <1>4. StructuresKnow'
    BY <1>1, <1>2 DEF Strengthening, StructuresKnow, InProgress
  <1>5. OpenIsOwn'
    BY <1>1, <1>2 DEF Strengthening, OpenIsOwn, Holds
  <1>6. SocketsAccounted'
    <2> SUFFICES ASSUME NEW f \in Fds, table[f].dev \in Devices,
                        table[f].call # session'[table[f].dev],
                        table[f].call \notin unclosed'
                 PROVE  table[f].call = calls /\ table[f].dev = dev /\ pc' # "idle"
      BY <1>1 DEF SocketsAccounted
    <2>1. table[f].call # session[table[f].dev]
      BY <1>1 DEF Strengthening, StructuresKnow
    <2>2. table[f].call = calls /\ table[f].dev = dev
      BY <1>1, <2>1 DEF Strengthening, SocketsAccounted
    <2> QED
      BY <1>1, <2>2
  <1> QED
    BY <1>3, <1>4, <1>5, <1>6 DEF Strengthening

\* Other files come and go on numbers that are free, or their own.
LEMMA OthersKeep ==
    ASSUME TypeOK, Strengthening, OtherOpens \/ OtherCloses
    PROVE  Strengthening'
  <1>1. /\ UNCHANGED <<struct, session, pc, dev, calls, unclosed, astray>>
        /\ \A f \in Fds :
              \/ table'[f] = table[f]
              \/ table[f] \in {Free, OtherFile} /\ table'[f] \in {Free, OtherFile}
    <2>1. CASE OtherOpens
      <3>1. PICK f \in Fds : table[f] = Free /\ table' = [table EXCEPT ![f] = OtherFile]
        BY <2>1 DEF OtherOpens, Takes, Lowest
      <3> QED
        BY <2>1, <3>1 DEF OtherOpens, TypeOK
    <2>2. CASE OtherCloses
      <3>1. PICK f \in Fds : table[f] = OtherFile /\ table' = [table EXCEPT ![f] = Free]
        BY <2>2 DEF OtherCloses
      <3> QED
        BY <2>2, <3>1 DEF OtherCloses, TypeOK
    <2> QED
      BY <2>1, <2>2
  <1>2. Free.dev \notin Devices /\ OtherFile.dev \notin Devices
    BY ConnectionAssumption DEF Free, OtherFile
  <1>3. \A f \in Fds : table[f].dev \in Devices \/ table'[f].dev \in Devices
                        => table'[f] = table[f]
    BY <1>1, <1>2
  <1>4. \A d \in Devices, t \in Sockets, c \in Nat : Holds(d, t, c) => Holds(d, t, c)'
    BY <1>1, <1>3 DEF Holds
  <1>5. CallUnderWay'
    BY <1>1, <1>4 DEF Strengthening, CallUnderWay, TypeOK, Sockets
  <1>6. StructuresKnow'
    BY <1>1, <1>3 DEF Strengthening, StructuresKnow, InProgress
  <1>7. OpenIsOwn'
    BY <1>1, <1>4 DEF Strengthening, OpenIsOwn, TypeOK, Sockets
  <1>8. SocketsAccounted'
    BY <1>1, <1>3 DEF Strengthening, SocketsAccounted
  <1> QED
    BY <1>5, <1>6, <1>7, <1>8 DEF Strengthening

LEMMA InvStep == TypeOK /\ Strengthening /\ [Next]_vars => Strengthening'
  <1> SUFFICES ASSUME TypeOK, Strengthening, [Next]_vars PROVE Strengthening'
    OBVIOUS
  <1>1. CASE UNCHANGED vars
    BY <1>1 DEF vars, Strengthening, CallUnderWay, StructuresKnow, OpenIsOwn,
                SocketsAccounted, Holds, InProgress
  <1>2. CASE UNCHANGED <<table, struct, session, pc, dev, calls, unclosed, astray>>
    BY <1>2 DEF Strengthening, CallUnderWay, StructuresKnow, OpenIsOwn,
                SocketsAccounted, Holds, InProgress
  <1>3. ASSUME NEW d \in Devices, NameAgain(d) PROVE Strengthening'
    BY <1>2, <1>3 DEF NameAgain
  <1> QED
    BY <1>1, <1>3, ConnectKeeps, CloseKeeps, SetupKeeps, IdentifyKeeps,
       PingKeeps, OthersKeep
       DEF Next, wsa_open, wsa_ping, Sockets

-----------------------------------------------------------------------------
(***************************************************************************)
(* The theorems                                                             *)
(***************************************************************************)

\* The inductive invariant behind the two next theorems holds of wsa_open,
\* wsa_ping and wsa_close, for any number of devices and descriptors.
THEOREM ConnectionKept == Spec => []ConnectionInv
  <1>1. Init => TypeOK /\ Strengthening
    BY TypesInit, InvInit
  <1>2. TypeOK /\ Strengthening /\ [Next]_vars => (TypeOK /\ Strengthening)'
    BY TypesStep, InvStep
  <1>3. TypeOK /\ Strengthening => ConnectionInv
    BY DEF Strengthening, ConnectionInv
  <1> QED
    BY <1>1, <1>2, <1>3, PTL DEF Spec

\* The numbers in the structure of an open device stand for its own two
\* sockets, as long as no close (wsa_disconnect) has hit somebody else's.
THEOREM OpenDevicesAreTheirOwn == Spec => []OpenIsOwn
  <1>1. ConnectionInv => OpenIsOwn
    BY DEF ConnectionInv
  <1> QED
    BY <1>1, ConnectionKept, PTL

\* No socket that wsa_setup_sock opened is forgotten by wsa_close, nor by a
\* wsa_ping that reached the instrument.
THEOREM NoSocketForgotten == Spec => []SocketsAccounted
  <1>1. ConnectionInv => SocketsAccounted
    BY DEF ConnectionInv
  <1> QED
    BY <1>1, ConnectionKept, PTL

=============================================================================
