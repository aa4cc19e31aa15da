----------------------------- MODULE Connection -----------------------------
(***************************************************************************)
(* Opening, closing and pinging instruments: wsa_open, wsa_close, wsa_ping   *)
(* (wsa_api.c), wsa_connect and wsa_disconnect (wsa_lib.c), and              *)
(* wsa_setup_sock and wsa_close_sock (wsa_client.c), for an application with *)
(* several device structures that opens and closes other files besides.      *)
(*                                                                          *)
(* A device structure remembers the numbers of its two sockets and whether   *)
(* it was connected, and forgets neither when it is closed.  The operating   *)
(* system gives a number that is closed to the next file opened, by whoever  *)
(* that is.  The string that names the instrument is cut at its first colon  *)
(* by the first connect that reads it.                                      *)
(***************************************************************************)
EXTENDS Naturals

CONSTANTS
    Devices,    \* the device structures of the application
    MaxFd,      \* the descriptors of the process are 1 .. MaxFd
    MaxCalls    \* calls of wsa_open and wsa_ping (a bound of the model)

ASSUME ConnectionAssumption ==
    /\ MaxFd \in Nat /\ MaxCalls \in Nat
    /\ {"none", "other"} \cap Devices = {}

Fds == 1 .. MaxFd
Sockets == {"cmd", "data"}

VARIABLES
    table,    \* what each descriptor stands for
    struct,   \* the device structures: both numbers, and whether connected
    method,   \* the strings that name the instruments: "whole" or "cut"
    session,  \* the call that opened a device, 0 if the application has none
    pc,       \* "idle", "cmd", "data", "identify", "disconnect"
    api,      \* the call in progress, "open" or "ping"
    dev,      \* its device
    calls,    \* calls made, and the number of the last one
    unclosed, \* calls that gave up without closing what they had opened
    astray    \* a descriptor of somebody else was closed

vars == <<table, struct, method, session, pc, api, dev, calls, unclosed, astray>>

Free == [dev |-> "none", sock |-> "none", call |-> 0]
OtherFile == [dev |-> "other", sock |-> "none", call |-> 0]
Socket(s) == [dev |-> dev, sock |-> s, call |-> calls]

\* (What an unused structure holds is never looked at: 0 stands for it.)
Init ==
    /\ table = [f \in Fds |-> Free]
    /\ struct = [d \in Devices |-> [cmd |-> 0, data |-> 0, tcpip |-> FALSE]]
    /\ method = [d \in Devices |-> "whole"]
    /\ session = [d \in Devices |-> 0]
    /\ pc = "idle" /\ api = "open" /\ dev \in Devices
    /\ calls = 0 /\ unclosed = {} /\ astray = FALSE

-----------------------------------------------------------------------------
(***************************************************************************)
(* The operating system gives out the lowest free number.                   *)
(***************************************************************************)
Lowest(f) == table[f] = Free /\ \A g \in Fds : g < f => table[g] # Free

Takes(f, owner) == Lowest(f) /\ table' = [table EXCEPT ![f] = owner]

OtherOpens ==
    /\ \E f \in Fds : Takes(f, OtherFile)
    /\ UNCHANGED <<struct, method, session, pc, api, dev, calls, unclosed, astray>>

OtherCloses ==
    /\ \E f \in Fds : table[f] = OtherFile /\ table' = [table EXCEPT ![f] = Free]
    /\ UNCHANGED <<struct, method, session, pc, api, dev, calls, unclosed, astray>>

-----------------------------------------------------------------------------
(***************************************************************************)
(* A connect that fails: wsa_open returns, and wsa_ping disconnects, in any  *)
(* case.                                                                    *)
(***************************************************************************)
Fails(a, call) ==
    IF a = "open"
      THEN pc' = "idle" /\ unclosed' = unclosed \cup {call}
      ELSE pc' = "disconnect" /\ UNCHANGED unclosed

\* wsa_connect takes the interface string apart with strtok_r: of a string
\* that was cut only the type is left, and no address.
Connect(a, d) ==
    /\ pc = "idle" /\ session[d] = 0 /\ calls < MaxCalls
    /\ calls' = calls + 1 /\ api' = a /\ dev' = d
    /\ method' = [method EXCEPT ![d] = "cut"]
    /\ IF method[d] = "cut" THEN Fails(a, calls + 1)
       ELSE pc' = "cmd" /\ UNCHANGED unclosed
    /\ UNCHANGED <<table, struct, session, astray>>

wsa_open(d) == Connect("open", d)
wsa_ping(d) == Connect("ping", d)

\* The application writes the string anew.
NameAgain(d) ==
    /\ pc = "idle" /\ method[d] = "cut"
    /\ method' = [method EXCEPT ![d] = "whole"]
    /\ UNCHANGED <<table, struct, session, pc, api, dev, calls, unclosed, astray>>

(***************************************************************************)
(* A socket is set up: it is given a number, connected and stored, or given  *)
(* back if it does not connect.  There may be no number left.               *)
(***************************************************************************)
MutField(s) == "cmd"
Field(s) == s

wsa_setup_sock(s, next) ==
    /\ pc = s
    /\ \/ \E f \in Fds :
             /\ Takes(f, Socket(s))
             /\ struct' = [struct EXCEPT ![dev][Field(s)] = f,
                                         ![dev].tcpip = @ \/ s = "data"]
          /\ pc' = next /\ UNCHANGED unclosed
       \/ Fails(api, calls) /\ UNCHANGED <<table, struct>>
    /\ UNCHANGED <<method, session, api, dev, calls, astray>>

\* _wsa_open: the queries on the new connection (see ScpiChannel).
Identify ==
    /\ pc = "identify"
    /\ \/ IF api = "open"
            THEN /\ pc' = "idle" /\ session' = [session EXCEPT ![dev] = calls]
                 /\ UNCHANGED unclosed
            ELSE pc' = "disconnect" /\ UNCHANGED <<session, unclosed>>
       \/ Fails(api, calls) /\ UNCHANGED session
    /\ UNCHANGED <<table, struct, method, api, dev, calls, astray>>

(***************************************************************************)
(* wsa_disconnect closes the two numbers of a structure that was once        *)
(* connected, whatever they stand for by now.                               *)
(***************************************************************************)
MutCmdOnly(d) == {struct[d].cmd}
Closes(d) == IF struct[d].tcpip THEN {struct[d].cmd, struct[d].data} ELSE {}

wsa_disconnect(d) ==
    /\ table' = [f \in Fds |-> IF f \in Closes(d) THEN Free ELSE table[f]]
    /\ astray' = (astray \/ \E f \in Closes(d) \cap Fds :
                                table[f].dev \notin {d, "none"})

PingDisconnects ==
    /\ pc = "disconnect" /\ pc' = "idle"
    /\ wsa_disconnect(dev)
    /\ unclosed' = IF struct[dev].tcpip THEN unclosed ELSE unclosed \cup {calls}
    /\ UNCHANGED <<struct, method, session, api, dev, calls>>

\* An application may close a device that is not open.
wsa_close(d) ==
    /\ pc = "idle"
    /\ wsa_disconnect(d)
    /\ session' = [session EXCEPT ![d] = 0]
    /\ UNCHANGED <<struct, method, pc, api, dev, calls, unclosed>>

-----------------------------------------------------------------------------
Next ==
    \/ \E d \in Devices :
          wsa_open(d) \/ wsa_ping(d) \/ wsa_close(d) \/ NameAgain(d)
    \/ wsa_setup_sock("cmd", "data") \/ wsa_setup_sock("data", "identify")
    \/ Identify \/ PingDisconnects
    \/ OtherOpens \/ OtherCloses

Spec == Init /\ [][Next]_vars

-----------------------------------------------------------------------------
(***************************************************************************)
(* Properties                                                               *)
(***************************************************************************)
TypeOK ==
    /\ table \in [Fds -> [dev : Devices \cup {"none", "other"},
                          sock : Sockets \cup {"none"}, call : 0 .. MaxCalls]]
    /\ struct \in [Devices -> [cmd : Fds \cup {0}, data : Fds \cup {0},
                               tcpip : BOOLEAN]]
    /\ method \in [Devices -> {"whole", "cut"}]
    /\ session \in [Devices -> 0 .. MaxCalls]
    /\ pc \in {"idle", "cmd", "data", "identify", "disconnect"}
    /\ api \in {"open", "ping"} /\ dev \in Devices
    /\ calls \in 0 .. MaxCalls /\ unclosed \subseteq 0 .. MaxCalls
    /\ astray \in BOOLEAN

Holds(d, s, call) ==
    /\ struct[d][s] \in Fds
    /\ table[struct[d][s]] = [dev |-> d, sock |-> s, call |-> call]

\* As long as no descriptor of somebody else was closed, the numbers in the
\* structure of an open device stand for its own two sockets, both of the call
\* that opened it: commands and data do not get into other files or devices.
OpenIsOwn ==
    ~astray =>
        \A d \in Devices : session[d] # 0 =>
            Holds(d, "cmd", session[d]) /\ Holds(d, "data", session[d])

\* Every socket is that of an open device or of the call in progress, or was
\* left open by a call that gave up: a close, and a ping of an instrument
\* that was reached, leave none behind.
SocketsAccounted ==
    \A f \in Fds : table[f].dev \in Devices =>
        \/ table[f].call = session[table[f].dev]
        \/ table[f].call = calls /\ table[f].dev = dev /\ pc # "idle"
        \/ table[f].call \in unclosed

\* Why these two hold, as an inductive invariant (proved in
\* ConnectionProofs): a call in progress is on a device that is not open, and
\* the sockets of an open device, or of the call in progress, that are still
\* there are where its structure says.
InProgress(d, call) == pc # "idle" /\ d = dev /\ call = calls

CallUnderWay ==
    /\ \A d \in Devices : session[d] # 0 => session[d] <= calls /\ struct[d].tcpip
    /\ pc # "idle" => session[dev] = 0 /\ calls # 0
    /\ pc \in {"data", "identify"} => Holds(dev, "cmd", calls)
    /\ pc = "identify" => Holds(dev, "data", calls) /\ struct[dev].tcpip

StructuresKnow ==
    \A f \in Fds : LET o == table[f] IN
        o.dev \in Devices =>
            /\ o.sock \in Sockets /\ o.call # 0 /\ o.call <= calls
            /\ InProgress(o.dev, o.call) =>
                  pc # "cmd" /\ (pc = "data" => o.sock = "cmd")
            /\ o.call = session[o.dev] \/ InProgress(o.dev, o.call) =>
                  f = struct[o.dev][o.sock]

ConnectionInv ==
    TypeOK /\ CallUnderWay /\ StructuresKnow /\ OpenIsOwn /\ SocketsAccounted

\* What wsa_disconnect documents: the connection is closed if one is started.
ClosesOnlyItsOwn == ~astray

\* What wsa_open documents: an instrument that was not opened is closed.
ClosedAutomatically == \A f \in Fds : table[f].call \notin unclosed

=============================================================================
