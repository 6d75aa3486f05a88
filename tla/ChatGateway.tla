------------------------------ MODULE ChatGateway ------------------------------
(***************************************************************************)
(* The bridge of the web client: a ChatGatewayConnection holds the TLS     *)
(* connection of one browser to the TCP server, and reconnects it.  The    *)
(* routes under app/api/chat call it, sockets and timers call back.        *)
(*                                                                         *)
(* The manager's map has one object for a browser; a sign-out takes it out *)
(* and the next request finds a new one, while sockets, timers and streams *)
(* of the forgotten object may still call that.  Both are followed here.   *)
(*                                                                         *)
(* Node runs one callback at a time, with the promises it settles: that is *)
(* a step.  An object is a record; its methods are operators that take it  *)
(* and return it changed, so a callback that calls several is their        *)
(* composition.  Messages, and the status shown to the browser, have no    *)
(* influence on the connection and are left out.                           *)
(***************************************************************************)
EXTENDS Integers, FiniteSets

CONSTANTS
    Forgotten,      \* bound: objects that a sign-out took out of the map and that go on
    Socket,         \* sockets of an object at a time; one is used again after its close event
    MaxListeners    \* bound: event streams of an object

None == "none"
Held == "held"
Object == Forgotten \cup {Held}

ASSUME GatewayAssumption ==
    /\ Cardinality(Socket) = 2 /\ None \notin Socket /\ MaxListeners \in Nat \ {0}
    /\ Held \notin Forgotten

VARIABLES
    gw,         \* the ChatGatewayConnections of a browser: the one in the map, the forgotten
    cutOff      \* ghost: those signed out in the middle of a connection attempt

vars == <<gw, cutOff>>

New == [
    socket |-> None,            \* this.socket
    life |-> [s \in Socket |-> "free"],     \* "connecting", "open", "dying": destroyed
                                            \* or ended, its close event to come
    auth |-> [s \in Socket |-> FALSE],      \* the callback of its AUTH write is to come
    first |-> [s \in Socket |-> None],      \* the first frame written to it
    rest |-> None,              \* streamBuffer: of which socket it holds part of a frame
    connectPromise |-> None,    \* the socket whose openSocket() it waits for
    signedOut |-> FALSE,        \* userInitiatedDisconnect
    reconnectTimer |-> FALSE, idleTimer |-> FALSE, heartbeatTimer |-> FALSE,
    token |-> FALSE,            \* accessToken is set
    listeners |-> 0,
    send |-> "idle"]            \* a POST send: in its "first" or "second" ensureConnected

\* getConnection() makes an object for a browser that has none; until then nothing
\* calls it, so it may as well be there.
Init == gw = [o \in Object |-> New] /\ cutOff = {}

-----------------------------------------------------------------------------
(***************************************************************************)
(* The methods.                                                            *)
(***************************************************************************)

\* this.socket && !this.socket.destroyed
Usable(g) == g.socket # None /\ g.life[g.socket] = "open"

\* openSocket(): tls.connect
OpenSocket(g) ==
    LET s == CHOOSE t \in Socket : g.life[t] = "free" IN
    [g EXCEPT !.connectPromise = s, !.life[s] = "connecting"]

EnsureConnected(g) ==
    LET h == [g EXCEPT !.token = TRUE, !.signedOut = FALSE, !.idleTimer = FALSE] IN
    IF Usable(h) \/ h.connectPromise # None THEN h ELSE OpenSocket(h)

\* socket.write
Write(g, frame) ==
    IF g.first[g.socket] = None THEN [g EXCEPT !.first[g.socket] = frame] ELSE g

\* Mutant: sendMessage() tries until it has a connection.
WriteChatInsists(g) ==
    IF Usable(g) THEN [Write(g, "CHAT") EXCEPT !.send = "idle"]
    ELSE [EnsureConnected(g) EXCEPT !.send = "second"]

\* sendMessage() behind its ensureConnected, from the start, and the route, which
\* calls ensureConnected itself before.
WriteChat(g) == [IF Usable(g) THEN Write(g, "CHAT") ELSE g EXCEPT !.send = "idle"]
SendMessage(g) ==
    LET h == EnsureConnected(g) IN
    IF Usable(h) THEN WriteChat(h) ELSE [h EXCEPT !.send = "second"]
SendRoute(g) ==
    LET h == EnsureConnected(g) IN
    IF Usable(h) THEN SendMessage(h) ELSE [h EXCEPT !.send = "first"]

\* Mutant: connectPromise is taken back behind a successful await only.
RejectKeeps(g, s) == IF g.connectPromise # s THEN g ELSE [g EXCEPT !.send = "idle"]

\* resolve() and reject() of the promise of socket s, if it is not settled, with
\* the finally of ensureConnected and what the waiting POST does next.
Resolve(g, s) ==
    LET h == [g EXCEPT !.connectPromise = None] IN
    IF g.connectPromise # s THEN g
    ELSE CASE g.send = "first" -> SendMessage(h)
           [] g.send = "second" -> WriteChat(h)
           [] OTHER -> h
Reject(g, s) ==
    IF g.connectPromise # s THEN g ELSE [g EXCEPT !.connectPromise = None, !.send = "idle"]

\* socket.destroy() of this.socket
Destroy(g) == IF Usable(g) THEN [g EXCEPT !.life[g.socket] = "dying"] ELSE g

\* Mutant: the close event is not told that the user has signed out.
DisconnectQuietly(g) ==
    [Destroy(g) EXCEPT !.reconnectTimer = FALSE, !.heartbeatTimer = FALSE, !.idleTimer = FALSE,
                       !.rest = None, !.socket = None]

\* A socket that is still connecting is not reached by this.
Disconnect(g) ==
    [Destroy(g) EXCEPT !.signedOut = TRUE, !.reconnectTimer = FALSE, !.heartbeatTimer = FALSE,
                       !.idleTimer = FALSE, !.rest = None, !.socket = None]

ScheduleReconnect(g) ==
    IF g.signedOut \/ g.reconnectTimer THEN g
    ELSE [g EXCEPT !.reconnectTimer = TRUE]

-----------------------------------------------------------------------------
(***************************************************************************)
(* The routes.                                                             *)
(***************************************************************************)

\* g is what the object o is after the step.
Becomes(o, g) == gw' = [gw EXCEPT ![o] = g] /\ UNCHANGED cutOff

PostConnect == Becomes(Held, EnsureConnected(gw[Held]))
PostSend == gw[Held].send = "idle" /\ Becomes(Held, SendRoute(gw[Held]))
Subscribe ==
    /\ gw[Held].listeners < MaxListeners
    /\ Becomes(Held, [gw[Held] EXCEPT !.listeners = @ + 1, !.idleTimer = FALSE])
Unsubscribe(o) ==
    /\ gw[o].listeners > 0
    /\ Becomes(o, [gw[o] EXCEPT !.listeners = @ - 1,
                                !.idleTimer = IF gw[o].listeners = 1 THEN TRUE ELSE @])

\* Nothing will call g any more.
Gone(g) ==
    /\ g.listeners = 0 /\ g.send = "idle" /\ ~g.idleTimer /\ ~g.reconnectTimer
    /\ \A s \in Socket : g.life[s] = "free"

\* destroyConnection(): the manager forgets the object, which goes on in its sockets,
\* timers and streams, here in the place o of one that is gone.  Whatever becomes of
\* it, getConnection() makes another object for the next request.
PostDisconnect(o) ==
    LET g == Disconnect(gw[Held]) IN
    /\ Gone(gw[o])
    /\ gw' = [gw EXCEPT ![Held] = New, ![o] = IF Gone(g) THEN New ELSE g]
    /\ cutOff' = IF gw[Held].connectPromise = None THEN cutOff \ {o} ELSE cutOff \cup {o}

-----------------------------------------------------------------------------
(***************************************************************************)
(* Callbacks of sockets and timers.                                        *)
(***************************************************************************)

\* libuv delivers a close event at the end of the turn of the loop in which the
\* socket was destroyed; a connection opened after that takes several turns.
ClosesFirst(o, s) == \A t \in Socket \ {s} : gw[o].life[t] # "dying"

\* secureConnect: AUTH is handed to the socket before anything else can run.
SecureConnect(o, s) ==
    /\ gw[o].life[s] = "connecting" /\ ClosesFirst(o, s)
    /\ Becomes(o, [Write([gw[o] EXCEPT !.life[s] = "open", !.socket = s, !.rest = None], "AUTH")
                      EXCEPT !.auth[s] = TRUE])

\* The AUTH write returns.  If the socket was destroyed meanwhile Node may call
\* it a success.
AuthWritten(o, s) ==
    /\ gw[o].auth[s]
    /\ Becomes(o, Resolve([gw[o] EXCEPT !.auth[s] = FALSE, !.heartbeatTimer = TRUE], s))
AuthFails(o, s) ==
    /\ gw[o].auth[s]
    /\ Becomes(o, Reject([gw[o] EXCEPT !.auth[s] = FALSE, !.life[s] = "dying"], s))

\* The error event of an attempt, which never ends without one, and of an open
\* connection, which may.
ConnectFails(o, s) ==
    /\ gw[o].life[s] = "connecting" /\ ClosesFirst(o, s)
    /\ Becomes(o, Reject([gw[o] EXCEPT !.life[s] = "dying"], s))
SocketError(o, s) ==
    /\ gw[o].life[s] = "open"
    /\ Becomes(o, Reject([gw[o] EXCEPT !.life[s] = "dying"], s))
PeerEnds(o, s) ==
    /\ gw[o].life[s] = "open"
    /\ Becomes(o, [gw[o] EXCEPT !.life[s] = "dying"])

\* The close event; callbacks of writes come before it.
SocketClose(o, s) ==
    LET g == [gw[o] EXCEPT !.life[s] = "free", !.first[s] = None, !.heartbeatTimer = FALSE, !.socket = None] IN
    /\ gw[o].life[s] = "dying" /\ ~gw[o].auth[s]
    /\ Becomes(o, IF g.signedOut THEN g ELSE Reject(ScheduleReconnect(g), s))

\* handleIncomingBytes(): the chunk may end inside a frame, and may bring an ERROR.
Data(o, s) ==
    /\ gw[o].life[s] = "open"
    /\ \E rest \in {None, s} :
          LET g == [gw[o] EXCEPT !.rest = rest] IN
          Becomes(o, g) \/ Becomes(o, Destroy(g))

Heartbeat(o) ==
    /\ gw[o].heartbeatTimer /\ Usable(gw[o])
    /\ Becomes(o, Write(gw[o], "PING"))

\* Mutant: no reconnect when nobody watches.
ReconnectWatched(o) ==
    /\ gw[o].reconnectTimer
    /\ LET g == [gw[o] EXCEPT !.reconnectTimer = FALSE] IN
       Becomes(o, IF g.signedOut \/ g.listeners = 0 THEN g ELSE EnsureConnected(g))

Reconnect(o) ==
    /\ gw[o].reconnectTimer
    /\ LET g == [gw[o] EXCEPT !.reconnectTimer = FALSE] IN
       Becomes(o, IF g.signedOut THEN g ELSE EnsureConnected(g))

IdleShutdown(o) ==
    /\ gw[o].idleTimer
    /\ LET g == [gw[o] EXCEPT !.idleTimer = FALSE] IN
       Becomes(o, IF g.listeners > 0 THEN g ELSE Disconnect(g))

-----------------------------------------------------------------------------
Routes ==
    \/ PostConnect \/ PostSend \/ Subscribe
    \/ \E o \in Object : Unsubscribe(o)
    \/ \E o \in Forgotten : PostDisconnect(o)

Next ==
    \/ Routes
    \/ \E o \in Object : Heartbeat(o) \/ Reconnect(o) \/ IdleShutdown(o)
    \/ \E o \in Object, s \in Socket :
          \/ SecureConnect(o, s) \/ AuthWritten(o, s) \/ AuthFails(o, s)
          \/ ConnectFails(o, s) \/ SocketError(o, s) \/ PeerEnds(o, s)
          \/ SocketClose(o, s) \/ Data(o, s)

\* An event of s is to come: the end of an attempt, the callback of its AUTH write,
\* the close event.
Due(o, s) ==
    \/ gw[o].life[s] = "connecting" /\ ClosesFirst(o, s)
    \/ gw[o].auth[s] \/ gw[o].life[s] = "dying"

\* Timers fire, and what is due comes.  This is weak fairness of Reconnect and of the
\* socket events that Due names, each of which is enabled until it happens and then
\* no longer.  That an attempt ends is not the code's doing: tls.connect is given no
\* timeout, and a peer that stays silent in the handshake holds it.  Nothing else is
\* assumed of the browser and the server.
Fairness ==
    \A o \in Object :
       /\ []<>(~gw[o].reconnectTimer)
       /\ \A s \in Socket : []<>(~Due(o, s))

Spec == Init /\ [][Next]_vars /\ Fairness

-----------------------------------------------------------------------------
(***************************************************************************)
(* Properties.                                                             *)
(***************************************************************************)

Alive(g, s) == g.life[s] \in {"connecting", "open"}
Wanted(g) == g.token /\ ~g.signedOut

\* The types of the fields.
TypeOK ==
    /\ DOMAIN gw = Object /\ cutOff \subseteq Forgotten
    /\ \A o \in Object : LET g == gw[o] IN
          /\ g.socket \in Socket \cup {None} /\ g.connectPromise \in Socket \cup {None}
          /\ g.life \in [Socket -> {"free", "connecting", "open", "dying"}]
          /\ g.auth \in [Socket -> BOOLEAN]
          /\ g.first \in [Socket -> {None, "AUTH", "CHAT", "PING"}]
          /\ g.rest \in Socket \cup {None}
          /\ {g.token, g.signedOut, g.reconnectTimer, g.idleTimer, g.heartbeatTimer} \subseteq BOOLEAN
          /\ g.listeners \in 0 .. MaxListeners
          /\ g.send \in {"idle", "first", "second"}

\* However routes, timers and reconnects overlap, an object has one connection to the
\* server at a time, and keeps hold of it once it is open.
OneEach ==
    \A o \in Object :
       /\ Cardinality({s \in Socket : Alive(gw[o], s)}) <= 1
       /\ \A s \in Socket : gw[o].life[s] = "open" => gw[o].socket = s

\* An object that a sign-out took out of the map has no connection and opens none,
\* while the next object of the browser has its own.  The exception is the attempt
\* that disconnect() does not reach: signed out in the middle of it, an object may get
\* a second tunnel for the browser, and keep it.
NoneLeft ==
    \A o \in Forgotten : (\E s \in Socket : Alive(gw[o], s)) => o \in cutOff

\* The first frame on every connection is AUTH: a POST that finds the new socket
\* in place, or a heartbeat, never gets ahead of it.
AuthFirst == \A o \in Object, s \in Socket : gw[o].first[s] \in {None, "AUTH"}

\* The bytes of a connection that dropped inside a frame are never put in front of
\* those of the next one.
InStep ==
    \A o \in Object, s \in Socket : gw[o].life[s] = "open" => gw[o].rest \in {None, s}

\* An authenticated connection has its heartbeat, without which the server drops
\* it: the close event of a predecessor does not stop it.
HeartbeatRuns ==
    \A o \in Object : Usable(gw[o]) /\ ~gw[o].auth[gw[o].socket] => gw[o].heartbeatTimer

\* All five: what the connections of a browser's objects are like at any time.
TunnelSound == OneEach /\ NoneLeft /\ AuthFirst /\ InStep /\ HeartbeatRuns

\* While an object's connection is wanted something is going on: a socket, of which
\* an event is to come, or the reconnect timer.  No drop, failed attempt or sign-out
\* that a new POST overtook leaves the object, and its status, as they are for good.
NeverStranded ==
    \A o \in Object : Wanted(gw[o]) =>
        gw[o].reconnectTimer \/ \E s \in Socket : gw[o].life[s] # "free"

\* A connection that is wanted is tried again after every drop and every failed
\* attempt, unless the user signs out.
TriedAgain ==
    \A o \in Object :
       (Wanted(gw[o]) /\ \A s \in Socket : ~Alive(gw[o], s))
          ~> (~Wanted(gw[o]) \/ \E s \in Socket : Alive(gw[o], s))

\* A POST does not wait for a connection for ever: the promise it waits for is settled
\* however the attempt ends, also when a sign-out overtakes it and the object is
\* forgotten.
SendEnds == \A o \in Object : (gw[o].send # "idle") ~> (gw[o].send = "idle")
=============================================================================
