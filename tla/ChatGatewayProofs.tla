--------------------------- MODULE ChatGatewayProofs ---------------------------
(***************************************************************************)
(* Theorems about ChatGateway: one connection of an object at a time, none *)
(* of a forgotten one but the attempt that the sign-out did not reach,     *)
(* AUTH first, bytes in step, a heartbeat, and no drop that strands an     *)
(* object.  The methods are operators on the object's record, so what each *)
(* keeps is a lemma about any record, and a callback that calls several    *)
(* cites them.                                                             *)
(***************************************************************************)
EXTENDS ChatGateway, FiniteSetTheorems, TLAPS

\* g has the fields of the object.
Shape(g) ==
    /\ DOMAIN g = {"socket", "life", "auth", "first", "rest", "connectPromise", "signedOut",
                   "reconnectTimer", "idleTimer", "heartbeatTimer", "token", "listeners",
                   "send"}
    /\ DOMAIN g.life = Socket /\ DOMAIN g.first = Socket /\ g.auth \in [Socket -> BOOLEAN]

\* What is true of a socket while it is open, connecting, destroyed.  An open one
\* is alone; an attempt is the one the promise is about; one close event is to
\* come at most.
SocketOK(g, s) ==
    /\ g.life[s] \in {"free", "connecting", "open", "dying"}
    /\ g.life[s] = "free" => g.first[s] = None
    /\ g.life[s] = "open" =>
          /\ g.socket = s /\ g.first[s] = "AUTH" /\ g.rest \in {None, s}
          /\ \A t \in Socket \ {s} : g.life[t] = "free"
          /\ g.auth[s] = FALSE => g.heartbeatTimer = TRUE
    /\ g.life[s] = "connecting" => g.connectPromise = s /\ g.first[s] = None
    /\ g.life[s] = "dying" => \A t \in Socket \ {s} : g.life[t] # "dying"
    /\ g.auth[s] = TRUE => g.life[s] \in {"open", "dying"}
    /\ g.first[s] \in {None, "AUTH"}

\* A promise is still to be settled by an event of its socket.
PromiseOK(g) ==
    g.connectPromise # None =>
        /\ g.connectPromise \in Socket
        /\ g.life[g.connectPromise] = "connecting" \/ g.auth[g.connectPromise] = TRUE

\* NeverStranded of g.
Busy(g) ==
    g.token = TRUE /\ g.signedOut = FALSE =>
        g.reconnectTimer = TRUE \/ \E s \in Socket : g.life[s] # "free"

Flags(g) == /\ g.signedOut \in BOOLEAN /\ g.reconnectTimer \in BOOLEAN /\ g.token \in BOOLEAN
            /\ g.heartbeatTimer \in BOOLEAN /\ g.socket \in Socket \cup {None}

\* The object between two method calls; Busy need not hold inside a callback.
Sound(g) == Shape(g) /\ Flags(g) /\ (\A s \in Socket : SocketOK(g, s)) /\ PromiseOK(g)

\* A signed-out object that no attempt is under way for: nothing brings it back.
Still(g) ==
    /\ g.connectPromise = None /\ g.reconnectTimer = FALSE
    /\ \A s \in Socket : g.life[s] \in {"free", "dying"}
    /\ g.signedOut = TRUE \/ \A s \in Socket : g.life[s] = "free"

\* Inductive.
GwInv ==
    /\ DOMAIN gw = Object
    /\ \A o \in Object : Sound(gw[o]) /\ Busy(gw[o])
    /\ \A o \in Forgotten : o \notin cutOff => Still(gw[o])

-----------------------------------------------------------------------------
\* A change of fields that no socket depends on.
Same(h, g) ==
    /\ h.socket = g.socket /\ h.life = g.life /\ h.auth = g.auth /\ h.first = g.first
    /\ h.rest = g.rest /\ h.heartbeatTimer = g.heartbeatTimer
LEMMA SameSound ==
    ASSUME NEW g, NEW h, Sound(g), DOMAIN h = DOMAIN g, Flags(h), Same(h, g),
           h.connectPromise = g.connectPromise
    PROVE  Sound(h)
  BY DEF Sound, Shape, SocketOK, PromiseOK, Same

\* socket.destroy()
LEMMA DestroySound ==
    ASSUME NEW g, Sound(g)
    PROVE  Sound(Destroy(g)) /\ ~Usable(Destroy(g))
  <1>1. CASE Usable(g)
    <2>1. PICK h : h = [g EXCEPT !.life[g.socket] = "dying"]
      OBVIOUS
    <2>2. Destroy(g) = h
      BY <1>1, <2>1 DEF Destroy
    <2>3. g.socket \in Socket
      BY <1>1 DEF Usable, Sound, Flags
    <2> QED
      BY <1>1, <2>1, <2>2, <2>3 DEF Sound, Shape, Flags, SocketOK, PromiseOK, Usable
  <1>2. CASE ~Usable(g)
    BY <1>2 DEF Destroy
  <1> QED
    BY <1>1, <1>2

\* disconnect() leaves nothing behind but the attempt it does not know of.
LEMMA DisconnectSound ==
    ASSUME NEW g, Sound(g)
    PROVE  Sound(Disconnect(g)) /\ Busy(Disconnect(g))
  <1>1. PICK d : d = Destroy(g)
    OBVIOUS
  <1>2. Sound(d) /\ ~Usable(d)
    BY <1>1, DestroySound
  <1>3. \A s \in Socket : d.life[s] # "open"
    BY <1>2, GatewayAssumption DEF Sound, SocketOK, Usable
  <1>4. PICK h : h = [d EXCEPT !.signedOut = TRUE, !.reconnectTimer = FALSE, !.heartbeatTimer = FALSE,
                       !.idleTimer = FALSE, !.rest = None, !.socket = None]
    OBVIOUS
  <1>5. Disconnect(g) = h
    BY <1>1, <1>4 DEF Disconnect
  <1>6. Sound(h) /\ h.signedOut = TRUE
    BY <1>2, <1>3, <1>4 DEF Sound, Shape, Flags, SocketOK, PromiseOK
  <1> QED
    BY <1>5, <1>6 DEF Busy

\* When nothing is open or under way, a slot is free: one close event at most is
\* to come.
LEMMA FreeSlot ==
    ASSUME NEW g, Sound(g), ~Usable(g), g.connectPromise = None
    PROVE  /\ \E s \in Socket : g.life[s] = "free"
           /\ \A s \in Socket : g.life[s] \in {"free", "dying"}
  <1>1. \A s \in Socket : g.life[s] \in {"free", "dying"}
    BY GatewayAssumption DEF Sound, SocketOK, Usable
  <1>2. \E s, t \in Socket : s # t
    <2> SUFFICES ASSUME \A s, t \in Socket : s = t PROVE FALSE
      OBVIOUS
    <2>1. Socket # {}
      BY GatewayAssumption, FS_EmptySet
    <2>2. PICK s \in Socket : Socket = {s}
      BY <2>1
    <2>3. Cardinality(Socket) = 1
      BY <2>2, FS_Singleton
    <2> QED
      BY <2>3, GatewayAssumption
  <1> QED
    BY <1>1, <1>2 DEF Sound, SocketOK

\* openSocket()
LEMMA OpenSound ==
    ASSUME NEW g, Sound(g), ~Usable(g), g.connectPromise = None
    PROVE  Sound(OpenSocket(g)) /\ Busy(OpenSocket(g)) /\ ~Usable(OpenSocket(g))
  <1>1. PICK s : s = CHOOSE t \in Socket : g.life[t] = "free"
    OBVIOUS
  <1>2. s \in Socket /\ g.life[s] = "free" /\ \A t \in Socket : g.life[t] \in {"free", "dying"}
    BY <1>1, FreeSlot
  <1>4. PICK h : h = [g EXCEPT !.connectPromise = s, !.life[s] = "connecting"]
    OBVIOUS
  <1>5. OpenSocket(g) = h
    BY <1>1, <1>4 DEF OpenSocket
  <1>6. Sound(h) /\ h.life[s] = "connecting" /\ ~Usable(h)
    BY <1>2, <1>4, GatewayAssumption DEF Sound, Shape, Flags, SocketOK, PromiseOK, Usable
  <1> QED
    BY <1>2, <1>5, <1>6 DEF Busy

\* ensureConnected() ends with a connection, or with a promise of one.
LEMMA EnsureSound ==
    ASSUME NEW g, Sound(g)
    PROVE  Sound(EnsureConnected(g)) /\ Busy(EnsureConnected(g))
  <1>1. PICK h : h = [g EXCEPT !.token = TRUE, !.signedOut = FALSE, !.idleTimer = FALSE]
    OBVIOUS
  <1>2. EnsureConnected(g) = IF Usable(h) \/ h.connectPromise # None THEN h ELSE OpenSocket(h)
    BY <1>1 DEF EnsureConnected
  <1>3. Sound(h)
    BY <1>1 DEF Sound, Shape, Flags, SocketOK, PromiseOK
  <1>4. CASE Usable(h) \/ h.connectPromise # None
    <2>1. \E s \in Socket : h.life[s] # "free"
      BY <1>3, <1>4 DEF Sound, Flags, Usable, PromiseOK, SocketOK
    <2> QED
      BY <1>2, <1>3, <1>4, <2>1 DEF Busy
  <1>5. CASE ~(Usable(h) \/ h.connectPromise # None)
    BY <1>2, <1>3, <1>5, OpenSound
  <1> QED
    BY <1>4, <1>5

\* A write to the open connection, which has its AUTH already.
LEMMA WriteSame ==
    ASSUME NEW g, Sound(g), Usable(g), NEW frame
    PROVE  Write(g, frame) = g
  BY GatewayAssumption DEF Sound, Flags, SocketOK, Usable, Write, None

\* A change of g.send.
LEMMA SendField ==
    ASSUME NEW g, Sound(g), Busy(g), NEW x
    PROVE  Sound([g EXCEPT !.send = x]) /\ Busy([g EXCEPT !.send = x])
  <1>1. PICK h : h = [g EXCEPT !.send = x]
    OBVIOUS
  <1>2. Sound(h) /\ Busy(h)
    BY <1>1 DEF Sound, Shape, Flags, SocketOK, PromiseOK, Busy
  <1> QED
    BY <1>1, <1>2

\* The parts of a POST send.
LEMMA WriteChatSound ==
    ASSUME NEW g, Sound(g), Busy(g)
    PROVE  Sound(WriteChat(g)) /\ Busy(WriteChat(g))
  <1>1. WriteChat(g) = [g EXCEPT !.send = "idle"]
    BY WriteSame DEF WriteChat
  <1> QED
    BY <1>1, SendField
LEMMA SendMessageSound ==
    ASSUME NEW g, Sound(g)
    PROVE  Sound(SendMessage(g)) /\ Busy(SendMessage(g))
  <1>1. PICK h : h = EnsureConnected(g) /\ Sound(h) /\ Busy(h)
    BY EnsureSound
  <1> QED
    BY <1>1, SendField, WriteChatSound DEF SendMessage
LEMMA SendRouteSound ==
    ASSUME NEW g, Sound(g)
    PROVE  Sound(SendRoute(g)) /\ Busy(SendRoute(g))
  <1>1. PICK h : h = EnsureConnected(g) /\ Sound(h) /\ Busy(h)
    BY EnsureSound
  <1> QED
    BY <1>1, SendField, SendMessageSound DEF SendRoute

\* g is sound but for its promise, if that is about s and s is through.
Through(g, s) ==
    /\ Shape(g) /\ Flags(g) /\ \A t \in Socket : SocketOK(g, t)
    /\ g.life[s] \in {"open", "dying"}
    /\ g.connectPromise # s => PromiseOK(g)

\* The promise of s is taken back.
LEMMA PromiseTaken ==
    ASSUME NEW g, NEW s \in Socket, Through(g, s), g.connectPromise = s
    PROVE  LET h == [g EXCEPT !.connectPromise = None] IN Sound(h) /\ Busy(h)
  <1>1. PICK h : h = [g EXCEPT !.connectPromise = None]
    OBVIOUS
  <1>2. Sound(h) /\ h.life[s] # "free"
    BY <1>1 DEF Through, Sound, Shape, Flags, SocketOK, PromiseOK
  <1>3. Busy(h)
    BY <1>2 DEF Busy
  <1> QED
    BY <1>1, <1>2, <1>3

\* resolve(), and what the waiting POST does next.
LEMMA ResolveSound ==
    ASSUME NEW g, NEW s \in Socket, Through(g, s)
    PROVE  Sound(Resolve(g, s)) /\ Busy(Resolve(g, s))
  <1>1. CASE g.connectPromise # s
    BY <1>1 DEF Resolve, Through, Sound, Busy
  <1>2. CASE g.connectPromise = s
    <2>1. PICK h : h = [g EXCEPT !.connectPromise = None] /\ Sound(h) /\ Busy(h)
      BY <1>2, PromiseTaken
    <2>2. Resolve(g, s) = CASE g.send = "first" -> SendMessage(h)
                            [] g.send = "second" -> WriteChat(h)
                            [] OTHER -> h
      BY <1>2, <2>1 DEF Resolve
    <2>3. Resolve(g, s) \in {SendMessage(h), WriteChat(h), h}
      BY <2>2
    <2> QED
      BY <2>1, <2>3, SendMessageSound, WriteChatSound
  <1> QED
    BY <1>1, <1>2

\* reject()
LEMMA RejectSound ==
    ASSUME NEW g, NEW s \in Socket, Through(g, s)
    PROVE  Sound(Reject(g, s)) /\ Busy(Reject(g, s))
  <1>1. CASE g.connectPromise # s
    BY <1>1 DEF Reject, Through, Sound, Busy
  <1>2. CASE g.connectPromise = s
    <2>1. PICK h : h = [g EXCEPT !.connectPromise = None] /\ Sound(h) /\ Busy(h)
      BY <1>2, PromiseTaken
    <2>2. Reject(g, s) = [g EXCEPT !.connectPromise = None, !.send = "idle"]
      BY <1>2 DEF Reject
    <2>3. Reject(g, s) = [h EXCEPT !.send = "idle"]
      BY <2>1, <2>2
    <2>4. Sound([h EXCEPT !.send = "idle"]) /\ Busy([h EXCEPT !.send = "idle"])
      BY <2>1, SendField
    <2> QED
      BY <2>3, <2>4
  <1> QED
    BY <1>1, <1>2
-----------------------------------------------------------------------------
(***************************************************************************)
(* The steps.                                                              *)
(***************************************************************************)

\* A step of the object o leaves the others alone.
LEMMA BecomesAt ==
    ASSUME DOMAIN gw = Object, NEW o \in Object, NEW g, Becomes(o, g)
    PROVE  /\ gw'[o] = g /\ DOMAIN gw' = Object /\ cutOff' = cutOff
           /\ \A p \in Object \ {o} : gw'[p] = gw[p]
  BY DEF Becomes

\* A callback of a socket.
LEMMA SocketStep ==
    ASSUME GwInv, NEW o \in Object, NEW s \in Socket,
           \/ SecureConnect(o, s) \/ AuthWritten(o, s) \/ AuthFails(o, s) \/ ConnectFails(o, s)
           \/ SocketError(o, s) \/ PeerEnds(o, s) \/ SocketClose(o, s) \/ Data(o, s)
    PROVE  Sound(gw'[o]) /\ Busy(gw'[o])
  <1> DEFINE g == gw[o]
  <1> DEFINE n == gw'[o]
  <1>0. Sound(g) /\ Busy(g) /\ DOMAIN gw = Object
    BY DEF GwInv
  <1> SUFFICES Sound(n) /\ Busy(n)
    OBVIOUS
  <1>1. CASE SecureConnect(o, s)
    <2>1. g.life[s] = "connecting" /\ \A t \in Socket \ {s} : g.life[t] # "dying"
      BY <1>1, BecomesAt DEF SecureConnect, ClosesFirst
    <2>2. PICK h : h = [g EXCEPT !.life[s] = "open", !.socket = s, !.rest = None]
      OBVIOUS
    <2>3. Write(h, "AUTH") = [h EXCEPT !.first[s] = "AUTH"]
      <3>1. h.socket = s /\ h.first[s] = None
        BY <1>0, <2>1, <2>2 DEF Sound, Shape, SocketOK
      <3> QED
        BY <3>1 DEF Write
    <2>4. PICK k : k = [h EXCEPT !.first[s] = "AUTH"]
      OBVIOUS
    <2>5. n = [k EXCEPT !.auth[s] = TRUE]
      <3>1. Becomes(o, [k EXCEPT !.auth[s] = TRUE])
        BY <1>1, <2>2, <2>3, <2>4 DEF SecureConnect
      <3> QED
        BY <1>0, <3>1, BecomesAt
    <2>6. \A t \in Socket \ {s} : g.life[t] = "free"
      BY <1>0, <2>1 DEF Sound, SocketOK
    <2>7. Shape(n) /\ Flags(n) /\ n.life[s] = "open"
      BY <1>0, <2>1, <2>2, <2>4, <2>5 DEF Sound, Shape, Flags
    <2>8. \A t \in Socket : SocketOK(n, t)
      BY <1>0, <2>1, <2>2, <2>4, <2>5, <2>6 DEF Sound, Shape, Flags, SocketOK, PromiseOK
    <2>9. PromiseOK(n)
      BY <1>0, <2>1, <2>2, <2>4, <2>5 DEF Sound, Shape, Flags, SocketOK, PromiseOK
    <2>10. Sound(n)
      BY <2>7, <2>8, <2>9 DEF Sound
    <2> QED
      BY <2>7, <2>10 DEF Busy
  <1>2. CASE AuthWritten(o, s)
    <2>1. PICK h : h = [g EXCEPT !.auth[s] = FALSE, !.heartbeatTimer = TRUE]
      OBVIOUS
    <2>2. g.auth[s] = TRUE /\ n = Resolve(h, s)
      BY <1>0, <1>2, <2>1, BecomesAt DEF AuthWritten, Sound, Shape
    <2>3. Through(h, s)
      BY <1>0, <2>1, <2>2 DEF Through, Sound, Shape, Flags, SocketOK, PromiseOK
    <2> QED
      BY <2>2, <2>3, ResolveSound
  <1>3. CASE AuthFails(o, s)
    <2>1. PICK h : h = [g EXCEPT !.auth[s] = FALSE, !.life[s] = "dying"]
      OBVIOUS
    <2>2. g.auth[s] = TRUE /\ n = Reject(h, s)
      BY <1>0, <1>3, <2>1, BecomesAt DEF AuthFails, Sound, Shape
    <2>3. g.life[s] \in {"open", "dying"}
      BY <1>0, <2>2 DEF Sound, SocketOK
    <2>4. Through(h, s)
      BY <1>0, <2>1, <2>2, <2>3 DEF Through, Sound, Shape, Flags, SocketOK, PromiseOK
    <2> QED
      BY <2>2, <2>4, RejectSound
  <1>4. CASE ConnectFails(o, s) \/ SocketError(o, s)
    <2>1. PICK h : h = [g EXCEPT !.life[s] = "dying"]
      OBVIOUS
    <2>2. n = Reject(h, s)
      <3>1. Becomes(o, Reject(h, s))
        BY <1>4, <2>1 DEF ConnectFails, SocketError
      <3> QED
        BY <1>0, <3>1, BecomesAt
    <2>3. g.life[s] \in {"connecting", "open"} /\ \A t \in Socket \ {s} : g.life[t] # "dying"
      BY <1>0, <1>4, BecomesAt DEF ConnectFails, SocketError, ClosesFirst, Sound, SocketOK
    <2>4. Through(h, s)
      BY <1>0, <2>1, <2>3 DEF Through, Sound, Shape, Flags, SocketOK, PromiseOK
    <2> QED
      BY <2>2, <2>4, RejectSound
  <1>5. CASE PeerEnds(o, s)
    <2>1. n = [g EXCEPT !.life[s] = "dying"] /\ g.life[s] = "open"
      <3>1. Becomes(o, [g EXCEPT !.life[s] = "dying"]) /\ g.life[s] = "open"
        BY <1>5 DEF PeerEnds
      <3> QED
        BY <1>0, <3>1, BecomesAt
    <2>2. Sound(n) /\ n.life[s] = "dying"
      BY <1>0, <2>1 DEF Sound, Shape, Flags, SocketOK, PromiseOK
    <2> QED
      BY <2>2 DEF Busy
  <1>6. CASE SocketClose(o, s)
    <2>1. PICK h : h = [g EXCEPT !.life[s] = "free", !.first[s] = None, !.heartbeatTimer = FALSE,
                                 !.socket = None]
      OBVIOUS
    <2>2. /\ g.life[s] = "dying" /\ g.auth[s] = FALSE
          /\ n = IF h.signedOut THEN h ELSE Reject(ScheduleReconnect(h), s)
      BY <1>0, <1>6, <2>1, BecomesAt DEF SocketClose, Sound, Shape
    <2>3. \A t \in Socket : g.life[t] # "open"
      BY <1>0, <2>2 DEF Sound, SocketOK
    <2>4. Sound(h) /\ h.connectPromise # s
      <3>1. g.connectPromise # s
        BY <1>0, <2>2, GatewayAssumption DEF Sound, PromiseOK
      <3> QED
        BY <1>0, <2>1, <2>2, <2>3, <3>1 DEF Sound, Shape, Flags, SocketOK, PromiseOK
    <2>5. CASE h.signedOut
      BY <2>2, <2>4, <2>5 DEF Busy, Sound, Flags
    <2>6. CASE ~h.signedOut
      <3>1. CASE h.reconnectTimer
        BY <2>2, <2>4, <2>6, <3>1 DEF ScheduleReconnect, Reject, Busy, Sound, Flags
      <3>2. CASE ~h.reconnectTimer
        <4>1. PICK k : k = [h EXCEPT !.reconnectTimer = TRUE]
          OBVIOUS
        <4>2. Sound(k) /\ k.reconnectTimer = TRUE /\ k.connectPromise # s
          BY <2>4, <4>1 DEF Sound, Shape, Flags, SocketOK, PromiseOK
        <4>3. n = k
          BY <2>2, <2>6, <3>2, <4>1, <4>2 DEF ScheduleReconnect, Reject
        <4> QED
          BY <4>2, <4>3 DEF Busy
      <3> QED
        BY <3>1, <3>2
    <2> QED
      BY <2>5, <2>6
  <1>7. CASE Data(o, s)
    <2>1. PICK rest \in {None, s} :
             LET h == [g EXCEPT !.rest = rest] IN Becomes(o, h) \/ Becomes(o, Destroy(h))
      BY <1>7 DEF Data
    <2>2. PICK k : k = [g EXCEPT !.rest = rest]
      OBVIOUS
    <2>4. Becomes(o, k) \/ Becomes(o, Destroy(k))
      BY <2>1, <2>2
    <2>5. g.life[s] = "open" /\ n \in {k, Destroy(k)}
      BY <1>0, <1>7, <2>4, BecomesAt DEF Data
    <2>6. Sound(k) /\ k.life[s] = "open"
      BY <1>0, <2>2, <2>5 DEF Sound, Shape, Flags, SocketOK, PromiseOK
    <2>7. Sound(Destroy(k)) /\ Destroy(k).life[s] # "free"
      <3>1. k.socket = s /\ Usable(k)
        BY <2>6, GatewayAssumption DEF Usable, Sound, SocketOK
      <3>2. Destroy(k) = [k EXCEPT !.life[s] = "dying"]
        BY <3>1 DEF Destroy
      <3>3. Destroy(k).life[s] = "dying"
        BY <2>6, <3>2 DEF Sound, Shape
      <3> QED
        BY <2>6, <3>3, DestroySound
    <2> QED
      BY <2>5, <2>6, <2>7 DEF Busy
  <1> QED
    BY <1>1, <1>2, <1>3, <1>4, <1>5, <1>6, <1>7

\* A forgotten object stays as it is: the routes do not reach it, and none of its
\* callbacks opens a connection.
LEMMA StillSocketStep ==
    ASSUME GwInv, NEW o \in Object, NEW s \in Socket, Still(gw[o]),
           \/ SecureConnect(o, s) \/ AuthWritten(o, s) \/ AuthFails(o, s) \/ ConnectFails(o, s)
           \/ SocketError(o, s) \/ PeerEnds(o, s) \/ SocketClose(o, s) \/ Data(o, s)
    PROVE  Still(gw'[o])
  <1> DEFINE g == gw[o]
  <1> DEFINE n == gw'[o]
  <1>0. Sound(g) /\ DOMAIN gw = Object /\ g.connectPromise # s
    BY GatewayAssumption DEF GwInv, Still
  <1> SUFFICES Still(n)
    OBVIOUS
  <1>1. ~SecureConnect(o, s) /\ ~ConnectFails(o, s) /\ ~SocketError(o, s) /\ ~PeerEnds(o, s) /\ ~Data(o, s)
    BY DEF Still, SecureConnect, ConnectFails, SocketError, PeerEnds, Data
  <1>2. CASE AuthWritten(o, s)
    <2>1. PICK h : h = [g EXCEPT !.auth[s] = FALSE, !.heartbeatTimer = TRUE]
      OBVIOUS
    <2>2. Becomes(o, Resolve(h, s))
      BY <1>2, <2>1 DEF AuthWritten
    <2>3. Resolve(h, s) = h
      BY <1>0, <2>1 DEF Resolve, Sound, Shape
    <2>4. n = h
      BY <1>0, <2>2, <2>3, BecomesAt
    <2> QED
      BY <1>0, <2>1, <2>4 DEF Still, Sound, Shape
  <1>3. CASE AuthFails(o, s)
    <2>1. PICK h : h = [g EXCEPT !.auth[s] = FALSE, !.life[s] = "dying"]
      OBVIOUS
    <2>2. Becomes(o, Reject(h, s)) /\ g.auth[s] = TRUE
      BY <1>0, <1>3, <2>1 DEF AuthFails, Sound, Shape
    <2>3. Reject(h, s) = h
      BY <1>0, <2>1 DEF Reject, Sound, Shape
    <2>4. n = h /\ g.life[s] = "dying"
      BY <1>0, <2>2, <2>3, BecomesAt DEF Still, Sound, SocketOK
    <2> QED
      BY <1>0, <2>1, <2>4 DEF Still, Sound, Shape
  <1>4. CASE SocketClose(o, s)
    <2>1. PICK h : h = [g EXCEPT !.life[s] = "free", !.first[s] = None, !.heartbeatTimer = FALSE,
                                 !.socket = None]
      OBVIOUS
    <2>2. g.life[s] = "dying" /\ Becomes(o, IF h.signedOut THEN h ELSE Reject(ScheduleReconnect(h), s))
      BY <1>4, <2>1 DEF SocketClose
    <2>3. g.signedOut = TRUE
      BY <2>2 DEF Still
    <2>4. h.signedOut = TRUE
      BY <1>0, <2>1, <2>3 DEF Sound, Shape
    <2>5. n = h
      BY <1>0, <2>2, <2>4, BecomesAt
    <2> QED
      BY <1>0, <2>1, <2>3, <2>5 DEF Still, Sound, Shape
  <1> QED
    BY <1>1, <1>2, <1>3, <1>4

\* disconnect() of an object without an attempt under way: it stays as it is then.
LEMMA DisconnectStill ==
    ASSUME NEW g, Sound(g), g.connectPromise = None
    PROVE  Still(Disconnect(g))
  <1>1. PICK d : d = Destroy(g)
    OBVIOUS
  <1>2. Sound(d) /\ ~Usable(d)
    BY <1>1, DestroySound
  <1>3. d.connectPromise = None
    <2>1. PICK h : h = [g EXCEPT !.life[g.socket] = "dying"]
      OBVIOUS
    <2>2. h.connectPromise = None
      BY <2>1 DEF Sound, Shape
    <2>3. d \in {g, h}
      BY <1>1, <2>1 DEF Destroy
    <2> QED
      BY <2>2, <2>3
  <1>4. \A s \in Socket : d.life[s] \in {"free", "dying"}
    BY <1>2, <1>3, FreeSlot
  <1>5. PICK h : h = [d EXCEPT !.signedOut = TRUE, !.reconnectTimer = FALSE, !.heartbeatTimer = FALSE,
                       !.idleTimer = FALSE, !.rest = None, !.socket = None]
    OBVIOUS
  <1>6. Disconnect(g) = h
    BY <1>1, <1>5 DEF Disconnect
  <1>7. h.connectPromise = None /\ h.reconnectTimer = FALSE /\ h.signedOut = TRUE /\ h.life = d.life
    BY <1>2, <1>3, <1>5 DEF Sound, Shape
  <1> QED
    BY <1>4, <1>6, <1>7 DEF Still

\* A timer of the object, or the end of one of its event streams.
LEMMA OwnStep ==
    ASSUME GwInv, NEW o \in Object,
           Unsubscribe(o) \/ Heartbeat(o) \/ Reconnect(o) \/ IdleShutdown(o)
    PROVE  Sound(gw'[o]) /\ Busy(gw'[o]) /\ (Still(gw[o]) => Still(gw'[o]))
  <1> DEFINE g == gw[o]
  <1> DEFINE n == gw'[o]
  <1>0. Sound(g) /\ Busy(g) /\ DOMAIN gw = Object
    BY DEF GwInv
  <1> SUFFICES Sound(n) /\ Busy(n) /\ (Still(g) => Still(n))
    OBVIOUS
  <1>1. CASE Unsubscribe(o)
    <2>1. PICK m, b : Becomes(o, [g EXCEPT !.listeners = m, !.idleTimer = b])
      BY <1>1 DEF Unsubscribe
    <2>2. n = [g EXCEPT !.listeners = m, !.idleTimer = b]
      BY <1>0, <2>1, BecomesAt
    <2> QED
      BY <1>0, <2>2 DEF Sound, Shape, Flags, SocketOK, PromiseOK, Busy, Still
  <1>2. CASE Heartbeat(o)
    <2>1. Becomes(o, Write(g, "PING")) /\ Usable(g)
      BY <1>2 DEF Heartbeat
    <2>2. Write(g, "PING") = g
      BY <1>0, <2>1, WriteSame
    <2>3. n = g
      BY <1>0, <2>1, <2>2, BecomesAt
    <2> QED
      BY <1>0, <2>3
  <1>3. CASE Reconnect(o)
    <2>1. PICK h : h = [g EXCEPT !.reconnectTimer = FALSE]
      OBVIOUS
    <2>2. g.reconnectTimer = TRUE /\ Becomes(o, IF h.signedOut THEN h ELSE EnsureConnected(h))
      BY <1>0, <1>3, <2>1 DEF Reconnect, Sound, Flags
    <2>3. n = IF h.signedOut THEN h ELSE EnsureConnected(h)
      BY <1>0, <2>2, BecomesAt
    <2>4. Sound(h) /\ ~Still(g)
      BY <1>0, <2>1, <2>2 DEF Sound, Shape, Flags, SocketOK, PromiseOK, Still
    <2>5. CASE h.signedOut
      BY <2>3, <2>4, <2>5 DEF Busy, Sound, Flags
    <2>6. CASE ~h.signedOut
      BY <2>3, <2>4, <2>6, EnsureSound
    <2> QED
      BY <2>5, <2>6
  <1>4. CASE IdleShutdown(o)
    <2>1. PICK h : h = [g EXCEPT !.idleTimer = FALSE]
      OBVIOUS
    <2>2. Becomes(o, IF h.listeners > 0 THEN h ELSE Disconnect(h))
      BY <1>4, <2>1 DEF IdleShutdown
    <2>3. n = IF h.listeners > 0 THEN h ELSE Disconnect(h)
      BY <1>0, <2>2, BecomesAt
    <2>4. Sound(h) /\ Busy(h) /\ (Still(g) => Still(h))
      BY <1>0, <2>1 DEF Sound, Shape, Flags, SocketOK, PromiseOK, Busy, Still
    <2>5. Still(h) => Still(Disconnect(h))
      BY <2>4, DisconnectStill DEF Still
    <2> QED
      BY <2>3, <2>4, <2>5, DisconnectSound
  <1> QED
    BY <1>1, <1>2, <1>3, <1>4

\* A route that calls the object in the map.
LEMMA HeldStep ==
    ASSUME GwInv, PostConnect \/ PostSend \/ Subscribe
    PROVE  Sound(gw'[Held]) /\ Busy(gw'[Held])
  <1> DEFINE g == gw[Held]
  <1> DEFINE n == gw'[Held]
  <1>0. Sound(g) /\ Busy(g) /\ DOMAIN gw = Object /\ Held \in Object
    BY DEF GwInv, Object
  <1> SUFFICES Sound(n) /\ Busy(n)
    OBVIOUS
  <1>1. CASE PostConnect
    <2>1. Becomes(Held, EnsureConnected(g))
      BY <1>1 DEF PostConnect
    <2> QED
      BY <1>0, <2>1, BecomesAt, EnsureSound
  <1>2. CASE PostSend
    <2>1. Becomes(Held, SendRoute(g))
      BY <1>2 DEF PostSend
    <2> QED
      BY <1>0, <2>1, BecomesAt, SendRouteSound
  <1>3. CASE Subscribe
    <2>1. PICK m, b : Becomes(Held, [g EXCEPT !.listeners = m, !.idleTimer = b])
      BY <1>3 DEF Subscribe
    <2>2. n = [g EXCEPT !.listeners = m, !.idleTimer = b]
      BY <1>0, <2>1, BecomesAt
    <2> QED
      BY <1>0, <2>2 DEF Sound, Shape, Flags, SocketOK, PromiseOK, Busy
  <1> QED
    BY <1>1, <1>2, <1>3

\* A step of one object keeps the invariant.
LEMMA OneObject ==
    ASSUME GwInv, NEW o \in Object, NEW h, Becomes(o, h), Sound(gw'[o]), Busy(gw'[o]),
           o \in Forgotten /\ Still(gw[o]) => Still(gw'[o])
    PROVE  GwInv'
  <1>1. /\ DOMAIN gw = Object /\ DOMAIN gw' = Object /\ cutOff' = cutOff
        /\ \A p \in Object \ {o} : gw'[p] = gw[p]
    BY BecomesAt DEF GwInv
  <1>2. \A p \in Object : Sound(gw'[p]) /\ Busy(gw'[p])
    BY <1>1 DEF GwInv
  <1>3. \A p \in Forgotten : p \notin cutOff' => Still(gw'[p])
    BY <1>1 DEF GwInv, Object
  <1> QED
    BY <1>1, <1>2, <1>3 DEF GwInv

\* A sign-out: the object goes to the place of one that is gone, still unless an
\* attempt is under way, and a new one is in the map.
LEMMA SignOut ==
    ASSUME GwInv, NEW o \in Forgotten, PostDisconnect(o)
    PROVE  GwInv'
  <1>1. PICK g : g = Disconnect(gw[Held])
    OBVIOUS
  <1>2. PICK k : k = IF Gone(g) THEN New ELSE g
    OBVIOUS
  <1>3. /\ gw' = [gw EXCEPT ![Held] = New, ![o] = k]
        /\ cutOff' = IF gw[Held].connectPromise = None THEN cutOff \ {o} ELSE cutOff \cup {o}
    BY <1>1, <1>2 DEF PostDisconnect
  <1>4. o # Held /\ o \in Object /\ Held \in Object /\ DOMAIN gw = Object
    BY GatewayAssumption DEF GwInv, Object
  <1>5. /\ DOMAIN gw' = Object /\ gw'[Held] = New /\ gw'[o] = k
        /\ \A p \in Object \ {o, Held} : gw'[p] = gw[p]
    BY <1>3, <1>4
  <1>6. Sound(New) /\ Busy(New) /\ Still(New)
    BY DEF New, Sound, Shape, Flags, SocketOK, PromiseOK, Busy, Still
  <1>7. Sound(k) /\ Busy(k)
    BY <1>1, <1>2, <1>4, <1>6, DisconnectSound DEF GwInv
  <1>8. gw[Held].connectPromise = None => Still(k)
    BY <1>1, <1>2, <1>4, <1>6, DisconnectStill DEF GwInv
  <1>9. \A p \in Object : Sound(gw'[p]) /\ Busy(gw'[p])
    BY <1>5, <1>6, <1>7 DEF GwInv
  <1>10. \A p \in Forgotten : p \notin cutOff' => Still(gw'[p])
    <2> SUFFICES ASSUME NEW p \in Forgotten, p \notin cutOff' PROVE Still(gw'[p])
      OBVIOUS
    <2>1. CASE p = o
      BY <1>3, <1>5, <1>8, <2>1
    <2>2. CASE p # o
      BY <1>3, <1>5, <2>2, GatewayAssumption DEF GwInv, Object
    <2> QED
      BY <2>1, <2>2
  <1> QED
    BY <1>5, <1>9, <1>10 DEF GwInv

\* The invariant of the objects, for every order of routes, events and timers.
THEOREM GatewayInvariant == Spec => []GwInv
  <1>1. Init => GwInv
    <2>1. Sound(New) /\ Busy(New) /\ Still(New)
      BY DEF New, Sound, Shape, Flags, SocketOK, PromiseOK, Busy, Still
    <2> QED
      BY <2>1 DEF Init, GwInv, Object
  <1>2. GwInv /\ [Next]_vars => GwInv'
    <2> SUFFICES ASSUME GwInv, [Next]_vars PROVE GwInv'
      OBVIOUS
    <2>1. CASE UNCHANGED vars
      BY <2>1 DEF vars, GwInv, Sound, Busy, Still, Shape, Flags, SocketOK, PromiseOK
    <2>2. CASE PostConnect \/ PostSend \/ Subscribe
      <3>1. PICK h : Becomes(Held, h)
        BY <2>2 DEF PostConnect, PostSend, Subscribe
      <3>2. Held \in Object /\ Held \notin Forgotten
        BY GatewayAssumption DEF Object
      <3> QED
        BY <2>2, <3>1, <3>2, HeldStep, OneObject
    <2>3. ASSUME NEW o \in Object, Unsubscribe(o) \/ Heartbeat(o) \/ Reconnect(o) \/ IdleShutdown(o)
          PROVE  GwInv'
      <3>1. PICK h : Becomes(o, h)
        BY <2>3 DEF Unsubscribe, Heartbeat, Reconnect, IdleShutdown
      <3> QED
        BY <2>3, <3>1, OwnStep, OneObject
    <2>4. ASSUME NEW o \in Object, NEW s \in Socket,
                 \/ SecureConnect(o, s) \/ AuthWritten(o, s) \/ AuthFails(o, s)
                 \/ ConnectFails(o, s) \/ SocketError(o, s) \/ PeerEnds(o, s)
                 \/ SocketClose(o, s) \/ Data(o, s)
          PROVE  GwInv'
      <3>1. PICK h : Becomes(o, h)
        BY <2>4 DEF SecureConnect, AuthWritten, AuthFails, ConnectFails, SocketError, PeerEnds,
                    SocketClose, Data
      <3> QED
        BY <2>4, <3>1, SocketStep, StillSocketStep, OneObject
    <2> QED
      BY <2>1, <2>2, <2>3, <2>4, SignOut DEF Next, Routes
  <1> QED
    BY <1>1, <1>2, PTL DEF Spec

-----------------------------------------------------------------------------
\* An object has one connection to the server at a time, and once it is open it
\* keeps hold of it, whatever ensureConnected, disconnect and close events overlap.
THEOREM TunnelSingle == Spec => []OneEach
  <1>1. GwInv => OneEach
    <2> SUFFICES ASSUME GwInv, NEW o \in Object
                 PROVE  /\ Cardinality({s \in Socket : Alive(gw[o], s)}) <= 1
                        /\ \A s \in Socket : gw[o].life[s] = "open" => gw[o].socket = s
      BY DEF OneEach
    <2> DEFINE A == {s \in Socket : Alive(gw[o], s)}
    <2>1. \A s, t \in A : s = t
      BY DEF GwInv, Sound, SocketOK, Alive
    <2>2. A = {} \/ \E s : A = {s}
      BY <2>1
    <2>3. \A s \in Socket : gw[o].life[s] = "open" => gw[o].socket = s
      BY DEF GwInv, Sound, SocketOK
    <2> HIDE DEF A
    <2>4. Cardinality(A) = 0 \/ Cardinality(A) = 1
      BY <2>2, FS_EmptySet, FS_Singleton
    <2>5. Cardinality(A) <= 1
      BY <2>4
    <2> QED
      BY <2>3, <2>5 DEF A
  <1> QED
    BY <1>1, GatewayInvariant, PTL

\* A forgotten object has a connection, beside that of the browser's next object, only
\* if the sign-out came in the middle of an attempt (chat-gateway.ts:182-196 does not
\* reach the new socket).
THEOREM NoneLeftBehind == Spec => []NoneLeft
  <1>1. GwInv => NoneLeft
    BY DEF GwInv, Still, NoneLeft, Alive
  <1> QED
    BY <1>1, GatewayInvariant, PTL

\* No CHAT or PING gets ahead of the AUTH of its connection (the secureConnect
\* handler writes AUTH before it yields).
THEOREM AuthAlwaysFirst == Spec => []AuthFirst
  <1>1. GwInv => AuthFirst
    BY DEF GwInv, Sound, SocketOK, AuthFirst
  <1> QED
    BY <1>1, GatewayInvariant, PTL

\* streamBuffer never joins the bytes of two connections.
THEOREM BytesInStep == Spec => []InStep
  <1>1. GwInv => InStep
    BY DEF GwInv, Sound, SocketOK, InStep
  <1> QED
    BY <1>1, GatewayInvariant, PTL

\* An authenticated connection keeps its heartbeat through the close events and
\* timers of its predecessors.
THEOREM HeartbeatKept == Spec => []HeartbeatRuns
  <1>1. GwInv => HeartbeatRuns
    BY DEF GwInv, Sound, Shape, Flags, SocketOK, HeartbeatRuns, Usable
  <1> QED
    BY <1>1, GatewayInvariant, PTL

\* Every connection of an object is its only one, starts with AUTH, keeps to its own
\* bytes and keeps its heartbeat; that of a forgotten object stems from an attempt that
\* a sign-out cut off.
THEOREM TunnelAlwaysSound == Spec => []TunnelSound
  BY TunnelSingle, NoneLeftBehind, AuthAlwaysFirst, BytesInStep, HeartbeatKept, PTL DEF TunnelSound

\* While a connection is wanted, a socket or the reconnect timer will call back.
THEOREM NotStranded == Spec => []NeverStranded
  <1>1. GwInv => NeverStranded
    BY DEF GwInv, Sound, Flags, Busy, NeverStranded, Wanted
  <1> QED
    BY <1>1, GatewayInvariant, PTL
=============================================================================
