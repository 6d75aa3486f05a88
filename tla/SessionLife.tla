----------------------------- MODULE SessionLife -----------------------------
(***************************************************************************)
(* The life of client connections on one Loomic server: accept, AUTH,      *)
(* registration in the SessionRegistry, the presence key in Redis, the     *)
(* message loop, the heartbeat supervisor and the cleanup at the end of    *)
(* Session::run (TLS TCP) and WebSocketSession::run.                       *)
(*                                                                         *)
(* run() is a coroutine on a single io thread; pc[s] is the co_await at    *)
(* which it is suspended, and an action is the code from that co_await to  *)
(* the next one.  A Redis command is performed when the co_await that      *)
(* issued it completes.  Every element of Sess is one connection, used     *)
(* once; a reconnect is another element with the same Owner.               *)
(*                                                                         *)
(* What the frame handlers do with messages is in module Delivery, which   *)
(* extends this one: here a handler that has to wait just moves to "conv"  *)
(* or "push" and comes back.                                               *)
(***************************************************************************)
EXTENDS Integers, FiniteSets

CONSTANTS
    User,       \* user ids
    Sess,       \* connections, in any order
    Owner,      \* Owner[s]: the user whose token connection s presents
    Kind,       \* Kind[s]: "tcp" (Session) or "ws" (WebSocketSession)
    None        \* no session

ASSUME SessionAssumption ==
    /\ Owner \in [Sess -> User]
    /\ Kind \in [Sess -> {"tcp", "ws"}]
    /\ None \notin Sess

VARIABLES
    pc,                 \* where run() waits
    sock,               \* "open" or "closed": the connection as the server sees it
    heartbeat,          \* heartbeat_loop() is alive (it keeps the object alive too)
    registry,           \* SessionRegistry::map_
    presence,           \* is there a key presence:{user}
    last_seen,          \* has last_seen been recorded for the user
    redis,              \* the server's only Redis connection works
    active_sessions,    \* gauge loomic_active_sessions
    active_connections  \* gauge loomic_active_connections

lifeVars == <<pc, sock, heartbeat, registry, presence, last_seen, redis,
              active_sessions, active_connections>>
gauges == <<active_sessions, active_connections>>

-----------------------------------------------------------------------------
\* run() has registered the session and has not begun its cleanup.
Registered == {"presence", "ack", "flush", "loop", "refresh", "pong",
               "limited", "conv", "push"}

\* run() itself is writing a frame to the stream (write_frame).
DirectWrite == {"ack", "pong", "limited"}

\* "idle": not connected.  "gone": run() left through a co_return inside the
\* message loop, without the cleanup.
PC == Registered \cup {"idle", "handshake", "auth", "reject", "cleanup",
                       "last_seen", "done", "gone"}

\* The presence key was set by s, whose cleanup has not deleted it.
Announced(s) == pc[s] \in (Registered \ {"presence"}) \cup {"cleanup", "gone"}

SetPc(s, from, to) == pc[s] \in from /\ pc' = [pc EXCEPT ![s] = to]

LifeInit ==
    /\ pc = [s \in Sess |-> "idle"]
    /\ sock = [s \in Sess |-> "open"]
    /\ heartbeat = [s \in Sess |-> FALSE]
    /\ registry = [u \in User |-> None]
    /\ presence = [u \in User |-> FALSE]
    /\ last_seen = [u \in User |-> FALSE]
    /\ redis = TRUE
    /\ active_sessions = 0
    /\ active_connections = 0

-----------------------------------------------------------------------------
(***************************************************************************)
(* Connecting.                                                             *)
(***************************************************************************)

\* TcpServer::listen counts the connection before the TLS handshake; an HTTP
\* connection that asks for the upgrade is not counted.
Accept(s) ==
    /\ SetPc(s, {"idle"}, "handshake")
    /\ active_connections' = active_connections + (IF Kind[s] = "tcp" THEN 1 ELSE 0)
    /\ UNCHANGED <<sock, heartbeat, registry, presence, last_seen, redis, active_sessions>>

HandshakeOk(s) ==
    /\ sock[s] = "open"
    /\ SetPc(s, {"handshake"}, "auth")
    /\ UNCHANGED <<sock, heartbeat, registry, presence, last_seen, redis, gauges>>

HandshakeFail(s) ==
    /\ SetPc(s, {"handshake"}, "done")
    /\ active_connections' = active_connections - (IF Kind[s] = "tcp" THEN 1 ELSE 0)
    /\ UNCHANGED <<sock, heartbeat, registry, presence, last_seen, redis, active_sessions>>

\* No frame, a first frame that is not AUTH, or one too long: co_return, or an
\* exception with user_id_ = 0.  A token that does not verify is answered with
\* an ERROR first.
AuthFail(s) ==
    /\ \/ SetPc(s, {"auth"}, "done")
       \/ sock[s] = "open" /\ SetPc(s, {"auth"}, "reject")
    /\ UNCHANGED <<sock, heartbeat, registry, presence, last_seen, redis, gauges>>

RejectWritten(s) ==
    /\ SetPc(s, {"reject"}, "done")
    /\ UNCHANGED <<sock, heartbeat, registry, presence, last_seen, redis, gauges>>

AuthOk(s) ==
    /\ sock[s] = "open"
    /\ SetPc(s, {"auth"}, "presence")
    /\ registry' = [registry EXCEPT ![Owner[s]] = s]
    /\ active_sessions' = active_sessions + 1
    /\ active_connections' = active_connections + (IF Kind[s] = "ws" THEN 1 ELSE 0)
    /\ UNCHANGED <<sock, heartbeat, presence, last_seen, redis>>

\* SETEX presence:{user} 60.  A command on a broken connection does nothing.
SetPresence(s) ==
    /\ SetPc(s, {"presence"}, IF Kind[s] = "tcp" THEN "ack" ELSE "flush")
    /\ presence' = [presence EXCEPT ![Owner[s]] = @ \/ redis]
    /\ UNCHANGED <<sock, heartbeat, registry, last_seen, redis, gauges>>

AckWritten(s) ==
    /\ sock[s] = "open"
    /\ SetPc(s, {"ack"}, "flush")
    /\ UNCHANGED <<sock, heartbeat, registry, presence, last_seen, redis, gauges>>

\* flush_offline_queue() returns, the heartbeat supervisor starts.
Flush(s) ==
    /\ SetPc(s, {"flush"}, "loop")
    /\ heartbeat' = [heartbeat EXCEPT ![s] = TRUE]
    /\ UNCHANGED <<sock, registry, presence, last_seen, redis, gauges>>

-----------------------------------------------------------------------------
(***************************************************************************)
(* The message loop.                                                       *)
(***************************************************************************)

\* A PING on TCP refreshes the key and is answered by run() itself.  (On a
\* WebSocket it only re-arms the heartbeat and queues a pong: no life change.)
Ping(s) ==
    /\ Kind[s] = "tcp" /\ sock[s] = "open"
    /\ SetPc(s, {"loop"}, "refresh")
    /\ UNCHANGED <<sock, heartbeat, registry, presence, last_seen, redis, gauges>>

\* EXPIRE presence:{user} 60 does not create a missing key.
RefreshPresence(s) ==
    /\ SetPc(s, {"refresh"}, "pong")
    /\ UNCHANGED <<sock, heartbeat, registry, presence, last_seen, redis, gauges>>

\* A CHAT frame the session's TokenBucket refuses: run() writes an ERROR.
RateLimited(s) ==
    /\ Kind[s] = "tcp" /\ sock[s] = "open"
    /\ SetPc(s, {"loop"}, "limited")
    /\ UNCHANGED <<sock, heartbeat, registry, presence, last_seen, redis, gauges>>

ReplyWritten(s) ==
    /\ sock[s] = "open"
    /\ SetPc(s, {"pong", "limited"}, "loop")
    /\ UNCHANGED <<sock, heartbeat, registry, presence, last_seen, redis, gauges>>

\* A handler waits for Postgres ("conv", WebSocket only) or Redis ("push").
Suspend(s, at) ==
    /\ \/ sock[s] = "open" /\ SetPc(s, {"loop"}, at)
       \/ at = "push" /\ SetPc(s, {"conv"}, at)
    /\ at = "conv" => Kind[s] = "ws"
    /\ UNCHANGED <<sock, heartbeat, registry, presence, last_seen, redis, gauges>>

Resume(s) ==
    /\ SetPc(s, {"conv", "push"}, "loop")
    /\ UNCHANGED <<sock, heartbeat, registry, presence, last_seen, redis, gauges>>

\* A CHAT header announcing more than 1 MB: co_return from inside the loop.
Oversize(s) ==
    /\ Kind[s] = "tcp" /\ sock[s] = "open"
    /\ SetPc(s, {"loop"}, "gone")
    /\ UNCHANGED <<sock, heartbeat, registry, presence, last_seen, redis, gauges>>

-----------------------------------------------------------------------------
(***************************************************************************)
(* The end of a connection.                                                *)
(***************************************************************************)

\* Mutants: the entry is not removed; it is removed whoever owns it.
RegistryKeep(u, s) == registry' = registry
RegistryRemoveAny(u, s) == registry' = [registry EXCEPT ![u] = None]

\* SessionRegistry::remove(user, this): only the session's own entry.
RegistryRemove(u, s) ==
    registry' = IF registry[u] = s THEN [registry EXCEPT ![u] = None] ELSE registry

\* The cleanup up to its first co_await.
Cleanup(s) ==
    /\ active_sessions' = active_sessions - 1
    /\ active_connections' = active_connections - 1
    /\ RegistryRemove(Owner[s], s)
    /\ UNCHANGED <<sock, heartbeat, presence, last_seen, redis>>

\* Mutant: an error of a direct write is swallowed.
DisconnectOnReadOnly(s) ==
    /\ sock[s] = "closed"
    /\ SetPc(s, {"loop"}, "cleanup")
    /\ Cleanup(s)

\* A read or a direct write of run() fails.
Disconnect(s) ==
    /\ sock[s] = "closed"
    /\ SetPc(s, {"loop"} \cup DirectWrite, "cleanup")
    /\ Cleanup(s)

\* A WebSocket frame whose JSON has a field of the wrong type: the exception ends
\* run() while the connection is open, and the heartbeat keeps the object.
Malformed(s) ==
    /\ Kind[s] = "ws" /\ sock[s] = "open"
    /\ SetPc(s, {"loop"}, "cleanup")
    /\ Cleanup(s)

\* Mutant: the cleanup forgets the key.
DelPresenceForgotten(s) ==
    /\ SetPc(s, {"cleanup"}, "last_seen")
    /\ UNCHANGED <<sock, heartbeat, registry, presence, last_seen, redis, gauges>>

\* DEL presence:{user}, whoever set it.
DelPresence(s) ==
    /\ SetPc(s, {"cleanup"}, "last_seen")
    /\ presence' = [presence EXCEPT ![Owner[s]] = @ /\ ~redis]
    /\ UNCHANGED <<sock, heartbeat, registry, last_seen, redis, gauges>>

SetLastSeen(s) ==
    /\ SetPc(s, {"last_seen"}, "done")
    /\ last_seen' = [last_seen EXCEPT ![Owner[s]] = @ \/ redis]
    /\ UNCHANGED <<sock, heartbeat, registry, presence, redis, gauges>>

\* The peer closes or the network fails, at any time.
PeerClose(s) ==
    /\ sock[s] = "open" /\ (pc[s] \notin {"idle", "done"} \/ heartbeat[s])
    /\ sock' = [sock EXCEPT ![s] = "closed"]
    /\ UNCHANGED <<pc, heartbeat, registry, presence, last_seen, redis, gauges>>

\* No PING for 30 s: heartbeat_loop() closes the socket and ends.  After run()
\* has ended the loop still waits once more: its cancel only re-arms it.
HeartbeatTimeout(s) ==
    /\ heartbeat[s]
    /\ heartbeat' = [heartbeat EXCEPT ![s] = FALSE]
    /\ sock' = [sock EXCEPT ![s] = "closed"]
    /\ UNCHANGED <<pc, registry, presence, last_seen, redis, gauges>>

\* Redis drops the key when its 60 s are over.
PresenceExpire(u) ==
    /\ presence[u]
    /\ presence' = [presence EXCEPT ![u] = FALSE]
    /\ UNCHANGED <<pc, sock, heartbeat, registry, last_seen, redis, gauges>>

\* The hiredis context enters its error state; nothing ever reconnects it.
RedisFail ==
    /\ redis
    /\ redis' = FALSE
    /\ UNCHANGED <<pc, sock, heartbeat, registry, presence, last_seen, gauges>>

\* What run() does next without waiting for the peer.
RunStep(s) ==
    \/ RejectWritten(s) \/ SetPresence(s) \/ AckWritten(s) \/ Flush(s)
    \/ RefreshPresence(s) \/ ReplyWritten(s) \/ Resume(s)
    \/ Disconnect(s) \/ DelPresence(s) \/ SetLastSeen(s)

\* What the peer or the network makes run() do.
PeerStep(s) ==
    \/ Accept(s) \/ HandshakeOk(s) \/ HandshakeFail(s) \/ AuthFail(s) \/ AuthOk(s)
    \/ Ping(s) \/ RateLimited(s) \/ Oversize(s) \/ Malformed(s)
    \/ \E at \in {"conv", "push"} : Suspend(s, at)
    \/ PeerClose(s) \/ HeartbeatTimeout(s)

LifeNext ==
    \/ \E s \in Sess : RunStep(s) \/ PeerStep(s)
    \/ \E u \in User : PresenceExpire(u)
    \/ RedisFail

LifeSafety == LifeInit /\ [][LifeNext]_lifeVars

-----------------------------------------------------------------------------
(***************************************************************************)
(* Fairness: the io thread resumes every coroutine whose wait is over; a   *)
(* handshake or an AUTH read on a closed socket fails.  Nothing is assumed *)
(* of the peer.                                                            *)
(***************************************************************************)
GiveUp(s) == sock[s] = "closed" /\ (HandshakeFail(s) \/ AuthFail(s))

LifeFairness == \A s \in Sess : WF_lifeVars(RunStep(s)) /\ WF_lifeVars(GiveUp(s))

LifeSpec == LifeSafety /\ LifeFairness

-----------------------------------------------------------------------------
(***************************************************************************)
(* Properties.                                                             *)
(***************************************************************************)

\* The types of the state.
LifeTypeOK ==
    /\ pc \in [Sess -> PC]
    /\ sock \in [Sess -> {"open", "closed"}]
    /\ heartbeat \in [Sess -> BOOLEAN]
    /\ registry \in [User -> Sess \cup {None}]
    /\ presence \in [User -> BOOLEAN]
    /\ last_seen \in [User -> BOOLEAN]
    /\ redis \in BOOLEAN
    /\ active_sessions \in Int
    /\ active_connections \in Int

\* A lookup never hands out a session of another user, one that has not
\* authenticated, or one whose cleanup has begun: an entry is the owner's, and
\* its run() is between insert and remove or has left without the cleanup.
RegistryBacked ==
    \A u \in User : registry[u] # None =>
        /\ Owner[registry[u]] = u
        /\ pc[registry[u]] \in Registered \cup {"gone"}

\* A session leaves the registry only through its own cleanup or because a new
\* connection of the same user takes its place: the late cleanup of an old
\* connection does not unregister the new one (the `expected` argument).
OnlyOwnerUnregisters ==
    [][\A s \in Sess : registry[Owner[s]] = s /\ registry'[Owner[s]] # s =>
          \/ pc'[s] = "cleanup"
          \/ \E t \in Sess : registry'[Owner[s]] = t /\ pc'[t] = "presence"]_lifeVars

\* No phantom presence: while the Redis connection works, a user is announced
\* only if one of the user's connections has announced it and has not run
\* del_presence since.
PresenceBacked ==
    redis => \A u \in User : presence[u] => \E s \in Sess : Owner[s] = u /\ Announced(s)

\* The gauges stay consistent on every path, the leaking ones included: no
\* session is counted whose connection is not, and neither gauge goes negative.
GaugesNested == 0 <= active_sessions /\ active_sessions <= active_connections

\* Once the socket is closed, by the peer or by the heartbeat, run() comes to
\* its end: no wait of run() outlives the connection.
SessionEnds ==
    \A s \in Sess : sock[s] = "closed" ~> pc[s] \in {"done", "gone"}
=============================================================================
