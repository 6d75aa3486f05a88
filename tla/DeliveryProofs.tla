---------------------------- MODULE DeliveryProofs ----------------------------
(***************************************************************************)
(* Theorems about SessionLife and about Delivery, for any number of users, *)
(* connections and messages, in any mix of TCP and WebSocket: the registry *)
(* and presence are backed by connections; a message is for its recipient, *)
(* on its way into the history, in one place at a time, and in order.      *)
(***************************************************************************)
EXTENDS Delivery, SequenceTheorems, FiniteSetTheorems, TLAPS

-----------------------------------------------------------------------------
(***************************************************************************)
(* The life of connections (SessionLife).                                  *)
(***************************************************************************)

\* The inductive invariant: the registry and the presence keys are backed by
\* where the connections' run() are.
LifeInv == LifeTypeOK /\ RegistryBacked /\ PresenceBacked

\* Where run() is when its presence key has been set and not yet deleted.
AnnouncedPc == (Registered \ {"presence"}) \cup {"cleanup", "gone"}

-----------------------------------------------------------------------------
\* run() moves from one wait to the next and touches neither registry nor Redis:
\* a registered session stays registered (or is gone without cleanup), an
\* announced one stays announced.
LEMMA PcMove ==
    ASSUME LifeInv, NEW s \in Sess, NEW to \in PC,
           pc' = [pc EXCEPT ![s] = to],
           pc[s] \in Registered \cup {"gone"} => to \in Registered \cup {"gone"},
           pc[s] \in AnnouncedPc => to \in AnnouncedPc,
           UNCHANGED <<registry, presence, redis>>
    PROVE  pc' \in [Sess -> PC] /\ RegistryBacked' /\ PresenceBacked'
  <1>1. pc \in [Sess -> PC] /\ registry \in [User -> Sess \cup {None}]
    BY DEF LifeInv, LifeTypeOK
  <1>2. pc' \in [Sess -> PC] /\ pc'[s] = to /\ \A t \in Sess \ {s} : pc'[t] = pc[t]
    BY <1>1
  <1>3. RegistryBacked'
    BY <1>1, <1>2 DEF LifeInv, RegistryBacked
  <1>4. \A t \in Sess : Announced(t) => Announced(t)'
    BY <1>2 DEF Announced, AnnouncedPc
  <1>5. PresenceBacked'
    BY <1>4 DEF LifeInv, PresenceBacked
  <1> QED
    BY <1>2, <1>3, <1>5

\* The steps of run() that change nothing but its place, a socket, a heartbeat, a
\* gauge or last_seen.
LEMMA QuietInv ==
    ASSUME LifeInv, NEW s \in Sess,
           \/ Accept(s) \/ HandshakeOk(s) \/ HandshakeFail(s) \/ AuthFail(s)
           \/ RejectWritten(s) \/ AckWritten(s) \/ Flush(s)
           \/ Ping(s) \/ RefreshPresence(s) \/ RateLimited(s) \/ ReplyWritten(s)
           \/ (\E at \in {"conv", "push"} : Suspend(s, at)) \/ Resume(s) \/ Oversize(s)
           \/ SetLastSeen(s)
    PROVE  LifeInv'
  <1>1. UNCHANGED <<registry, presence, redis>>
    BY DEF Accept, HandshakeOk, HandshakeFail, AuthFail, RejectWritten, AckWritten, Flush,
           Ping, RefreshPresence, RateLimited, ReplyWritten, Suspend, Resume, Oversize, SetLastSeen
  <1>2. \E to \in PC :
            /\ pc' = [pc EXCEPT ![s] = to]
            /\ pc[s] \in Registered \cup {"gone"} => to \in Registered \cup {"gone"}
            /\ pc[s] \in AnnouncedPc => to \in AnnouncedPc
    <2>1. CASE Accept(s) \/ HandshakeOk(s) \/ HandshakeFail(s) \/ AuthFail(s) \/ RejectWritten(s)
               \/ SetLastSeen(s)
      BY <2>1 DEF Accept, HandshakeOk, HandshakeFail, AuthFail, RejectWritten, SetLastSeen,
                  SetPc, PC, Registered, AnnouncedPc
    <2>2. CASE AckWritten(s) \/ Flush(s) \/ Ping(s) \/ RefreshPresence(s) \/ RateLimited(s)
               \/ ReplyWritten(s) \/ Resume(s) \/ Oversize(s)
      BY <2>2 DEF AckWritten, Flush, Ping, RefreshPresence, RateLimited, ReplyWritten, Resume, Oversize,
                  SetPc, PC, Registered, AnnouncedPc
    <2>3. CASE \E at \in {"conv", "push"} : Suspend(s, at)
      BY <2>3 DEF Suspend, SetPc, PC, Registered, AnnouncedPc
    <2> QED
      BY <2>1, <2>2, <2>3
  <1>3. pc' \in [Sess -> PC] /\ RegistryBacked' /\ PresenceBacked'
    BY <1>1, <1>2, PcMove
  <1>4. LifeTypeOK'
    <2>0. LifeTypeOK
      BY DEF LifeInv
    <2>1. CASE Accept(s) \/ HandshakeFail(s)
      <3>1. active_connections' \in Int
        BY <2>0, <2>1 DEF LifeTypeOK, Accept, HandshakeFail
      <3>2. UNCHANGED <<sock, heartbeat, last_seen, active_sessions>>
        BY <2>1 DEF Accept, HandshakeFail
      <3> QED
        BY <1>1, <1>3, <2>0, <3>1, <3>2 DEF LifeTypeOK
    <2>2. CASE Flush(s)
      <3>1. heartbeat' \in [Sess -> BOOLEAN]
        BY <2>0, <2>2 DEF LifeTypeOK, Flush
      <3>2. UNCHANGED <<sock, last_seen, gauges>>
        BY <2>2 DEF Flush
      <3> QED
        BY <1>1, <1>3, <2>0, <3>1, <3>2 DEF LifeTypeOK, gauges
    <2>3. CASE SetLastSeen(s)
      <3>1. last_seen' \in [User -> BOOLEAN]
        BY <2>0, <2>3 DEF LifeTypeOK, SetLastSeen
      <3>2. UNCHANGED <<sock, heartbeat, gauges>>
        BY <2>3 DEF SetLastSeen
      <3> QED
        BY <1>1, <1>3, <2>0, <3>1, <3>2 DEF LifeTypeOK, gauges
    <2>4. CASE UNCHANGED <<sock, heartbeat, last_seen, gauges>>
      BY <1>1, <1>3, <2>0, <2>4 DEF LifeTypeOK, gauges
    <2> QED
      BY <2>1, <2>2, <2>3, <2>4
      DEF HandshakeOk, AuthFail, RejectWritten, AckWritten, Ping, RefreshPresence, RateLimited,
          ReplyWritten, Suspend, Resume, Oversize
  <1> QED
    BY <1>3, <1>4 DEF LifeInv

\* AUTH succeeds: the new connection takes the registry entry.
LEMMA AuthOkInv ==
    ASSUME LifeInv, NEW s \in Sess, AuthOk(s)
    PROVE  LifeInv'
  <1>1. /\ pc[s] = "auth" /\ pc' = [pc EXCEPT ![s] = "presence"]
        /\ registry' = [registry EXCEPT ![Owner[s]] = s]
        /\ UNCHANGED <<presence, redis>>
    BY DEF AuthOk, SetPc
  <1>2. pc \in [Sess -> PC] /\ registry \in [User -> Sess \cup {None}] /\ Owner[s] \in User
    BY SessionAssumption DEF LifeInv, LifeTypeOK
  <1>3. pc'[s] = "presence" /\ \A t \in Sess \ {s} : pc'[t] = pc[t]
    BY <1>1, <1>2
  <1>4. RegistryBacked'
    BY <1>1, <1>2, <1>3, SessionAssumption DEF LifeInv, RegistryBacked, Registered
  <1>5. PresenceBacked'
    <2>1. \A t \in Sess : Announced(t) => Announced(t)'
      BY <1>1, <1>3 DEF Announced, Registered
    <2> QED
      BY <1>1, <2>1 DEF LifeInv, PresenceBacked
  <1>6. LifeTypeOK'
    BY <1>1, <1>2, SessionAssumption DEF LifeInv, LifeTypeOK, AuthOk, PC, Registered
  <1> QED
    BY <1>4, <1>5, <1>6 DEF LifeInv

\* The presence key is set: s announces its user.
LEMMA SetPresenceInv ==
    ASSUME LifeInv, NEW s \in Sess, SetPresence(s)
    PROVE  LifeInv'
  <1>1. PICK to \in {"ack", "flush"} :
            /\ pc[s] = "presence" /\ pc' = [pc EXCEPT ![s] = to]
            /\ presence' = [presence EXCEPT ![Owner[s]] = @ \/ redis]
            /\ UNCHANGED <<sock, heartbeat, registry, last_seen, redis, gauges>>
    BY DEF SetPresence, SetPc
  <1>2. /\ pc \in [Sess -> PC] /\ registry \in [User -> Sess \cup {None}]
        /\ presence \in [User -> BOOLEAN] /\ Owner[s] \in User
    BY SessionAssumption DEF LifeInv, LifeTypeOK
  <1>3. pc'[s] = to /\ \A t \in Sess \ {s} : pc'[t] = pc[t]
    BY <1>1, <1>2
  <1>4. RegistryBacked'
    BY <1>1, <1>2, <1>3 DEF LifeInv, RegistryBacked, Registered
  <1>5. PresenceBacked'
    <2>1. Announced(s)' /\ \A t \in Sess : Announced(t) => Announced(t)'
      BY <1>1, <1>3 DEF Announced, Registered
    <2>2. \A u \in User \ {Owner[s]} : presence'[u] = presence[u]
      BY <1>1, <1>2
    <2> QED
      BY <1>1, <2>1, <2>2 DEF LifeInv, PresenceBacked
  <1>6. LifeTypeOK'
    BY <1>1, <1>2 DEF LifeInv, LifeTypeOK, gauges, PC, Registered
  <1> QED
    BY <1>4, <1>5, <1>6 DEF LifeInv

\* The cleanup begins: the entry of this connection goes, another's stays.
LEMMA DisconnectInv ==
    ASSUME LifeInv, NEW s \in Sess, Disconnect(s) \/ Malformed(s)
    PROVE  LifeInv'
  <1>1. /\ pc[s] \in {"loop"} \cup DirectWrite /\ pc' = [pc EXCEPT ![s] = "cleanup"]
        /\ registry' = IF registry[Owner[s]] = s THEN [registry EXCEPT ![Owner[s]] = None] ELSE registry
        /\ UNCHANGED <<sock, heartbeat, presence, last_seen, redis>>
    BY DEF Disconnect, Malformed, Cleanup, SetPc, RegistryRemove
  <1>2. /\ pc \in [Sess -> PC] /\ registry \in [User -> Sess \cup {None}] /\ Owner[s] \in User
    BY SessionAssumption DEF LifeInv, LifeTypeOK
  <1>3. pc'[s] = "cleanup" /\ \A t \in Sess \ {s} : pc'[t] = pc[t]
    BY <1>1, <1>2
  <1>4. \A u \in User : registry'[u] # None => registry'[u] = registry[u] /\ registry[u] # s
    BY <1>1, <1>2 DEF LifeInv, RegistryBacked
  <1>5. RegistryBacked'
    BY <1>2, <1>3, <1>4 DEF LifeInv, RegistryBacked
  <1>6. PresenceBacked'
    <2>1. \A t \in Sess : Announced(t) => Announced(t)'
      BY <1>1, <1>3 DEF Announced
    <2> QED
      BY <1>1, <2>1 DEF LifeInv, PresenceBacked
  <1>7. LifeTypeOK'
    BY <1>1, <1>2 DEF LifeInv, LifeTypeOK, Disconnect, Malformed, Cleanup, PC
  <1> QED
    BY <1>5, <1>6, <1>7 DEF LifeInv

\* The key is deleted, and s no longer stands behind it.
LEMMA DelPresenceInv ==
    ASSUME LifeInv, NEW s \in Sess, DelPresence(s)
    PROVE  LifeInv'
  <1>1. /\ pc[s] = "cleanup" /\ pc' = [pc EXCEPT ![s] = "last_seen"]
        /\ presence' = [presence EXCEPT ![Owner[s]] = @ /\ ~redis]
        /\ UNCHANGED <<sock, heartbeat, registry, last_seen, redis, gauges>>
    BY DEF DelPresence, SetPc
  <1>2. /\ pc \in [Sess -> PC] /\ registry \in [User -> Sess \cup {None}]
        /\ presence \in [User -> BOOLEAN] /\ Owner[s] \in User
    BY SessionAssumption DEF LifeInv, LifeTypeOK
  <1>3. pc'[s] = "last_seen" /\ \A t \in Sess \ {s} : pc'[t] = pc[t]
    BY <1>1, <1>2
  <1>4. RegistryBacked'
    BY <1>1, <1>2, <1>3 DEF LifeInv, RegistryBacked, Registered
  <1>5. PresenceBacked'
    <2>1. \A t \in Sess \ {s} : Announced(t) => Announced(t)'
      BY <1>3 DEF Announced
    <2>2. /\ \A u \in User \ {Owner[s]} : presence'[u] = presence[u]
          /\ redis => ~presence'[Owner[s]]
      BY <1>1, <1>2
    <2> QED
      BY <1>1, <2>1, <2>2 DEF LifeInv, PresenceBacked
  <1>6. LifeTypeOK'
    BY <1>1, <1>2 DEF LifeInv, LifeTypeOK, gauges, PC
  <1> QED
    BY <1>4, <1>5, <1>6 DEF LifeInv

\* The peer, the heartbeat, the TTL and the Redis connection.
LEMMA EnvironmentInv ==
    ASSUME LifeInv,
           \/ \E s \in Sess : PeerClose(s) \/ HeartbeatTimeout(s)
           \/ \E u \in User : PresenceExpire(u)
           \/ RedisFail
    PROVE  LifeInv'
  <1>1. pc' = pc /\ registry' = registry /\ (redis' => redis)
    BY DEF PeerClose, HeartbeatTimeout, PresenceExpire, RedisFail
  <1>2. \A u \in User : presence'[u] => presence[u]
    BY DEF PeerClose, HeartbeatTimeout, PresenceExpire, RedisFail, LifeInv, LifeTypeOK
  <1>3. RegistryBacked'
    BY <1>1 DEF LifeInv, RegistryBacked
  <1>4. PresenceBacked'
    BY <1>1, <1>2 DEF LifeInv, PresenceBacked, Announced
  <1>5. LifeTypeOK'
    BY DEF LifeInv, LifeTypeOK, gauges, PeerClose, HeartbeatTimeout, PresenceExpire, RedisFail
  <1> QED
    BY <1>3, <1>4, <1>5 DEF LifeInv

\* Every step keeps the invariant.
LEMMA LifeInvStep ==
    ASSUME LifeInv, [LifeNext]_lifeVars
    PROVE  LifeInv'
  <1>1. CASE UNCHANGED lifeVars
    BY <1>1 DEF lifeVars, LifeInv, LifeTypeOK, RegistryBacked, PresenceBacked, Announced
  <1>2. ASSUME NEW s \in Sess, RunStep(s)
        PROVE  LifeInv'
    BY <1>2, QuietInv, SetPresenceInv, DisconnectInv, DelPresenceInv DEF RunStep
  <1>3. ASSUME NEW s \in Sess, PeerStep(s)
        PROVE  LifeInv'
    BY <1>3, QuietInv, AuthOkInv, DisconnectInv, EnvironmentInv DEF PeerStep
  <1> QED
    BY <1>1, <1>2, <1>3, EnvironmentInv DEF LifeNext

\* Initially nobody is connected.
LEMMA LifeInitInv ==
    ASSUME LifeInit
    PROVE  LifeInv
  <1>1. LifeTypeOK
    BY DEF LifeInit, LifeTypeOK, PC
  <1>2. RegistryBacked /\ PresenceBacked
    BY DEF LifeInit, RegistryBacked, PresenceBacked
  <1> QED
    BY <1>1, <1>2 DEF LifeInv

-----------------------------------------------------------------------------
\* The types of the state.
THEOREM LifeTypes == LifeSafety => []LifeTypeOK
  <1>1. LifeInv => LifeTypeOK
    BY DEF LifeInv
  <1> QED
    BY <1>1, LifeInitInv, LifeInvStep, PTL DEF LifeSafety

\* A lookup never hands out a session that is not the user's, has not
\* authenticated or has begun its cleanup.
THEOREM RegistrySound == LifeSafety => []RegistryBacked
  <1>1. LifeInv => RegistryBacked
    BY DEF LifeInv
  <1> QED
    BY <1>1, LifeInitInv, LifeInvStep, PTL DEF LifeSafety

\* While Redis works there is no presence key without a connection behind it.
THEOREM PresenceSound == LifeSafety => []PresenceBacked
  <1>1. LifeInv => PresenceBacked
    BY DEF LifeInv
  <1> QED
    BY <1>1, LifeInitInv, LifeInvStep, PTL DEF LifeSafety

\* A session leaves the registry only by its own cleanup or for a successor.
THEOREM RegistryOwnership == LifeSafety => OnlyOwnerUnregisters
  <1> DEFINE Kept ==
        \A s \in Sess : registry[Owner[s]] = s /\ registry'[Owner[s]] # s =>
            \/ pc'[s] = "cleanup"
            \/ \E t \in Sess : registry'[Owner[s]] = t /\ pc'[t] = "presence"
  <1>1. LifeInv /\ [LifeNext]_lifeVars => [Kept]_lifeVars
    <2> SUFFICES ASSUME LifeInv, LifeNext PROVE Kept
      OBVIOUS
    <2>0. pc \in [Sess -> PC] /\ registry \in [User -> Sess \cup {None}]
      BY DEF LifeInv, LifeTypeOK
    <2>1. CASE registry' = registry
      BY <2>1
    <2>2. ASSUME NEW s \in Sess, AuthOk(s)
          PROVE  Kept
      BY <2>0, <2>2, SessionAssumption DEF AuthOk, SetPc
    <2>3. ASSUME NEW s \in Sess, Disconnect(s) \/ Malformed(s)
          PROVE  Kept
      BY <2>0, <2>3, SessionAssumption DEF Disconnect, Malformed, Cleanup, SetPc, RegistryRemove
    <2>4. \/ registry' = registry
          \/ \E s \in Sess : AuthOk(s) \/ Disconnect(s) \/ Malformed(s)
      BY DEF LifeNext, RunStep, PeerStep,
             Accept, HandshakeOk, HandshakeFail, AuthFail, RejectWritten, SetPresence, AckWritten, Flush,
             Ping, RefreshPresence, RateLimited, ReplyWritten, Suspend, Resume, Oversize,
             DelPresence, SetLastSeen, PeerClose, HeartbeatTimeout, PresenceExpire, RedisFail
    <2> QED
      BY <2>1, <2>2, <2>3, <2>4
  <1> QED
    BY <1>1, LifeInitInv, LifeInvStep, PTL DEF LifeSafety, OnlyOwnerUnregisters

-----------------------------------------------------------------------------
(***************************************************************************)
(* The gauges.                                                             *)
(***************************************************************************)

\* Where run() is while the gauges count its session, and its connection: of a TCP
\* connection from the accept on.  A rejected connection stays counted, which is why
\* active_connections is only bounded from below.
ActivePc == Registered \cup {"gone"}
CountedPc(s) ==
    ActivePc \cup (IF Kind[s] = "tcp" THEN {"handshake", "auth", "reject"} ELSE {})
ActiveSet == {s \in Sess : pc[s] \in ActivePc}
CountedSet == {s \in Sess : pc[s] \in CountedPc(s)}

\* What a connection whose run() is at p adds to the one and to the other.
AsSession(p) == IF p \in ActivePc THEN 1 ELSE 0
AsConnection(s, p) == IF p \in CountedPc(s) THEN 1 ELSE 0

\* active_sessions is exact; active_connections also has the connections that leak.
GaugeInv ==
    /\ IsFiniteSet(CountedSet)
    /\ active_sessions = Cardinality(ActiveSet)
    /\ active_connections >= Cardinality(CountedSet)

\* The connections that are counted as sessions are among those that are counted.
LEMMA GaugesFit ==
    ASSUME GaugeInv, active_connections \in Int
    PROVE  GaugesNested
  <1>1. ActiveSet \subseteq CountedSet
    BY DEF ActiveSet, CountedSet, CountedPc
  <1>2. IsFiniteSet(ActiveSet) /\ Cardinality(ActiveSet) <= Cardinality(CountedSet)
    BY <1>1, FS_Subset DEF GaugeInv
  <1>3. Cardinality(ActiveSet) \in Nat /\ Cardinality(CountedSet) \in Nat
    BY <1>2, FS_CardinalityType DEF GaugeInv
  <1> QED
    BY <1>2, <1>3 DEF GaugeInv, GaugesNested

\* run() moves, and what it does to the gauges is what the move does to the sets.
LEMMA GaugeMove ==
    ASSUME GaugeInv, pc \in [Sess -> PC], NEW s \in Sess, NEW to,
           pc' = [pc EXCEPT ![s] = to],
           active_sessions' = active_sessions + AsSession(to) - AsSession(pc[s]),
           active_connections \in Int, active_connections' \in Int,
           active_connections' >= active_connections + AsConnection(s, to)
                                                     - AsConnection(s, pc[s])
    PROVE  GaugeInv'
  <1>1. pc'[s] = to /\ \A t \in Sess \ {s} : pc'[t] = pc[t]
    OBVIOUS
  <1>2. ActiveSet' = IF to \in ActivePc THEN ActiveSet \cup {s} ELSE ActiveSet \ {s}
    BY <1>1 DEF ActiveSet
  <1>3. CountedSet' = IF to \in CountedPc(s) THEN CountedSet \cup {s} ELSE CountedSet \ {s}
    BY <1>1 DEF CountedSet, CountedPc
  <1>4. (s \in ActiveSet <=> pc[s] \in ActivePc) /\ (s \in CountedSet <=> pc[s] \in CountedPc(s))
    BY DEF ActiveSet, CountedSet
  <1>5. IsFiniteSet(ActiveSet)
    <2>1. ActiveSet \subseteq CountedSet
      BY DEF ActiveSet, CountedSet, CountedPc
    <2> QED
      BY <2>1, FS_Subset DEF GaugeInv
  <1>6. Cardinality(ActiveSet) \in Nat /\ Cardinality(CountedSet) \in Nat
    BY <1>5, FS_CardinalityType DEF GaugeInv
  <1>7. Cardinality(ActiveSet') = Cardinality(ActiveSet) + AsSession(to) - AsSession(pc[s])
    <2>1. CASE to \in ActivePc
      <3>1. Cardinality(ActiveSet') =
              IF s \in ActiveSet THEN Cardinality(ActiveSet) ELSE Cardinality(ActiveSet) + 1
        BY <1>2, <1>5, <2>1, FS_AddElement
      <3> QED
        BY <1>4, <1>6, <2>1, <3>1 DEF AsSession
    <2>2. CASE to \notin ActivePc
      <3>1. Cardinality(ActiveSet') =
              IF s \in ActiveSet THEN Cardinality(ActiveSet) - 1 ELSE Cardinality(ActiveSet)
        BY <1>2, <1>5, <2>2, FS_RemoveElement
      <3> QED
        BY <1>4, <1>6, <2>2, <3>1 DEF AsSession
    <2> QED
      BY <2>1, <2>2
  <1>8. /\ IsFiniteSet(CountedSet')
        /\ Cardinality(CountedSet') =
              Cardinality(CountedSet) + AsConnection(s, to) - AsConnection(s, pc[s])
    <2>0. IsFiniteSet(CountedSet)
      BY DEF GaugeInv
    <2>1. CASE to \in CountedPc(s)
      <3>1. /\ IsFiniteSet(CountedSet')
            /\ Cardinality(CountedSet') =
                 IF s \in CountedSet THEN Cardinality(CountedSet) ELSE Cardinality(CountedSet) + 1
        BY <1>3, <2>0, <2>1, FS_AddElement
      <3> QED
        BY <1>4, <1>6, <2>1, <3>1 DEF AsConnection
    <2>2. CASE to \notin CountedPc(s)
      <3>1. /\ IsFiniteSet(CountedSet')
            /\ Cardinality(CountedSet') =
                 IF s \in CountedSet THEN Cardinality(CountedSet) - 1 ELSE Cardinality(CountedSet)
        BY <1>3, <2>0, <2>2, FS_RemoveElement
      <3> QED
        BY <1>4, <1>6, <2>2, <3>1 DEF AsConnection
    <2> QED
      BY <2>1, <2>2
  <1>9. active_sessions' = Cardinality(ActiveSet')
    BY <1>7 DEF GaugeInv
  <1>10. active_connections' >= Cardinality(CountedSet')
    BY <1>6, <1>8 DEF GaugeInv, AsConnection
  <1> QED
    BY <1>8, <1>9, <1>10 DEF GaugeInv

\* Connecting: the accept counts a TCP connection, AUTH a session and a WebSocket.
LEMMA ConnectGauge ==
    ASSUME GaugeInv, LifeInv, LifeInv', NEW s \in Sess,
           \/ Accept(s) \/ HandshakeOk(s) \/ HandshakeFail(s) \/ AuthFail(s)
           \/ RejectWritten(s) \/ AuthOk(s)
    PROVE  GaugeInv'
  <1>1. /\ pc \in [Sess -> PC] /\ active_sessions \in Int /\ active_connections \in Int
        /\ active_connections' \in Int /\ Kind[s] \in {"tcp", "ws"}
    BY SessionAssumption DEF LifeInv, LifeTypeOK
  <1>2. CASE Accept(s)
    <2>1. pc[s] = "idle" /\ pc' = [pc EXCEPT ![s] = "handshake"]
      BY <1>2 DEF Accept, SetPc
    <2>2. active_sessions' = active_sessions + AsSession("handshake") - AsSession(pc[s])
      BY <1>1, <1>2, <2>1 DEF Accept, AsSession, ActivePc, Registered
    <2>3. active_connections' >= active_connections + AsConnection(s, "handshake")
                                                     - AsConnection(s, pc[s])
      BY <1>1, <1>2, <2>1 DEF Accept, AsConnection, CountedPc, ActivePc, Registered
    <2> QED
      BY <1>1, <2>1, <2>2, <2>3, GaugeMove
  <1>3. CASE HandshakeFail(s)
    <2>1. pc[s] = "handshake" /\ pc' = [pc EXCEPT ![s] = "done"]
      BY <1>3 DEF HandshakeFail, SetPc
    <2>2. active_sessions' = active_sessions + AsSession("done") - AsSession(pc[s])
      BY <1>1, <1>3, <2>1 DEF HandshakeFail, AsSession, ActivePc, Registered
    <2>3. active_connections' >= active_connections + AsConnection(s, "done")
                                                     - AsConnection(s, pc[s])
      BY <1>1, <1>3, <2>1 DEF HandshakeFail, AsConnection, CountedPc, ActivePc, Registered
    <2> QED
      BY <1>1, <2>1, <2>2, <2>3, GaugeMove
  <1>4. CASE AuthOk(s)
    <2>1. pc[s] = "auth" /\ pc' = [pc EXCEPT ![s] = "presence"]
      BY <1>4 DEF AuthOk, SetPc
    <2>2. active_sessions' = active_sessions + AsSession("presence") - AsSession(pc[s])
      BY <1>1, <1>4, <2>1 DEF AuthOk, AsSession, ActivePc, Registered
    <2>3. active_connections' >= active_connections + AsConnection(s, "presence")
                                                     - AsConnection(s, pc[s])
      BY <1>1, <1>4, <2>1 DEF AuthOk, AsConnection, CountedPc, ActivePc, Registered
    <2> QED
      BY <1>1, <2>1, <2>2, <2>3, GaugeMove
  <1>5. CASE HandshakeOk(s) \/ AuthFail(s) \/ RejectWritten(s)
    <2>1. PICK to \in {"auth", "done", "reject"} :
             /\ pc' = [pc EXCEPT ![s] = to]
             /\ pc[s] \in {"handshake", "auth", "reject"}
             /\ UNCHANGED <<active_sessions, active_connections>>
      BY <1>5 DEF HandshakeOk, AuthFail, RejectWritten, SetPc, gauges
    <2>2. to \notin ActivePc /\ pc[s] \notin ActivePc
      BY <2>1 DEF ActivePc, Registered
    <2>3. to \in CountedPc(s) => pc[s] \in CountedPc(s)
      BY <2>1 DEF ActivePc, CountedPc, Registered
    <2> QED
      <3>1. active_sessions' = active_sessions + AsSession(to) - AsSession(pc[s])
        BY <1>1, <2>1, <2>2 DEF AsSession
      <3>2. active_connections' >= active_connections + AsConnection(s, to)
                                                      - AsConnection(s, pc[s])
        BY <1>1, <2>1, <2>3 DEF AsConnection
      <3> QED
        BY <1>1, <2>1, <3>1, <3>2, GaugeMove
  <1> QED
    BY <1>2, <1>3, <1>4, <1>5

\* Between AUTH and the cleanup run() stays counted, also when it leaves without one;
\* the cleanup takes both gauges down, once.
LEMMA RunningGauge ==
    ASSUME GaugeInv, LifeInv, LifeInv', NEW s \in Sess,
           \/ SetPresence(s) \/ AckWritten(s) \/ Flush(s) \/ Ping(s) \/ RefreshPresence(s)
           \/ RateLimited(s) \/ ReplyWritten(s) \/ Resume(s) \/ Oversize(s)
           \/ (\E at \in {"conv", "push"} : Suspend(s, at))
           \/ Disconnect(s) \/ Malformed(s) \/ DelPresence(s) \/ SetLastSeen(s)
    PROVE  GaugeInv'
  <1>1. /\ pc \in [Sess -> PC] /\ active_sessions \in Int /\ active_connections \in Int
        /\ active_connections' \in Int
    BY DEF LifeInv, LifeTypeOK
  <1>2. CASE Disconnect(s) \/ Malformed(s)
    <2>1. /\ pc[s] \in ActivePc /\ pc' = [pc EXCEPT ![s] = "cleanup"]
          /\ active_sessions' = active_sessions - 1
          /\ active_connections' = active_connections - 1
      BY <1>2 DEF Disconnect, Malformed, Cleanup, SetPc, DirectWrite, ActivePc, Registered
    <2>2. "cleanup" \notin CountedPc(s) /\ "cleanup" \notin ActivePc /\ pc[s] \in CountedPc(s)
      BY <2>1 DEF CountedPc, ActivePc, Registered
    <2> QED
      <3>1. active_sessions' = active_sessions + AsSession("cleanup") - AsSession(pc[s])
        BY <1>1, <2>1, <2>2 DEF AsSession
      <3>2. active_connections' >= active_connections + AsConnection(s, "cleanup")
                                                     - AsConnection(s, pc[s])
        BY <1>1, <2>1, <2>2 DEF AsConnection
      <3> QED
        BY <1>1, <2>1, <3>1, <3>2, GaugeMove
  <1>3. CASE DelPresence(s) \/ SetLastSeen(s)
    <2>1. PICK to \in {"last_seen", "done"} :
             /\ pc' = [pc EXCEPT ![s] = to]
             /\ pc[s] \in {"cleanup", "last_seen"}
             /\ UNCHANGED <<active_sessions, active_connections>>
      BY <1>3 DEF DelPresence, SetLastSeen, SetPc, gauges
    <2>2. {to, pc[s]} \cap ActivePc = {} /\ {to, pc[s]} \cap CountedPc(s) = {}
      BY <2>1 DEF CountedPc, ActivePc, Registered
    <2> QED
      <3>1. active_sessions' = active_sessions + AsSession(to) - AsSession(pc[s])
        BY <1>1, <2>1, <2>2 DEF AsSession
      <3>2. active_connections' >= active_connections + AsConnection(s, to)
                                                     - AsConnection(s, pc[s])
        BY <1>1, <2>1, <2>2 DEF AsConnection
      <3> QED
        BY <1>1, <2>1, <3>1, <3>2, GaugeMove
  <1>4. CASE ~(Disconnect(s) \/ Malformed(s) \/ DelPresence(s) \/ SetLastSeen(s))
    <2>1. PICK to \in ActivePc :
             /\ pc' = [pc EXCEPT ![s] = to]
             /\ pc[s] \in ActivePc
             /\ UNCHANGED <<active_sessions, active_connections>>
      BY <1>4 DEF SetPresence, AckWritten, Flush, Ping, RefreshPresence, RateLimited,
           ReplyWritten, Resume, Oversize, Suspend, SetPc, gauges, ActivePc, Registered
    <2>2. {to, pc[s]} \subseteq CountedPc(s)
      BY <2>1 DEF CountedPc
    <2> QED
      <3>1. active_sessions' = active_sessions + AsSession(to) - AsSession(pc[s])
        BY <1>1, <2>1, <2>2 DEF AsSession
      <3>2. active_connections' >= active_connections + AsConnection(s, to)
                                                     - AsConnection(s, pc[s])
        BY <1>1, <2>1, <2>2 DEF AsConnection
      <3> QED
        BY <1>1, <2>1, <3>1, <3>2, GaugeMove
  <1> QED
    BY <1>2, <1>3, <1>4

\* Every step.
LEMMA GaugeStep == GaugeInv /\ LifeInv /\ LifeInv' /\ [LifeNext]_lifeVars => GaugeInv'
  <1> SUFFICES ASSUME GaugeInv, LifeInv, LifeInv', [LifeNext]_lifeVars PROVE GaugeInv'
    OBVIOUS
  <1>1. CASE UNCHANGED <<pc, gauges>>
    BY <1>1 DEF GaugeInv, ActiveSet, CountedSet, gauges
  <1>2. ASSUME NEW s \in Sess, RunStep(s)
        PROVE  GaugeInv'
    BY <1>2, ConnectGauge, RunningGauge DEF RunStep
  <1>3. ASSUME NEW s \in Sess, PeerStep(s)
        PROVE  GaugeInv'
    <2>1. CASE PeerClose(s) \/ HeartbeatTimeout(s)
      BY <1>1, <2>1 DEF PeerClose, HeartbeatTimeout
    <2> QED
      BY <1>3, <2>1, ConnectGauge, RunningGauge DEF PeerStep
  <1> QED
    BY <1>1, <1>2, <1>3 DEF LifeNext, PresenceExpire, RedisFail, lifeVars, gauges

\* On every path of run(), those that leave without the cleanup or without a count
\* included, no gauge goes negative and no session is counted without its connection
\* (Metrics, TcpServer::listen, run() of both session classes).
THEOREM GaugesSound == LifeSafety => []GaugesNested
  <1>1. LifeInit => GaugeInv
    <2> SUFFICES ASSUME LifeInit PROVE GaugeInv
      OBVIOUS
    <2>1. ActiveSet = {} /\ CountedSet = {}
      BY DEF LifeInit, ActiveSet, CountedSet, CountedPc, ActivePc, Registered
    <2> QED
      BY <2>1, FS_EmptySet DEF LifeInit, GaugeInv
  <1>2. LifeInv /\ GaugeInv => GaugesNested
    BY GaugesFit DEF LifeInv, LifeTypeOK
  <1> QED
    BY <1>1, <1>2, LifeInitInv, LifeInvStep, GaugeStep, PTL DEF LifeSafety

-----------------------------------------------------------------------------
(***************************************************************************)
(* The invariants of Delivery.                                             *)
(***************************************************************************)

\* The messages among the frames of a queue.
Mail(q) == {m \in Msg : \E i \in DOMAIN q : q[i] = Chat(m)}

\* The messages on the strand of t, in its write queue and with its peer.
Has(t) == Mail(posted[t]) \cup Mail(pending[t]) \cup Mail(out[t])

\* The messages of a Redis list, and the frames made of them.
Listed(q) == {q[i] : i \in DOMAIN q}
Items(q) == [i \in DOMAIN q |-> Chat(q[i])]

\* Pairs of messages of one sending connection that took the same way; a message is
\* of the same kin as itself.
Kin == {k \in (1 .. Len(sent)) \X (1 .. Len(sent)) :
           /\ sent[k[1]].by = sent[k[2]].by
           /\ WentOffline(k[1]) = WentOffline(k[2])}

\* Messages of the same kin are in order in q; everything in p is older than what
\* is of its kin in q.  (So a message is not twice in q, and not in both.)
Sorted(q, K) ==
    \A i, j \in DOMAIN q : \A m, n \in Msg :
        i < j /\ q[i] = Chat(m) /\ q[j] = Chat(n) /\ <<m, n>> \in K => m < n
Older(A, B, K) == \A m \in A, n \in B : <<m, n>> \in K => m < n

\* The way of a connection's frames: to the peer, in the write queue, on the strand.
Line(o, p, q, K) ==
    /\ Sorted(o, K) /\ Sorted(p, K) /\ Sorted(q, K)
    /\ Older(Mail(o), Mail(p), K) /\ Older(Mail(o), Mail(q), K) /\ Older(Mail(p), Mail(q), K)

\* The types, and what the handlers hold while they wait.
MsgTypes ==
    /\ sent \in Seq([by : Sess, to : User]) /\ Len(sent) <= MaxMsg
    /\ DOMAIN job = Sess
    /\ \A s \in Sess : pc[s] = "push" => \E m \in 1 .. Len(sent) : job[s] = <<m>>
    /\ \A s \in Sess : pc[s] = "conv" => \E u \in User : job[s] = <<u>>
    /\ posted \in [Sess -> Seq(Frame)] /\ pending \in [Sess -> Seq(Frame)]
    /\ out \in [Sess -> Seq(Frame)] /\ offline \in [User -> Seq(Msg)]
    /\ spawned \subseteq Detached \X Msg

\* The frames on the strand of t, in its write queue and with its peer.
Held(t) == Listed(posted[t]) \cup Listed(pending[t]) \cup Listed(out[t])

\* RightRecipient, for the frames F of connection s when S has been sent.
Addressed(F, s, S) ==
    \A m \in Msg :
        /\ Chat(m) \in F => m <= Len(S) /\ S[m].to = Owner[s]
        /\ Delivered(m) \in F => m <= Len(S) /\ Owner[S[m].by] = Owner[s]
AddressInv ==
    /\ \A s \in Sess : Addressed(Held(s), s, sent)
    /\ \A u \in User : \A m \in Listed(offline[u]) : m <= Len(sent) /\ sent[m].to = u

\* A message has one place, and while its sender pushes it, it has no other; it is
\* then the last one of that sender.
OnePlace == \A s, t \in Sess : s # t => Has(s) \cap Has(t) = {}
PushAlone ==
    \A s \in Sess, m \in Msg : pc[s] = "push" /\ job[s] = <<m>> =>
        /\ \A t \in Sess : m \notin Has(t)
        /\ \A u \in User : m \notin Listed(offline[u])
        /\ ~WentOffline(m) /\ sent[m].by = s
        /\ \A n \in 1 .. Len(sent) : sent[n].by = s => n <= m
ListApart == redis => \A u \in User, t \in Sess : Listed(offline[u]) \cap Has(t) = {}
PlaceInv == OnePlace /\ PushAlone /\ ListApart

\* Order on the way of a connection and in the lists.  What is drained from a list
\* comes after what was drained earlier, and is of no kin of what comes live.
MarksSent == \A m \in Msg : WentOffline(m) => m <= Len(sent)
LinesOrdered == \A s \in Sess : Line(out[s], pending[s], posted[s], Kin)
ListsOrdered == \A u \in User : Sorted(Items(offline[u]), Kin)
PostedLive == \A s \in Sess : \A m \in Mail(posted[s]) : ~WentOffline(m)
ListedMarked == \A u \in User : \A m \in Listed(offline[u]) : WentOffline(m)
DrainOrdered ==
    redis => \A s \in Sess :
        Older(Mail(out[s]) \cup Mail(pending[s]), Listed(offline[Owner[s]]), Kin)
OrderInv == /\ MarksSent /\ LinesOrdered /\ ListsOrdered
            /\ PostedLive /\ ListedMarked /\ DrainOrdered

\* The inductive invariant.
DeliveryInv ==
    LifeInv /\ MsgTypes /\ HistoryComplete /\ AddressInv /\ PlaceInv /\ OrderInv
-----------------------------------------------------------------------------
(***************************************************************************)
(* Delivery's steps keep the invariant of SessionLife.                     *)
(***************************************************************************)

\* The Redis connection breaks while the list is drained.
LEMMA FlushBrokenLife ==
    ASSUME LifeInv, NEW s \in Sess, FlushBroken(s)
    PROVE  LifeInv'
  <1>1. /\ pc[s] = "flush" /\ pc' = [pc EXCEPT ![s] = "loop"] /\ redis' = FALSE
        /\ heartbeat' = [heartbeat EXCEPT ![s] = TRUE]
        /\ UNCHANGED <<sock, registry, presence, last_seen, active_sessions, active_connections>>
    BY DEF FlushBroken, SetPc, gauges
  <1>2. pc' \in [Sess -> PC] /\ pc'[s] = "loop" /\ \A t \in Sess \ {s} : pc'[t] = pc[t]
    BY <1>1 DEF LifeInv, LifeTypeOK, PC, Registered
  <1>3. RegistryBacked'
    BY <1>1, <1>2 DEF LifeInv, LifeTypeOK, RegistryBacked, Registered
  <1>4. PresenceBacked'
    BY <1>1 DEF PresenceBacked
  <1>5. LifeTypeOK'
    BY <1>1, <1>2 DEF LifeInv, LifeTypeOK
  <1> QED
    BY <1>3, <1>4, <1>5 DEF LifeInv

\* Every step of Delivery but that one is, for the connections, one of SessionLife.
LEMMA DeliveryLife ==
    ASSUME LifeInv, [Next]_vars
    PROVE  LifeInv'
  <1>1. ASSUME NEW s \in Sess, QuietStep(s) PROVE [LifeNext]_lifeVars
    BY <1>1 DEF QuietStep, LifeNext, RunStep, PeerStep
  <1>2. ASSUME NEW s \in Sess, HandlerStep(s), ~FlushBroken(s) PROVE [LifeNext]_lifeVars
    <2>1. ASSUME NEW to \in User, RouteTcp(s, to) PROVE [LifeNext]_lifeVars
      <3>1. lifeVars' = lifeVars \/ Suspend(s, "push")
        BY <2>1 DEF RouteTcp
      <3> QED
        BY <3>1 DEF LifeNext, PeerStep
    <2>2. ASSUME NEW to \in User, ResolveWs(s, to) PROVE [LifeNext]_lifeVars
      BY <2>2 DEF ResolveWs, LifeNext, PeerStep
    <2>3. CASE ResolveFails(s) \/ Push(s)
      BY <2>3 DEF ResolveFails, Push, LifeNext, RunStep
    <2>4. CASE RouteWs(s)
      <3>1. Resume(s) \/ Suspend(s, "push")
        BY <2>4 DEF RouteWs
      <3> QED
        BY <3>1 DEF LifeNext, RunStep, PeerStep
    <2>5. CASE PingWs(s)
      BY <2>5 DEF PingWs
    <2>6. CASE FlushOffline(s)
      BY <2>6 DEF FlushOffline, LifeNext, RunStep
    <2> QED
      BY <1>2, <2>1, <2>2, <2>3, <2>4, <2>5, <2>6 DEF HandlerStep
  <1>3. ASSUME NEW s \in Sess, RunPosted(s) \/ Transmit(s) \/ Drop(s) PROVE [LifeNext]_lifeVars
    BY <1>3 DEF RunPosted, Transmit, Drop
  <1>4. CASE Environment
    BY <1>4, LifeInvStep DEF Environment, LifeNext
  <1>5. CASE UNCHANGED vars
    <2>1. lifeVars' = lifeVars
      BY <1>5 DEF vars
    <2> QED
      BY <2>1, LifeInvStep
  <1>6. ASSUME NEW s \in Sess, FlushBroken(s) PROVE LifeInv'
    BY <1>6, FlushBrokenLife
  <1> QED
    BY <1>1, <1>2, <1>3, <1>4, <1>5, <1>6, LifeInvStep DEF Next

-----------------------------------------------------------------------------
(***************************************************************************)
(* Queues of frames.                                                       *)
(***************************************************************************)

\* The frames differ.
LEMMA Frames ==
    /\ \A m, n \in Msg : Chat(m) = Chat(n) => m = n
    /\ \A m, n \in Msg : Chat(m) # Delivered(n)
    /\ \A m \in Msg : Chat(m) # Pong /\ Delivered(m) # Pong
    /\ \A m, n \in Msg : Delivered(m) = Delivered(n) => m = n
    /\ \A m \in Msg : Chat(m) \in Frame /\ Delivered(m) \in Frame
    /\ Pong \in Frame
    /\ Msg \subseteq Nat
    /\ \A f \in Frame : f = Pong \/ \E m \in Msg : f = Chat(m) \/ f = Delivered(m)
  <1>1. \A m, n : (Chat(m) = Chat(n) => m = n) /\ (Delivered(m) = Delivered(n) => m = n)
    BY DEF Chat, Delivered
  <1>2. \A m, n : Chat(m) # Delivered(n) /\ Chat(m) # Pong /\ Delivered(m) # Pong
    BY DEF Chat, Delivered, Pong
  <1>3. Msg \subseteq Nat
    BY DeliveryAssumption DEF Msg
  <1>4. /\ \A m \in Msg : Chat(m) \in Frame /\ Delivered(m) \in Frame
        /\ Pong \in Frame
        /\ \A f \in Frame : f = Pong \/ \E m \in Msg : f = Chat(m) \/ f = Delivered(m)
    BY DEF Frame
  <1> QED
    BY <1>1, <1>2, <1>3, <1>4

\* A frame at the end of a queue.
LEMMA AppendMail ==
    ASSUME NEW q \in Seq(Frame), NEW f \in Frame, NEW K, Sorted(q, K)
    PROVE  /\ Append(q, f) \in Seq(Frame)
           /\ \A n \in Msg : n \in Mail(Append(q, f)) <=> n \in Mail(q) \/ f = Chat(n)
           /\ (\A n \in Msg : f = Chat(n) => Older(Mail(q), {n}, K)) => Sorted(Append(q, f), K)
  <1>1. PICK z : z = Append(q, f)
    OBVIOUS
  <1>2. PICK k \in Nat : k = Len(q) /\ DOMAIN q = 1 .. k
    OBVIOUS
  <1>3. /\ z \in Seq(Frame) /\ DOMAIN z = 1 .. k + 1 /\ z[k + 1] = f
        /\ \A i \in 1 .. k : z[i] = q[i]
    BY <1>1, <1>2
  <1>4. \A n \in Msg : n \in Mail(z) <=> n \in Mail(q) \/ f = Chat(n)
    BY <1>2, <1>3 DEF Mail
  <1>5. ASSUME \A n \in Msg : f = Chat(n) => Older(Mail(q), {n}, K)
        PROVE  Sorted(z, K)
    <2> SUFFICES ASSUME NEW i \in 1 .. k + 1, NEW j \in 1 .. k + 1, NEW m \in Msg, NEW n \in Msg,
                        i < j, z[i] = Chat(m), z[j] = Chat(n), <<m, n>> \in K
                 PROVE  m < n
      BY <1>3 DEF Sorted
    <2>1. i \in 1 .. k /\ q[i] = Chat(m)
      BY <1>3
    <2>2. CASE j = k + 1
      <3>1. m \in Mail(q) /\ f = Chat(n)
        BY <1>2, <1>3, <2>1, <2>2 DEF Mail
      <3> QED
        BY <1>5, <3>1 DEF Older
    <2>3. CASE j # k + 1
      <3>1. j \in 1 .. k /\ q[j] = Chat(n)
        BY <1>3, <2>3
      <3> QED
        BY <1>2, <2>1, <3>1 DEF Sorted
    <2> QED
      BY <2>2, <2>3
  <1> QED
    BY <1>1, <1>3, <1>4, <1>5

\* The head of a queue and the rest.
LEMMA TailMail ==
    ASSUME NEW q \in Seq(Frame), q # <<>>, NEW K, Sorted(q, K)
    PROVE  /\ Head(q) \in Frame /\ Tail(q) \in Seq(Frame)
           /\ \A n \in Msg : n \in Mail(q) <=> n \in Mail(Tail(q)) \/ Head(q) = Chat(n)
           /\ Sorted(Tail(q), K)
           /\ \A n \in Msg : Head(q) = Chat(n) => Older({n}, Mail(Tail(q)), K)
  <1>1. PICK z, h : z = Tail(q) /\ h = Head(q)
    OBVIOUS
  <1>2. PICK k \in Nat : k + 1 = Len(q) /\ DOMAIN q = 1 .. k + 1
    <2>1. Len(q) \in Nat /\ Len(q) # 0
      BY EmptySeq
    <2>2. Len(q) - 1 \in Nat /\ (Len(q) - 1) + 1 = Len(q) /\ DOMAIN q = 1 .. (Len(q) - 1) + 1
      BY <2>1
    <2> QED
      BY <2>2
  <1>3. /\ z \in Seq(Frame) /\ DOMAIN z = 1 .. k /\ h = q[1] /\ h \in Frame
        /\ \A i \in 1 .. k : z[i] = q[i + 1]
    BY <1>1, <1>2
  <1>4. ASSUME NEW n \in Msg PROVE n \in Mail(q) <=> n \in Mail(z) \/ h = Chat(n)
    <2>1. ASSUME NEW i \in 1 .. k + 1, q[i] = Chat(n), i # 1 PROVE n \in Mail(z)
      <3>1. i - 1 \in 1 .. k /\ (i - 1) + 1 = i
        BY <2>1
      <3>2. z[i - 1] = Chat(n)
        BY <1>3, <2>1, <3>1
      <3> QED
        BY <1>3, <3>1, <3>2 DEF Mail
    <2>2. ASSUME NEW i \in 1 .. k, z[i] = Chat(n) PROVE n \in Mail(q)
      <3>1. i + 1 \in 1 .. k + 1 /\ q[i + 1] = Chat(n)
        BY <1>3, <2>2
      <3> QED
        BY <1>2, <3>1 DEF Mail
    <2>3. 1 \in 1 .. k + 1
      OBVIOUS
    <2> QED
      BY <1>2, <1>3, <2>1, <2>2, <2>3 DEF Mail
  <1>5. Sorted(z, K)
    <2> SUFFICES ASSUME NEW i \in 1 .. k, NEW j \in 1 .. k, NEW m \in Msg, NEW n \in Msg,
                        i < j, z[i] = Chat(m), z[j] = Chat(n), <<m, n>> \in K
                 PROVE  m < n
      BY <1>3 DEF Sorted
    <2>1. /\ i + 1 \in 1 .. k + 1 /\ j + 1 \in 1 .. k + 1 /\ i + 1 < j + 1
          /\ q[i + 1] = Chat(m) /\ q[j + 1] = Chat(n)
      BY <1>3
    <2> QED
      BY <1>2, <2>1 DEF Sorted
  <1>6. ASSUME NEW n \in Msg, h = Chat(n), NEW m \in Mail(z), <<n, m>> \in K PROVE n < m
    <2>1. PICK j \in 1 .. k : z[j] = Chat(m)
      BY <1>3, <1>6 DEF Mail
    <2>2. 1 \in 1 .. k + 1 /\ j + 1 \in 1 .. k + 1 /\ 1 < j + 1 /\ q[j + 1] = Chat(m) /\ m \in Msg
      BY <1>3, <1>6, <2>1 DEF Mail
    <2> QED
      BY <1>2, <1>3, <1>6, <2>2 DEF Sorted
  <1>7. \A n \in Msg : h = Chat(n) => Older({n}, Mail(z), K)
    BY <1>6 DEF Older
  <1> QED
    BY <1>1, <1>3, <1>4, <1>5, <1>7

\* One queue behind another.
LEMMA ConcatMail ==
    ASSUME NEW p \in Seq(Frame), NEW q \in Seq(Frame), NEW K, Sorted(p, K), Sorted(q, K),
           Older(Mail(p), Mail(q), K)
    PROVE  /\ p \o q \in Seq(Frame)
           /\ Mail(p \o q) = Mail(p) \cup Mail(q)
           /\ Sorted(p \o q, K)
  <1>1. PICK z : z = p \o q
    OBVIOUS
  <1>2. PICK k \in Nat, l \in Nat : k = Len(p) /\ DOMAIN p = 1 .. k /\ l = Len(q) /\ DOMAIN q = 1 .. l
    OBVIOUS
  <1>3. /\ z \in Seq(Frame) /\ DOMAIN z = 1 .. k + l
        /\ \A i \in 1 .. k : z[i] = p[i]
        /\ \A i \in 1 .. l : z[k + i] = q[i]
    BY <1>1, <1>2, ConcatProperties
  <1>4. \A i \in 1 .. k + l : i \in 1 .. k \/ (i - k \in 1 .. l /\ k + (i - k) = i)
    OBVIOUS
  <1>5. \A i \in 1 .. k + l : z[i] = IF i \in 1 .. k THEN p[i] ELSE q[i - k]
    BY <1>3, <1>4
  <1>6. Mail(z) = Mail(p) \cup Mail(q)
    <2>1. ASSUME NEW n \in Mail(z) PROVE n \in Mail(p) \cup Mail(q)
      <3>1. PICK i \in 1 .. k + l : z[i] = Chat(n)
        BY <1>3, <2>1 DEF Mail
      <3>2. CASE i \in 1 .. k
        <4>1. p[i] = Chat(n) /\ n \in Msg
          BY <1>3, <2>1, <3>1, <3>2 DEF Mail
        <4> QED
          BY <1>2, <3>2, <4>1 DEF Mail
      <3>3. CASE i \notin 1 .. k
        <4>1. i - k \in 1 .. l /\ q[i - k] = Chat(n) /\ n \in Msg
          BY <1>4, <1>5, <2>1, <3>1, <3>3 DEF Mail
        <4> QED
          BY <1>2, <4>1 DEF Mail
      <3> QED
        BY <3>2, <3>3
    <2>2. ASSUME NEW n \in Mail(p) PROVE n \in Mail(z)
      BY <1>2, <1>3, <2>2 DEF Mail
    <2>3. ASSUME NEW n \in Mail(q) PROVE n \in Mail(z)
      <3>1. PICK i \in 1 .. l : q[i] = Chat(n)
        BY <1>2, <2>3 DEF Mail
      <3>2. k + i \in 1 .. k + l /\ z[k + i] = Chat(n)
        BY <1>3, <3>1
      <3> QED
        BY <1>3, <2>3, <3>2 DEF Mail
    <2> QED
      BY <2>1, <2>2, <2>3
  <1>7. Sorted(z, K)
    <2> SUFFICES ASSUME NEW i \in 1 .. k + l, NEW j \in 1 .. k + l, NEW m \in Msg, NEW n \in Msg,
                        i < j, z[i] = Chat(m), z[j] = Chat(n), <<m, n>> \in K
                 PROVE  m < n
      BY <1>3 DEF Sorted
    <2>1. CASE i \in 1 .. k /\ j \in 1 .. k
      BY <1>2, <1>3, <2>1 DEF Sorted
    <2>2. CASE i \in 1 .. k /\ j \notin 1 .. k
      <3>1. p[i] = Chat(m) /\ j - k \in 1 .. l /\ q[j - k] = Chat(n)
        BY <1>3, <1>4, <1>5, <2>2
      <3>2. m \in Mail(p) /\ n \in Mail(q)
        BY <1>2, <2>2, <3>1 DEF Mail
      <3> QED
        BY <3>2 DEF Older
    <2>3. CASE i \notin 1 .. k
      <3>1. j \notin 1 .. k /\ i - k < j - k
        BY <2>3
      <3>2. i - k \in 1 .. l /\ j - k \in 1 .. l /\ q[i - k] = Chat(m) /\ q[j - k] = Chat(n)
        BY <1>4, <1>5, <2>3, <3>1
      <3> QED
        BY <1>2, <3>1, <3>2 DEF Sorted
    <2> QED
      BY <2>1, <2>2, <2>3
  <1> QED
    BY <1>1, <1>3, <1>6, <1>7

\* The frames of a Redis list.
LEMMA ItemsMail ==
    ASSUME NEW l \in Seq(Msg)
    PROVE  /\ Items(l) \in Seq(Frame) /\ Mail(Items(l)) = Listed(l)
           /\ DOMAIN Items(l) = DOMAIN l /\ \A i \in DOMAIN l : Items(l)[i] = Chat(l[i])
           /\ Listed(l) \subseteq Msg
  <1>1. PICK k \in Nat : k = Len(l) /\ DOMAIN l = 1 .. k
    OBVIOUS
  <1>2. \A i \in 1 .. k : l[i] \in Msg
    BY <1>1, ElementOfSeq
  <1>3. DOMAIN Items(l) = 1 .. k /\ \A i \in 1 .. k : Items(l)[i] = Chat(l[i])
    BY <1>1 DEF Items
  <1>4. Items(l) \in Seq(Frame)
    <2>1. Items(l) = [i \in 1 .. k |-> Chat(l[i])]
      BY <1>1 DEF Items
    <2>2. \A i \in 1 .. k : Chat(l[i]) \in Frame
      BY <1>2, Frames
    <2> QED
      BY <2>1, <2>2, IsASeq
  <1>5. Listed(l) \subseteq Msg
    BY <1>1, <1>2 DEF Listed
  <1>6. Mail(Items(l)) = Listed(l)
    <2>1. ASSUME NEW n \in Mail(Items(l)) PROVE n \in Listed(l)
      <3>1. PICK i \in 1 .. k : Items(l)[i] = Chat(n) /\ n \in Msg
        BY <1>3, <2>1 DEF Mail
      <3>2. l[i] = n
        BY <1>2, <1>3, <3>1, Frames
      <3> QED
        BY <1>1, <3>2 DEF Listed
    <2>2. ASSUME NEW n \in Listed(l) PROVE n \in Mail(Items(l))
      <3>1. PICK i \in 1 .. k : l[i] = n
        BY <1>1, <2>2 DEF Listed
      <3>2. Items(l)[i] = Chat(n) /\ n \in Msg
        BY <1>3, <1>5, <2>2, <3>1
      <3> QED
        BY <1>3, <3>2 DEF Mail
    <2> QED
      BY <2>1, <2>2
  <1> QED
    BY <1>1, <1>3, <1>4, <1>5, <1>6

\* Nothing is in the empty queue.
LEMMA EmptyMail ==
    /\ Mail(<<>>) = {} /\ Listed(<<>>) = {} /\ <<>> \in Seq(Frame) /\ <<>> \in Seq(Msg)
    /\ \A K : Sorted(<<>>, K) /\ Sorted(Items(<<>>), K)
  BY DEF Mail, Listed, Sorted, Items

\* The order is about kin only.
LEMMA KinChange ==
    ASSUME NEW q, NEW K, NEW L, Sorted(q, K),
           \A m, n \in Mail(q) : <<m, n>> \in L => <<m, n>> \in K
    PROVE  Sorted(q, L)
  BY DEF Sorted, Mail
-----------------------------------------------------------------------------
(***************************************************************************)
(* What the steps do to the messages: the effects.                         *)
(***************************************************************************)

\* The connections in S push what they pushed.
PushSame(S) ==
    \A t \in S : (pc'[t] = "push" <=> pc[t] = "push") /\ (pc[t] = "push" => job'[t] = job[t])

\* The queues of the connections other than s are as they were.
OthersSame(s) ==
    \A t \in Sess \ {s} : posted'[t] = posted[t] /\ pending'[t] = pending[t] /\ out'[t] = out[t]

\* The types of the queues.
Shape ==
    /\ posted \in [Sess -> Seq(Frame)] /\ pending \in [Sess -> Seq(Frame)]
    /\ out \in [Sess -> Seq(Frame)] /\ offline \in [User -> Seq(Msg)]

\* What a handler waiting for Postgres holds.
Asks == DOMAIN job = Sess /\ \A s \in Sess : pc[s] = "conv" => \E u \in User : job[s] = <<u>>

\* No message is touched.
Calm == /\ UNCHANGED <<sent, posted, pending, out, offline, spawned>>
        /\ (redis' => redis) /\ PushSame(Sess)

\* A frame of s moves on, is lost with the connection, or a pong is queued.
Moved(s) ==
    /\ UNCHANGED <<sent, offline, spawned, redis>> /\ PushSame(Sess) /\ OthersSame(s)
    /\ \/ /\ posted[s] # <<>> /\ posted'[s] = Tail(posted[s])
          /\ pending'[s] = Append(pending[s], Head(posted[s])) /\ out'[s] = out[s]
       \/ /\ pending[s] # <<>> /\ posted'[s] = posted[s] /\ pending'[s] = Tail(pending[s])
          /\ out'[s] = out[s] \/ out'[s] = Append(out[s], Head(pending[s]))
       \/ posted'[s] = posted[s] /\ pending'[s] = Append(pending[s], Pong) /\ out'[s] = out[s]

\* s takes over the list of its user; the list is empty then, or out of reach.
Drained(s) ==
    /\ UNCHANGED <<sent, spawned>> /\ PushSame(Sess) /\ OthersSame(s) /\ redis
    /\ posted'[s] = posted[s] /\ out'[s] = out[s]
    /\ pending'[s] = pending[s] \o Items(offline[Owner[s]])
    /\ \A u \in User \ {Owner[s]} : offline'[u] = offline[u]
    /\ \/ offline'[Owner[s]] = <<>> /\ redis' = redis
       \/ offline'[Owner[s]] = offline[Owner[s]] /\ ~redis'

\* The coroutines spawned for m include those of F and no others than those of G.
Spawns(m, F, G) ==
    /\ spawned \subseteq spawned' /\ \A k \in F : <<k, m>> \in spawned'
    /\ \A x \in spawned' : x \in spawned \/ \E k \in G : x = <<k, m>>

\* The LPUSH of m.
Pushed(s, m) ==
    /\ pc[s] = "push" /\ job[s] = <<m>> /\ pc'[s] # "push" /\ PushSame(Sess \ {s})
    /\ UNCHANGED <<sent, posted, pending, out, redis>>
    /\ \A u \in User : offline'[u] = IF u = sent[m].to /\ redis THEN Append(offline[u], m)
                                     ELSE offline[u]
    /\ Spawns(m, {"store", "unread"}, Detached)

\* s sends m to user `to`.
Sends(s, to, m) ==
    /\ m = Len(sent) + 1 /\ m \in Msg /\ pc[s] # "push"
    /\ sent' = Append(sent, [by |-> s, to |-> to])
    /\ UNCHANGED <<out, offline, redis>>

\* The recipient is offline.
SentAway(s, to, m) ==
    /\ Sends(s, to, m) /\ UNCHANGED <<posted, pending>>
    /\ pc'[s] = "push" /\ job'[s] = <<m>> /\ PushSame(Sess \ {s})
    /\ Spawns(m, {}, {"store"})

\* Connection r of the recipient takes m; a receipt goes to the sender.
SentLive(s, to, r, m) ==
    /\ Sends(s, to, m) /\ PushSame(Sess) /\ Owner[r] = to
    /\ \A t \in Sess :
          /\ \E q \in Seq(Frame) :
                /\ q = IF t = r THEN Append(posted[t], Chat(m)) ELSE posted[t]
                /\ posted'[t] = q \/ (Owner[t] = Owner[s] /\ posted'[t] = Append(q, Delivered(m)))
          /\ pending'[t] = pending[t] \/ (t = s /\ pending'[t] = Append(pending[t], Delivered(m)))
    /\ Spawns(m, {"store"}, {"store", "activity", "members"})

Effect ==
    \/ Calm
    \/ \E s \in Sess :
          \/ Moved(s) \/ Drained(s)
          \/ \E m \in Msg : \/ Pushed(s, m)
                            \/ \E to \in User : SentAway(s, to, m)
                            \/ \E to \in User, r \in Sess : SentLive(s, to, r, m)

\* The steps of connections and of the environment that touch no message.
LEMMA QuietEffect ==
    ASSUME LifeInv, MsgTypes, [Next]_vars,
           (\E s \in Sess : QuietStep(s)) \/ Environment \/ UNCHANGED vars
    PROVE  Shape' /\ Asks' /\ Calm
  <1>1. UNCHANGED <<sent, job, posted, pending, out, offline, spawned>>
    BY DEF QuietStep, Environment, vars, msgVars
  <1>2. /\ redis' => redis
        /\ \A t \in Sess : /\ pc'[t] = "push" <=> pc[t] = "push"
                           /\ pc'[t] = "conv" <=> pc[t] = "conv"
    <2>1. pc \in [Sess -> PC]
      BY DEF LifeInv, LifeTypeOK
    <2>2. ASSUME NEW s \in Sess, QuietStep(s)
          PROVE  /\ redis' = redis
                 /\ \/ pc' = pc
                    \/ \E to : /\ pc' = [pc EXCEPT ![s] = to] /\ to \notin {"push", "conv"}
                               /\ pc[s] \notin {"push", "conv"}
      <3>1. CASE Accept(s) \/ HandshakeOk(s) \/ HandshakeFail(s) \/ AuthFail(s) \/ RejectWritten(s)
                 \/ AuthOk(s) \/ SetPresence(s) \/ AckWritten(s)
        BY <3>1 DEF Accept, HandshakeOk, HandshakeFail, AuthFail, RejectWritten, AuthOk, SetPresence,
                    AckWritten, SetPc
      <3>2. CASE Ping(s) \/ RefreshPresence(s) \/ RateLimited(s) \/ ReplyWritten(s)
                 \/ Oversize(s) \/ DelPresence(s) \/ SetLastSeen(s)
        BY <3>2 DEF Ping, RefreshPresence, RateLimited, ReplyWritten, Oversize, DelPresence, SetLastSeen, SetPc
      <3>3. CASE Malformed(s) \/ Disconnect(s)
        BY <3>3 DEF Malformed, Disconnect, Cleanup, SetPc, DirectWrite
      <3>4. CASE PeerClose(s) \/ HeartbeatTimeout(s)
        BY <3>4 DEF PeerClose, HeartbeatTimeout
      <3> QED
        BY <2>2, <3>1, <3>2, <3>3, <3>4 DEF QuietStep
    <2>3. ASSUME NEW s \in Sess, QuietStep(s)
          PROVE  /\ redis' => redis
                 /\ \A t \in Sess : /\ pc'[t] = "push" <=> pc[t] = "push"
                                    /\ pc'[t] = "conv" <=> pc[t] = "conv"
      BY <2>1, <2>2, <2>3
    <2>4. CASE Environment \/ UNCHANGED vars
      BY <2>4 DEF Environment, RedisFail, PresenceExpire, vars, lifeVars
    <2> QED
      BY <2>3, <2>4
  <1>3. Shape'
    BY <1>1 DEF MsgTypes, Shape
  <1>4. Asks'
    BY <1>1, <1>2 DEF MsgTypes, Asks
  <1>5. Calm
    BY <1>1, <1>2 DEF Calm, PushSame
  <1> QED
    BY <1>3, <1>4, <1>5

\* The strand, the writer and the pong.
LEMMA MovedEffect ==
    ASSUME MsgTypes, NEW s \in Sess, RunPosted(s) \/ Transmit(s) \/ Drop(s) \/ PingWs(s)
    PROVE  Shape' /\ Asks' /\ Moved(s)
  <1>1. UNCHANGED <<sent, job, offline, spawned, redis, pc>>
    BY DEF RunPosted, Transmit, Drop, PingWs, lifeVars
  <1>2. PushSame(Sess) /\ Asks'
    BY <1>1 DEF PushSame, Asks, MsgTypes
  <1>3. /\ posted \in [Sess -> Seq(Frame)] /\ pending \in [Sess -> Seq(Frame)]
        /\ out \in [Sess -> Seq(Frame)] /\ offline' \in [User -> Seq(Msg)]
    BY <1>1 DEF MsgTypes
  <1>4. CASE RunPosted(s)
    <2>1. /\ posted[s] # <<>> /\ pending' = [pending EXCEPT ![s] = Append(@, Head(posted[s]))]
          /\ posted' = [posted EXCEPT ![s] = Tail(@)] /\ out' = out
      BY <1>4 DEF RunPosted
    <2>2. Append(pending[s], Head(posted[s])) \in Seq(Frame) /\ Tail(posted[s]) \in Seq(Frame)
      BY <1>3, <2>1
    <2>3. Shape'
      BY <1>3, <2>1, <2>2 DEF Shape
    <2>4. Moved(s)
      BY <1>1, <1>2, <1>3, <2>1 DEF Moved, OthersSame
    <2> QED
      BY <1>2, <2>3, <2>4
  <1>5. CASE Transmit(s)
    <2>1. /\ pending[s] # <<>> /\ out' = [out EXCEPT ![s] = Append(@, Head(pending[s]))]
          /\ pending' = [pending EXCEPT ![s] = Tail(@)] /\ posted' = posted
      BY <1>5 DEF Transmit
    <2>2. Append(out[s], Head(pending[s])) \in Seq(Frame) /\ Tail(pending[s]) \in Seq(Frame)
      BY <1>3, <2>1
    <2>3. Shape'
      BY <1>3, <2>1, <2>2 DEF Shape
    <2>4. Moved(s)
      BY <1>1, <1>2, <1>3, <2>1 DEF Moved, OthersSame
    <2> QED
      BY <1>2, <2>3, <2>4
  <1>6. CASE Drop(s)
    <2>1. /\ pending[s] # <<>> /\ pending' = [pending EXCEPT ![s] = Tail(@)]
          /\ posted' = posted /\ out' = out
      BY <1>6 DEF Drop
    <2>2. Tail(pending[s]) \in Seq(Frame)
      BY <1>3, <2>1
    <2>3. Shape'
      BY <1>3, <2>1, <2>2 DEF Shape
    <2>4. Moved(s)
      BY <1>1, <1>2, <1>3, <2>1 DEF Moved, OthersSame
    <2> QED
      BY <1>2, <2>3, <2>4
  <1>7. CASE PingWs(s)
    <2>1. /\ pending' = [pending EXCEPT ![s] = Append(@, Pong)] /\ posted' = posted /\ out' = out
      BY <1>7 DEF PingWs
    <2>2. Append(pending[s], Pong) \in Seq(Frame)
      BY <1>3, Frames
    <2>3. Shape'
      BY <1>3, <2>1, <2>2 DEF Shape
    <2>4. Moved(s)
      BY <1>1, <1>2, <1>3, <2>1 DEF Moved, OthersSame
    <2> QED
      BY <1>2, <2>3, <2>4
  <1> QED
    BY <1>4, <1>5, <1>6, <1>7

\* The drain of the list.
LEMMA FlushEffect ==
    ASSUME LifeInv, MsgTypes, NEW s \in Sess, FlushOffline(s) \/ FlushBroken(s)
    PROVE  Shape' /\ Asks' /\ (Calm \/ Drained(s))
  <1>1. UNCHANGED <<sent, job, posted, out, spawned>> /\ pc[s] = "flush" /\ pc' = [pc EXCEPT ![s] = "loop"]
    BY DEF FlushOffline, FlushBroken, Flush, SetPc
  <1>2. pc \in [Sess -> PC] /\ redis \in BOOLEAN /\ Owner[s] \in User
    BY SessionAssumption DEF LifeInv, LifeTypeOK
  <1>3. PushSame(Sess) /\ Asks'
    BY <1>1, <1>2 DEF PushSame, Asks, MsgTypes
  <1>4. /\ posted' \in [Sess -> Seq(Frame)] /\ pending \in [Sess -> Seq(Frame)]
        /\ out' \in [Sess -> Seq(Frame)] /\ offline \in [User -> Seq(Msg)]
    BY <1>1 DEF MsgTypes
  <1>5. PICK u : u = Owner[s] /\ u \in User
    BY <1>2
  <1>6. PICK l \in Seq(Msg) :
            /\ pending' = [pending EXCEPT ![s] = @ \o Items(l)]
            /\ \/ l = <<>> /\ offline' = offline /\ redis' = redis
               \/ /\ l = offline[u] /\ redis
                  /\ \/ offline' = [offline EXCEPT ![u] = <<>>] /\ redis' = redis
                     \/ offline' = offline /\ ~redis'
    <2>1. offline[u] \in Seq(Msg) /\ <<>> \in Seq(Msg)
      BY <1>4, <1>5
    <2>2. CASE FlushOffline(s)
      <3>1. PICK l : /\ LrangeAndDel(Owner[s], l) /\ redis' = redis
                     /\ pending' = [pending EXCEPT ![s] = @ \o Items(l)]
        BY <2>2 DEF FlushOffline, Flush, Items
      <3> QED
        BY <1>5, <2>1, <3>1 DEF LrangeAndDel
    <2>3. CASE FlushBroken(s)
      BY <1>5, <2>1, <2>3 DEF FlushBroken, Items
    <2> QED
      BY <2>2, <2>3
  <1>7. Items(l) \in Seq(Frame)
    BY ItemsMail
  <1>8. /\ pending' \in [Sess -> Seq(Frame)] /\ pending'[s] = pending[s] \o Items(l)
        /\ \A t \in Sess \ {s} : pending'[t] = pending[t]
    <2>1. pending[s] \o Items(l) \in Seq(Frame)
      BY <1>4, <1>7
    <2> QED
      BY <1>4, <1>6, <2>1
  <1>9. Shape'
    <2>1. offline' \in [User -> Seq(Msg)]
      <3>1. <<>> \in Seq(Msg)
        BY EmptyMail
      <3>2. [offline EXCEPT ![u] = <<>>] \in [User -> Seq(Msg)]
        BY <1>4, <3>1
      <3> QED
        BY <1>4, <1>6, <3>2
    <2> QED
      BY <1>4, <1>8, <2>1 DEF Shape
  <1>10. CASE l = <<>> /\ offline' = offline /\ redis' = redis
    <2>1. Items(l) = <<>>
      BY <1>10 DEF Items
    <2>2. pending'[s] = pending[s]
      BY <1>4, <1>8, <2>1
    <2>3. pending' = pending
      BY <1>4, <1>8, <2>2
    <2> QED
      BY <1>1, <1>3, <1>9, <1>10, <2>3 DEF Calm
  <1>11. CASE /\ l = offline[u] /\ redis
              /\ \/ offline' = [offline EXCEPT ![u] = <<>>] /\ redis' = redis
                 \/ offline' = offline /\ ~redis'
    <2>1. /\ \A w \in User \ {u} : offline'[w] = offline[w]
          /\ \/ offline'[u] = <<>> /\ redis' = redis
             \/ offline'[u] = offline[u] /\ ~redis'
      BY <1>4, <1>5, <1>11
    <2> QED
      BY <1>1, <1>3, <1>5, <1>8, <1>9, <1>11, <2>1 DEF Drained, OthersSame
  <1> QED
    BY <1>6, <1>10, <1>11

\* The wait for Postgres begins, or ends without a conversation.
LEMMA ResolveEffect ==
    ASSUME LifeInv, MsgTypes, NEW s \in Sess, NEW to \in User, ResolveWs(s, to) \/ ResolveFails(s)
    PROVE  Shape' /\ Asks' /\ Calm
  <1>1. /\ UNCHANGED <<sent, posted, pending, out, offline, spawned, redis>>
        /\ pc[s] # "push" /\ \E at \in {"loop", "conv"} : pc' = [pc EXCEPT ![s] = at]
        /\ job' = [job EXCEPT ![s] = <<to>>] \/ (job' = [job EXCEPT ![s] = <<>>] /\ pc' = [pc EXCEPT ![s] = "loop"])
    BY DEF ResolveWs, ResolveFails, Suspend, Resume, SetPc
  <1>2. pc \in [Sess -> PC] /\ DOMAIN job = Sess
    BY DEF LifeInv, LifeTypeOK, MsgTypes
  <1>3. /\ pc'[s] # "push" /\ DOMAIN job' = Sess /\ (pc'[s] = "conv" => job'[s] = <<to>>)
        /\ \A t \in Sess \ {s} : pc'[t] = pc[t] /\ job'[t] = job[t]
    BY <1>1, <1>2
  <1>4. PushSame(Sess)
    BY <1>1, <1>3 DEF PushSame
  <1>5. Asks'
    BY <1>3 DEF MsgTypes, Asks
  <1> QED
    BY <1>1, <1>4, <1>5 DEF Calm, Shape, MsgTypes
\* The coroutines of route_message.
LEMMA BackgroundIs ==
    ASSUME NEW s \in Sess, NEW m
    PROVE  /\ <<"store", m>> \in Background(s, m)
           /\ \A x \in Background(s, m) : \E k \in {"store", "activity", "members"} : x = <<k, m>>
  BY DEF Background

\* The LPUSH returns.
LEMMA PushEffect ==
    ASSUME LifeInv, MsgTypes, NEW s \in Sess, Push(s)
    PROVE  /\ Shape' /\ Asks'
           /\ \E m \in Msg : Pushed(s, m)
  <1>1. PICK m \in 1 .. Len(sent) : job[s] = <<m>> /\ pc[s] = "push"
    BY DEF Push, MsgTypes
  <1>2. /\ m \in Msg /\ sent[m].to \in User /\ job[s][1] = m
    <2>1. sent \in Seq([by : Sess, to : User]) /\ Len(sent) <= MaxMsg /\ MaxMsg \in Nat
      BY DeliveryAssumption DEF MsgTypes
    <2>2. sent[m] \in [by : Sess, to : User]
      BY <2>1, ElementOfSeq
    <2>3. Len(sent) \in Nat
      BY <2>1
    <2> QED
      BY <1>1, <2>1, <2>2, <2>3 DEF Msg
  <1>3. /\ pc' = [pc EXCEPT ![s] = "loop"] /\ job' = [job EXCEPT ![s] = <<>>]
        /\ UNCHANGED <<sent, posted, pending, out, redis>>
        /\ offline' = [offline EXCEPT ![sent[m].to] = IF redis THEN Append(@, m) ELSE @]
        /\ spawned' = spawned \cup Background(s, m) \cup {<<"unread", m>>}
    BY <1>2 DEF Push, Resume, SetPc, Lpush
  <1>4. pc \in [Sess -> PC] /\ DOMAIN job = Sess /\ offline \in [User -> Seq(Msg)]
    BY DEF LifeInv, LifeTypeOK, MsgTypes
  <1>5. /\ pc'[s] = "loop" /\ DOMAIN job' = Sess
        /\ \A t \in Sess \ {s} : pc'[t] = pc[t] /\ job'[t] = job[t]
    BY <1>3, <1>4
  <1>6. /\ offline' \in [User -> Seq(Msg)]
        /\ \A u \in User : offline'[u] = IF u = sent[m].to /\ redis THEN Append(offline[u], m)
                                         ELSE offline[u]
    <2>1. Append(offline[sent[m].to], m) \in Seq(Msg)
      BY <1>2, <1>4
    <2>2. CASE redis
      BY <1>2, <1>3, <1>4, <2>1, <2>2
    <2>3. CASE ~redis
      BY <1>2, <1>3, <1>4, <2>3
    <2> QED
      BY <2>2, <2>3
  <1>7. Spawns(m, {"store", "unread"}, Detached)
    BY <1>3, BackgroundIs DEF Spawns, Detached
  <1>8. PushSame(Sess \ {s})
    BY <1>5 DEF PushSame
  <1>9. Asks'
    BY <1>5 DEF Asks, MsgTypes
  <1>10. Shape'
    BY <1>3, <1>6 DEF Shape, MsgTypes
  <1>11. Pushed(s, m)
    BY <1>1, <1>3, <1>5, <1>6, <1>7, <1>8 DEF Pushed
  <1> QED
    BY <1>2, <1>9, <1>10, <1>11

\* The registry hands out a connection of the user.
LEMMA LookupIs ==
    ASSUME LifeInv, NEW u \in User
    PROVE  Lookup(u) = None \/ (Lookup(u) \in Sess /\ Owner[Lookup(u)] = u)
  BY DEF LifeInv, LifeTypeOK, RegistryBacked, Lookup

\* Frame f is at the end of the strand of r, when there is one, and the rest is as it was.
PostedAs(z, q, r, f) ==
    /\ z \in [Sess -> Seq(Frame)]
    /\ \A t \in Sess : z[t] = IF t = r THEN Append(q[t], f) ELSE q[t]

\* net::post of a handler.
LEMMA PostIs ==
    ASSUME NEW q \in [Sess -> Seq(Frame)], NEW r \in Sess \cup {None}, NEW f \in Frame
    PROVE  PostedAs(Post(q, r, f), q, r, f)
  <1>1. CASE r = None
    <2>1. \A t \in Sess : t # r
      BY <1>1, SessionAssumption
    <2> QED
      BY <1>1, <2>1 DEF Post, PostedAs
  <1>2. CASE r \in Sess /\ r # None
    <2>1. Append(q[r], f) \in Seq(Frame)
      BY <1>2
    <2>2. Post(q, r, f) = [q EXCEPT ![r] = Append(@, f)]
      BY <1>2 DEF Post
    <2> QED
      BY <1>2, <2>1, <2>2 DEF PostedAs
  <1> QED
    BY <1>1, <1>2

\* A CHAT frame on TCP.
LEMMA RouteTcpEffect ==
    ASSUME LifeInv, MsgTypes, NEW s \in Sess, NEW to \in User, RouteTcp(s, to)
    PROVE  /\ Shape' /\ Asks'
           /\ \E m \in Msg : SentAway(s, to, m) \/ \E r \in Sess : SentLive(s, to, r, m)
  <1>1. PICK m, r : m = Len(sent) + 1 /\ r = Lookup(to)
    OBVIOUS
  <1>2. /\ pc[s] = "loop" /\ m <= MaxMsg
        /\ sent' = Append(sent, [by |-> s, to |-> to]) /\ UNCHANGED <<pending, out, offline>>
    BY <1>1 DEF RouteTcp
  <1>3. m \in Msg
    BY <1>1, <1>2, DeliveryAssumption DEF MsgTypes, Msg
  <1>4. /\ pc \in [Sess -> PC] /\ DOMAIN job = Sess /\ Owner[s] \in User
        /\ posted \in [Sess -> Seq(Frame)] /\ pending \in [Sess -> Seq(Frame)]
        /\ out \in [Sess -> Seq(Frame)] /\ offline \in [User -> Seq(Msg)]
    BY SessionAssumption DEF LifeInv, LifeTypeOK, MsgTypes
  <1>5. CASE r # None
    <2>1. r \in Sess /\ Owner[r] = to
      BY <1>1, <1>5, LookupIs
    <2>2. PICK o : o = Lookup(Owner[s]) /\ (o = None \/ (o \in Sess /\ Owner[o] = Owner[s]))
      BY <1>4, LookupIs
    <2>3. /\ posted' = Post(Post(posted, r, Chat(m)), o, Delivered(m))
          /\ spawned' = spawned \cup Background(s, m) /\ UNCHANGED <<pc, redis, job>>
      BY <1>1, <1>5, <2>2 DEF RouteTcp, lifeVars, Suspend
    <2>4. PICK q : /\ q = Post(posted, r, Chat(m)) /\ q \in [Sess -> Seq(Frame)]
                   /\ \A t \in Sess : q[t] = IF t = r THEN Append(posted[t], Chat(m)) ELSE posted[t]
      <3>1. Chat(m) \in Frame
        BY <1>3, Frames
      <3>2. PostedAs(Post(posted, r, Chat(m)), posted, r, Chat(m))
        BY <1>4, <2>1, <3>1, PostIs
      <3> QED
        BY <3>2 DEF PostedAs
    <2>5. /\ posted' \in [Sess -> Seq(Frame)]
          /\ \A t \in Sess : posted'[t] = IF t = o THEN Append(q[t], Delivered(m)) ELSE q[t]
      <3>1. Delivered(m) \in Frame
        BY <1>3, Frames
      <3>2. o \in Sess \cup {None}
        BY <2>2
      <3>3. PostedAs(Post(q, o, Delivered(m)), q, o, Delivered(m))
        BY <2>4, <3>1, <3>2, PostIs
      <3> QED
        BY <2>3, <2>4, <3>3 DEF PostedAs
    <2>6. Shape' /\ Asks'
      BY <1>2, <1>4, <2>3, <2>5 DEF Shape, Asks, MsgTypes
    <2>7. PushSame(Sess)
      BY <2>3 DEF PushSame
    <2>8. Spawns(m, {"store"}, {"store", "activity", "members"})
      BY <2>3, BackgroundIs DEF Spawns
    <2>9. \A t \in Sess :
             \E p \in Seq(Frame) :
                /\ p = IF t = r THEN Append(posted[t], Chat(m)) ELSE posted[t]
                /\ posted'[t] = p \/ (Owner[t] = Owner[s] /\ posted'[t] = Append(p, Delivered(m)))
      <3> SUFFICES ASSUME NEW t \in Sess
                   PROVE  /\ q[t] \in Seq(Frame)
                          /\ q[t] = IF t = r THEN Append(posted[t], Chat(m)) ELSE posted[t]
                          /\ posted'[t] = q[t] \/ (Owner[t] = Owner[s] /\ posted'[t] = Append(q[t], Delivered(m)))
        OBVIOUS
      <3>1. q[t] \in Seq(Frame)
        BY <2>4
      <3>2. q[t] = IF t = r THEN Append(posted[t], Chat(m)) ELSE posted[t]
        BY <2>4
      <3>3. posted'[t] = q[t] \/ (Owner[t] = Owner[s] /\ posted'[t] = Append(q[t], Delivered(m)))
        <4>1. posted'[t] = IF t = o THEN Append(q[t], Delivered(m)) ELSE q[t]
          BY <2>5
        <4>2. t = o => Owner[t] = Owner[s]
          BY <2>2, SessionAssumption
        <4> QED
          BY <4>1, <4>2
      <3> QED
        BY <3>1, <3>2, <3>3
    <2>10. Sends(s, to, m)
      BY <1>1, <1>2, <1>3, <2>3 DEF Sends
    <2>11. \A t \in Sess : pending'[t] = pending[t]
      BY <1>2
    <2>12. SentLive(s, to, r, m)
      BY <2>1, <2>7, <2>8, <2>9, <2>10, <2>11 DEF SentLive
    <2> QED
      BY <1>3, <2>1, <2>6, <2>12
  <1>6. CASE r = None
    <2>1. Suspend(s, "push") /\ job' = [job EXCEPT ![s] = <<m>>] /\ UNCHANGED <<posted, spawned>>
      BY <1>1, <1>6 DEF RouteTcp
    <2>2. pc' = [pc EXCEPT ![s] = "push"] /\ redis' = redis
      BY <2>1 DEF Suspend, SetPc
    <2>3. /\ pc'[s] = "push" /\ DOMAIN job' = Sess /\ job'[s] = <<m>>
          /\ \A t \in Sess \ {s} : pc'[t] = pc[t] /\ job'[t] = job[t]
      BY <1>4, <2>1, <2>2
    <2>4. Asks' /\ PushSame(Sess \ {s})
      BY <2>3 DEF Asks, MsgTypes, PushSame
    <2>5. Shape'
      BY <1>2, <1>4, <2>1 DEF Shape
    <2>6. Spawns(m, {}, {"store"})
      BY <2>1 DEF Spawns
    <2>7. SentAway(s, to, m)
      BY <1>1, <1>2, <1>3, <2>1, <2>2, <2>3, <2>4, <2>6 DEF SentAway, Sends
    <2> QED
      BY <1>3, <2>4, <2>5, <2>7
  <1> QED
    BY <1>5, <1>6

\* A "chat" frame on a WebSocket, when Postgres has answered.
LEMMA RouteWsEffect ==
    ASSUME LifeInv, MsgTypes, NEW s \in Sess, RouteWs(s)
    PROVE  /\ Shape' /\ Asks'
           /\ \E m \in Msg, to \in User : SentAway(s, to, m) \/ \E r \in Sess : SentLive(s, to, r, m)
  <1>0. PICK to \in User : job[s] = <<to>>
    BY DEF RouteWs, MsgTypes
  <1>1. PICK m, r : m = Len(sent) + 1 /\ r = Lookup(to)
    OBVIOUS
  <1>2. /\ pc[s] = "conv" /\ m <= MaxMsg /\ job[s][1] = to
        /\ sent' = Append(sent, [by |-> s, to |-> to]) /\ UNCHANGED <<out, offline>>
    BY <1>0, <1>1 DEF RouteWs
  <1>3. m \in Msg
    BY <1>1, <1>2, DeliveryAssumption DEF MsgTypes, Msg
  <1>4. /\ pc \in [Sess -> PC] /\ DOMAIN job = Sess
        /\ posted \in [Sess -> Seq(Frame)] /\ pending \in [Sess -> Seq(Frame)]
        /\ out \in [Sess -> Seq(Frame)] /\ offline \in [User -> Seq(Msg)]
    BY DEF LifeInv, LifeTypeOK, MsgTypes
  <1>5. CASE r # None
    <2>1. r \in Sess /\ Owner[r] = to
      BY <1>1, <1>5, LookupIs
    <2>2. /\ pc' = [pc EXCEPT ![s] = "loop"] /\ redis' = redis
          /\ posted' = Post(posted, r, Chat(m))
          /\ pending' = [pending EXCEPT ![s] = Append(@, Delivered(m))]
          /\ spawned' = spawned \cup Background(s, m)
          /\ job' = [job EXCEPT ![s] = <<>>]
      BY <1>1, <1>2, <1>5 DEF RouteWs, Resume, SetPc
    <2>3. /\ pc'[s] = "loop" /\ DOMAIN job' = Sess
          /\ \A t \in Sess \ {s} : pc'[t] = pc[t] /\ job'[t] = job[t]
      BY <1>4, <2>2
    <2>4. /\ posted' \in [Sess -> Seq(Frame)]
          /\ \A t \in Sess : posted'[t] = IF t = r THEN Append(posted[t], Chat(m)) ELSE posted[t]
      <3>1. Chat(m) \in Frame
        BY <1>3, Frames
      <3>2. PostedAs(Post(posted, r, Chat(m)), posted, r, Chat(m))
        BY <1>4, <2>1, <3>1, PostIs
      <3> QED
        BY <2>2, <3>2 DEF PostedAs
    <2>5. /\ pending' \in [Sess -> Seq(Frame)]
          /\ \A t \in Sess : pending'[t] = IF t = s THEN Append(pending[t], Delivered(m)) ELSE pending[t]
      <3>1. Append(pending[s], Delivered(m)) \in Seq(Frame)
        BY <1>3, <1>4, Frames
      <3> QED
        BY <1>4, <2>2, <3>1
    <2>6. Shape' /\ Asks'
      BY <1>2, <1>4, <2>3, <2>4, <2>5 DEF Shape, Asks, MsgTypes
    <2>7. PushSame(Sess)
      BY <1>2, <2>3 DEF PushSame
    <2>8. Spawns(m, {"store"}, {"store", "activity", "members"})
      BY <2>2, BackgroundIs DEF Spawns
    <2>9. \A t \in Sess :
             \E p \in Seq(Frame) :
                /\ p = IF t = r THEN Append(posted[t], Chat(m)) ELSE posted[t]
                /\ posted'[t] = p \/ (Owner[t] = Owner[s] /\ posted'[t] = Append(p, Delivered(m)))
      BY <2>4
    <2>10. Sends(s, to, m)
      BY <1>1, <1>2, <1>3, <2>2 DEF Sends
    <2>11. SentLive(s, to, r, m)
      BY <2>1, <2>5, <2>7, <2>8, <2>9, <2>10 DEF SentLive
    <2> QED
      BY <1>3, <2>1, <2>6, <2>11
  <1>6. CASE r = None
    <2>1. /\ Suspend(s, "push") /\ job' = [job EXCEPT ![s] = <<m>>] /\ UNCHANGED <<posted, pending>>
          /\ spawned' = spawned \cup {<<"store", m>>}
      BY <1>1, <1>2, <1>6 DEF RouteWs
    <2>2. pc' = [pc EXCEPT ![s] = "push"] /\ redis' = redis
      BY <2>1 DEF Suspend, SetPc
    <2>3. /\ pc'[s] = "push" /\ DOMAIN job' = Sess /\ job'[s] = <<m>>
          /\ \A t \in Sess \ {s} : pc'[t] = pc[t] /\ job'[t] = job[t]
      BY <1>4, <2>1, <2>2
    <2>4. Asks' /\ PushSame(Sess \ {s})
      BY <2>3 DEF Asks, MsgTypes, PushSame
    <2>5. Shape'
      BY <1>2, <1>4, <2>1 DEF Shape
    <2>6. Spawns(m, {}, {"store"})
      BY <2>1 DEF Spawns
    <2>7. SentAway(s, to, m)
      BY <1>1, <1>2, <1>3, <2>1, <2>2, <2>3, <2>4, <2>6 DEF SentAway, Sends
    <2> QED
      BY <1>3, <2>4, <2>5, <2>7
  <1> QED
    BY <1>5, <1>6

\* Every step has one of the effects.
LEMMA Effects ==
    ASSUME LifeInv, MsgTypes, [Next]_vars
    PROVE  Shape' /\ Asks' /\ Effect
  <1>1. CASE (\E s \in Sess : QuietStep(s)) \/ Environment \/ UNCHANGED vars
    BY <1>1, QuietEffect DEF Effect
  <1>2. ASSUME NEW s \in Sess, RunPosted(s) \/ Transmit(s) \/ Drop(s) \/ PingWs(s)
        PROVE  Shape' /\ Asks' /\ Effect
    BY <1>2, MovedEffect DEF Effect
  <1>3. ASSUME NEW s \in Sess, FlushOffline(s) \/ FlushBroken(s) PROVE Shape' /\ Asks' /\ Effect
    BY <1>3, FlushEffect DEF Effect
  <1>4. ASSUME NEW s \in Sess, NEW to \in User, ResolveWs(s, to) PROVE Shape' /\ Asks' /\ Effect
    BY <1>4, ResolveEffect DEF Effect
  <1>5. ASSUME NEW s \in Sess, ResolveFails(s) PROVE Shape' /\ Asks' /\ Effect
    <2>1. Owner[s] \in User
      BY SessionAssumption
    <2> QED
      BY <1>5, <2>1, ResolveEffect DEF Effect
  <1>6. ASSUME NEW s \in Sess, Push(s) PROVE Shape' /\ Asks' /\ Effect
    BY <1>6, PushEffect DEF Effect
  <1>7. ASSUME NEW s \in Sess, NEW to \in User, RouteTcp(s, to) PROVE Shape' /\ Asks' /\ Effect
    BY <1>7, RouteTcpEffect DEF Effect
  <1>8. ASSUME NEW s \in Sess, RouteWs(s) PROVE Shape' /\ Asks' /\ Effect
    BY <1>8, RouteWsEffect DEF Effect
  <1>9. ASSUME NEW s \in Sess, HandlerStep(s) PROVE Shape' /\ Asks' /\ Effect
    BY <1>2, <1>3, <1>4, <1>5, <1>6, <1>7, <1>8, <1>9 DEF HandlerStep
  <1> QED
    BY <1>1, <1>2, <1>9 DEF Next-----------------------------------------------------------------------------
(***************************************************************************)
(* What has been sent, and what is held where.                             *)
(***************************************************************************)

\* The contents of a sequence that grows, shrinks or is put behind another.
LEMMA Contents ==
    ASSUME NEW T, NEW p \in Seq(T), NEW q \in Seq(T), NEW f \in T
    PROVE  /\ Listed(Append(q, f)) = Listed(q) \cup {f}
           /\ q # <<>> => Head(q) \in Listed(q) /\ Listed(Tail(q)) \subseteq Listed(q)
           /\ Listed(p \o q) = Listed(p) \cup Listed(q)
  <1>1. PICK k \in Nat, l \in Nat : k = Len(p) /\ DOMAIN p = 1 .. k /\ l = Len(q) /\ DOMAIN q = 1 .. l
    OBVIOUS
  <1>2. Listed(Append(q, f)) = Listed(q) \cup {f}
    <2>1. PICK z : z = Append(q, f)
      OBVIOUS
    <2>2. DOMAIN z = 1 .. l + 1 /\ z[l + 1] = f /\ \A i \in 1 .. l : z[i] = q[i]
      BY <1>1, <2>1
    <2>3. \A i \in 1 .. l + 1 : i \in 1 .. l \/ i = l + 1
      OBVIOUS
    <2> QED
      BY <1>1, <2>1, <2>2, <2>3 DEF Listed
  <1>3. ASSUME q # <<>> PROVE Head(q) \in Listed(q) /\ Listed(Tail(q)) \subseteq Listed(q)
    <2>1. l # 0
      BY <1>1, <1>3, EmptySeq
    <2>2. 1 \in DOMAIN q /\ Head(q) = q[1]
      BY <1>1, <2>1
    <2>3. PICK z : z = Tail(q)
      OBVIOUS
    <2>4. DOMAIN z = 1 .. l - 1 /\ \A i \in 1 .. l - 1 : z[i] = q[i + 1] /\ i + 1 \in 1 .. l
      BY <1>1, <2>1, <2>3
    <2> QED
      BY <1>1, <2>2, <2>3, <2>4 DEF Listed
  <1>4. Listed(p \o q) = Listed(p) \cup Listed(q)
    <2>1. PICK z : z = p \o q
      OBVIOUS
    <2>2. /\ DOMAIN z = 1 .. k + l
          /\ \A i \in 1 .. k : z[i] = p[i]
          /\ \A i \in 1 .. l : z[k + i] = q[i]
      BY <1>1, <2>1, ConcatProperties
    <2>3. \A i \in 1 .. k + l : i \in 1 .. k \/ (i - k \in 1 .. l /\ k + (i - k) = i)
      OBVIOUS
    <2>4. ASSUME NEW x \in Listed(z) PROVE x \in Listed(p) \cup Listed(q)
      <3>1. PICK i \in 1 .. k + l : x = z[i]
        BY <2>2, <2>4 DEF Listed
      <3>2. x \in Listed(p) \/ (i - k \in 1 .. l /\ x = q[i - k])
        BY <1>1, <2>2, <2>3, <3>1 DEF Listed
      <3> QED
        BY <1>1, <3>2 DEF Listed
    <2>5. ASSUME NEW x \in Listed(q) PROVE x \in Listed(z)
      <3>1. PICK i \in 1 .. l : x = q[i]
        BY <1>1, <2>5 DEF Listed
      <3>2. k + i \in 1 .. k + l /\ z[k + i] = x
        BY <2>2, <3>1
      <3> QED
        BY <2>2, <3>2 DEF Listed
    <2>6. ASSUME NEW x \in Listed(p) PROVE x \in Listed(z)
      BY <1>1, <2>2, <2>6 DEF Listed
    <2> QED
      BY <2>1, <2>4, <2>5, <2>6
  <1> QED
    BY <1>2, <1>3, <1>4

\* The messages of a queue are the chats of its frames.
LEMMA MailIs ==
    ASSUME NEW q
    PROVE  Mail(q) = {m \in Msg : Chat(m) \in Listed(q)}
  BY DEF Mail, Listed

\* The sequence of sent messages is longer by one.
Grown(s, to, m) ==
    /\ sent' \in Seq([by : Sess, to : User]) /\ m \in Msg /\ m \in Nat
    /\ Len(sent) \in Nat /\ m = Len(sent) + 1 /\ Len(sent') = m /\ m <= MaxMsg
    /\ sent'[m].by = s /\ sent'[m].to = to
    /\ \A n \in 1 .. Len(sent) : sent'[n] = sent[n]

\* Sending a message.
LEMMA SentIs ==
    ASSUME MsgTypes, NEW s \in Sess, NEW to \in User, NEW m, Sends(s, to, m)
    PROVE  Grown(s, to, m)
  <1>1. PICK e : e = [by |-> s, to |-> to]
    OBVIOUS
  <1>2. e \in [by : Sess, to : User] /\ e.by = s /\ e.to = to
    BY <1>1
  <1>3. sent \in Seq([by : Sess, to : User]) /\ sent' = Append(sent, e) /\ m = Len(sent) + 1 /\ m \in Msg
    BY <1>1 DEF MsgTypes, Sends
  <1>4. Len(sent) \in Nat /\ Len(sent') = Len(sent) + 1 /\ sent'[Len(sent) + 1] = e
        /\ \A n \in 1 .. Len(sent) : sent'[n] = sent[n]
    BY <1>2, <1>3
  <1>5. m \in Nat /\ m <= MaxMsg
    BY <1>3, DeliveryAssumption DEF Msg
  <1>6. sent' \in Seq([by : Sess, to : User])
    BY <1>2, <1>3
  <1> QED
    BY <1>2, <1>3, <1>4, <1>5, <1>6 DEF Grown
\* The types are kept.
LEMMA TypesStep ==
    ASSUME MsgTypes, Shape', Asks', Effect
    PROVE  MsgTypes'
  <1> SUFFICES /\ sent' \in Seq([by : Sess, to : User]) /\ Len(sent') <= MaxMsg
               /\ \A t \in Sess : pc'[t] = "push" => \E n \in 1 .. Len(sent') : job'[t] = <<n>>
               /\ spawned' \subseteq Detached \X Msg
    BY DEF MsgTypes, Shape, Asks
  <1>1. Len(sent) \in Nat
    BY DEF MsgTypes
  <1>2. CASE sent' = sent /\ spawned' = spawned /\ PushSame(Sess)
    BY <1>2 DEF MsgTypes, PushSame
  <1>3. CASE \E s \in Sess, m \in Msg : Pushed(s, m)
    <2>1. PICK s \in Sess, m \in Msg : Pushed(s, m)
      BY <1>3
    <2>2. sent' = sent /\ pc'[s] # "push" /\ PushSame(Sess \ {s}) /\ Spawns(m, {"store", "unread"}, Detached)
      BY <2>1 DEF Pushed
    <2>3. spawned' \subseteq Detached \X Msg
      BY <2>2 DEF Spawns, MsgTypes
    <2> QED
      BY <2>2, <2>3 DEF MsgTypes, PushSame
  <1>4. ASSUME NEW s \in Sess, NEW m \in Msg, NEW to \in User, SentAway(s, to, m)
        PROVE  /\ sent' \in Seq([by : Sess, to : User]) /\ Len(sent') <= MaxMsg
               /\ \A t \in Sess : pc'[t] = "push" => \E n \in 1 .. Len(sent') : job'[t] = <<n>>
               /\ spawned' \subseteq Detached \X Msg
    <2>1. /\ Sends(s, to, m) /\ pc'[s] = "push" /\ job'[s] = <<m>> /\ PushSame(Sess \ {s})
          /\ Spawns(m, {}, {"store"})
      BY <1>4 DEF SentAway
    <2>2. /\ sent' \in Seq([by : Sess, to : User]) /\ m \in Nat /\ m = Len(sent) + 1
          /\ Len(sent') = m /\ m <= MaxMsg
      <3>1. Grown(s, to, m)
        BY <2>1, SentIs
      <3> QED
        BY <3>1 DEF Grown
    <2>3. spawned' \subseteq Detached \X Msg
      BY <2>1 DEF Spawns, MsgTypes, Detached
    <2>4. m \in 1 .. Len(sent') /\ 1 .. Len(sent) \subseteq 1 .. Len(sent')
      BY <1>1, <2>2
    <2>5. \A t \in Sess \ {s} : pc'[t] = "push" => \E n \in 1 .. Len(sent) : job'[t] = <<n>>
      BY <2>1 DEF PushSame, MsgTypes
    <2> QED
      BY <2>1, <2>2, <2>3, <2>4, <2>5
  <1>5. ASSUME NEW s \in Sess, NEW m \in Msg, NEW to \in User, NEW r \in Sess, SentLive(s, to, r, m)
        PROVE  /\ sent' \in Seq([by : Sess, to : User]) /\ Len(sent') <= MaxMsg
               /\ \A t \in Sess : pc'[t] = "push" => \E n \in 1 .. Len(sent') : job'[t] = <<n>>
               /\ spawned' \subseteq Detached \X Msg
    <2>1. Sends(s, to, m) /\ PushSame(Sess) /\ Spawns(m, {"store"}, {"store", "activity", "members"})
      BY <1>5 DEF SentLive
    <2>2. /\ sent' \in Seq([by : Sess, to : User]) /\ m \in Nat /\ m = Len(sent) + 1
          /\ Len(sent') = m /\ m <= MaxMsg
      <3>1. Grown(s, to, m)
        BY <2>1, SentIs
      <3> QED
        BY <3>1 DEF Grown
    <2>3. spawned' \subseteq Detached \X Msg
      BY <2>1 DEF Spawns, MsgTypes, Detached
    <2>4. 1 .. Len(sent) \subseteq 1 .. Len(sent')
      BY <1>1, <2>2
    <2>5. \A t \in Sess : pc'[t] = "push" => \E n \in 1 .. Len(sent) : job'[t] = <<n>>
      BY <2>1 DEF PushSame, MsgTypes
    <2> QED
      BY <2>1, <2>2, <2>3, <2>4, <2>5
  <1>6. Calm \/ (\E s \in Sess : Moved(s) \/ Drained(s)) => sent' = sent /\ spawned' = spawned /\ PushSame(Sess)
    BY DEF Calm, Moved, Drained
  <1> QED
    BY <1>2, <1>3, <1>4, <1>5, <1>6 DEF Effect

\* Nothing leaves its handler without having its store spawned.
LEMMA HistoryStep ==
    ASSUME MsgTypes, HistoryComplete, Effect
    PROVE  HistoryComplete'
  <1>1. CASE sent' = sent /\ spawned' = spawned /\ PushSame(Sess)
    BY <1>1 DEF HistoryComplete, PushSame
  <1>2. ASSUME NEW s \in Sess, NEW m \in Msg, Pushed(s, m) PROVE HistoryComplete'
    <2>1. /\ sent' = sent /\ job[s] = <<m>> /\ PushSame(Sess \ {s}) /\ spawned \subseteq spawned'
          /\ <<"store", m>> \in spawned'
      BY <1>2 DEF Pushed, Spawns
    <2>2. ASSUME NEW n \in 1 .. Len(sent), <<"store", n>> \notin spawned'
          PROVE  \E t \in Sess : pc'[t] = "push" /\ job'[t] = <<n>>
      <3>1. PICK t \in Sess : pc[t] = "push" /\ job[t] = <<n>>
        BY <2>1, <2>2 DEF HistoryComplete
      <3>2. t # s
        BY <2>1, <2>2, <3>1
      <3> QED
        BY <2>1, <3>1, <3>2 DEF PushSame
    <2> QED
      BY <2>1, <2>2 DEF HistoryComplete
  <1>3. ASSUME NEW s \in Sess, NEW m \in Msg, NEW to \in User, Sends(s, to, m),
               \A t \in Sess : pc[t] = "push" => pc'[t] = "push" /\ job'[t] = job[t],
               spawned \subseteq spawned',
               <<"store", m>> \in spawned' \/ (pc'[s] = "push" /\ job'[s] = <<m>>)
        PROVE  HistoryComplete'
    <2>1. Len(sent) \in Nat /\ m = Len(sent) + 1 /\ Len(sent') = m
      BY <1>3, SentIs DEF Grown
    <2>2. \A n \in 1 .. Len(sent') : n \in 1 .. Len(sent) \/ n = m
      BY <2>1
    <2> QED
      BY <1>3, <2>2 DEF HistoryComplete
  <1>4. ASSUME NEW s \in Sess, NEW m \in Msg, NEW to \in User, SentAway(s, to, m) PROVE HistoryComplete'
    <2>1. /\ Sends(s, to, m) /\ spawned \subseteq spawned'
          /\ <<"store", m>> \in spawned' \/ (pc'[s] = "push" /\ job'[s] = <<m>>)
      BY <1>4 DEF SentAway, Spawns
    <2>2. \A t \in Sess : pc[t] = "push" => pc'[t] = "push" /\ job'[t] = job[t]
      BY <1>4 DEF SentAway, Sends, PushSame
    <2> QED
      BY <1>3, <2>1, <2>2
  <1>5. ASSUME NEW s \in Sess, NEW m \in Msg, NEW to \in User, NEW r \in Sess, SentLive(s, to, r, m)
        PROVE  HistoryComplete'
    <2>1. /\ Sends(s, to, m) /\ spawned \subseteq spawned'
          /\ <<"store", m>> \in spawned' \/ (pc'[s] = "push" /\ job'[s] = <<m>>)
      BY <1>5 DEF SentLive, Spawns
    <2>2. \A t \in Sess : pc[t] = "push" => pc'[t] = "push" /\ job'[t] = job[t]
      BY <1>5 DEF SentLive, PushSame
    <2> QED
      BY <1>3, <2>1, <2>2
  <1>6. Calm \/ (\E s \in Sess : Moved(s) \/ Drained(s)) => sent' = sent /\ spawned' = spawned /\ PushSame(Sess)
    BY DEF Calm, Moved, Drained
  <1> QED
    BY <1>1, <1>2, <1>4, <1>5, <1>6 DEF Effect-----------------------------------------------------------------------------
(***************************************************************************)
(* Who holds a message.                                                    *)
(***************************************************************************)

\* A frame that moves on stays with its connection.
LEMMA MovedHeld ==
    ASSUME MsgTypes, NEW s \in Sess, Moved(s)
    PROVE  \A t \in Sess : Held(t)' \subseteq Held(t) \cup {Pong}
  <1>1. \A t \in Sess \ {s} : Held(t)' = Held(t)
    BY DEF Moved, OthersSame, Held
  <1>2. posted[s] \in Seq(Frame) /\ pending[s] \in Seq(Frame) /\ out[s] \in Seq(Frame) /\ Pong \in Frame
    BY Frames DEF MsgTypes
  <1>3. CASE /\ posted[s] # <<>> /\ posted'[s] = Tail(posted[s])
             /\ pending'[s] = Append(pending[s], Head(posted[s])) /\ out'[s] = out[s]
    <2>1. Head(posted[s]) \in Frame
      BY <1>2, <1>3
    <2>2. Head(posted[s]) \in Listed(posted[s]) /\ Listed(posted'[s]) \subseteq Listed(posted[s])
      BY <1>2, <1>3, Contents
    <2>3. Listed(pending'[s]) = Listed(pending[s]) \cup {Head(posted[s])}
      BY <1>2, <1>3, <2>1, Contents
    <2>4. Held(s)' \subseteq Held(s)
      BY <1>3, <2>2, <2>3 DEF Held
    <2> QED
      BY <1>1, <2>4
  <1>4. CASE /\ pending[s] # <<>> /\ posted'[s] = posted[s] /\ pending'[s] = Tail(pending[s])
             /\ out'[s] = out[s] \/ out'[s] = Append(out[s], Head(pending[s]))
    <2>1. Head(pending[s]) \in Frame
      BY <1>2, <1>4
    <2>2. Head(pending[s]) \in Listed(pending[s]) /\ Listed(pending'[s]) \subseteq Listed(pending[s])
      BY <1>2, <1>4, Contents
    <2>3. Listed(Append(out[s], Head(pending[s]))) = Listed(out[s]) \cup {Head(pending[s])}
      BY <1>2, <1>4, <2>1, Contents
    <2>4. Listed(out'[s]) \subseteq Listed(out[s]) \cup {Head(pending[s])}
      BY <1>4, <2>3
    <2>5. Held(s)' \subseteq Held(s)
      BY <1>4, <2>2, <2>4 DEF Held
    <2> QED
      BY <1>1, <2>5
  <1>5. CASE posted'[s] = posted[s] /\ pending'[s] = Append(pending[s], Pong) /\ out'[s] = out[s]
    <2>1. Listed(pending'[s]) = Listed(pending[s]) \cup {Pong}
      BY <1>2, <1>5, Contents
    <2> QED
      BY <1>1, <1>5, <2>1 DEF Held
  <1> QED
    BY <1>3, <1>4, <1>5 DEF Moved

\* The drain of a list.
LEMMA DrainedHeld ==
    ASSUME MsgTypes, NEW s \in Sess, Drained(s)
    PROVE  /\ Held(s)' = Held(s) \cup {Chat(m) : m \in Listed(offline[Owner[s]])}
           /\ \A t \in Sess \ {s} : Held(t)' = Held(t)
           /\ \A u \in User : Listed(offline'[u]) \subseteq Listed(offline[u])
           /\ redis' => Listed(offline'[Owner[s]]) = {}
  <1>1. \A t \in Sess \ {s} : Held(t)' = Held(t)
    BY DEF Drained, OthersSame, Held
  <1>2. PICK l : l = offline[Owner[s]] /\ l \in Seq(Msg)
    BY SessionAssumption DEF MsgTypes
  <1>3. pending'[s] = pending[s] \o Items(l) /\ posted'[s] = posted[s] /\ out'[s] = out[s]
    BY <1>2 DEF Drained
  <1>4. pending[s] \in Seq(Frame) /\ Items(l) \in Seq(Frame) /\ Pong \in Frame
    BY <1>2, ItemsMail, Frames DEF MsgTypes
  <1>5. Listed(pending'[s]) = Listed(pending[s]) \cup Listed(Items(l))
    BY <1>3, <1>4, Contents
  <1>6. Listed(Items(l)) = {Chat(m) : m \in Listed(l)}
    BY DEF Items, Listed
  <1>7. Held(s)' = Held(s) \cup {Chat(m) : m \in Listed(l)}
    BY <1>3, <1>5, <1>6 DEF Held
  <1>8. \A u \in User : Listed(offline'[u]) \subseteq Listed(offline[u])
    BY EmptyMail DEF Drained
  <1>9. redis' => Listed(offline'[Owner[s]]) = {}
    BY EmptyMail DEF Drained
  <1> QED
    BY <1>1, <1>2, <1>7, <1>8, <1>9

\* The LPUSH of a message.
LEMMA PushedHeld ==
    ASSUME MsgTypes, NEW s \in Sess, NEW m \in Msg, Pushed(s, m)
    PROVE  /\ \A t \in Sess : Held(t)' = Held(t)
           /\ \A u \in User : Listed(offline'[u]) = IF u = sent[m].to /\ redis
                                                    THEN Listed(offline[u]) \cup {m}
                                                    ELSE Listed(offline[u])
  <1>1. \A t \in Sess : Held(t)' = Held(t)
    BY DEF Pushed, Held
  <1>2. ASSUME NEW u \in User
        PROVE  Listed(offline'[u]) = IF u = sent[m].to /\ redis THEN Listed(offline[u]) \cup {m}
                                                                ELSE Listed(offline[u])
    <2>1. offline[u] \in Seq(Msg)
      BY DEF MsgTypes
    <2>2. Listed(Append(offline[u], m)) = Listed(offline[u]) \cup {m}
      BY <2>1, Contents
    <2>3. offline'[u] = IF u = sent[m].to /\ redis THEN Append(offline[u], m) ELSE offline[u]
      BY DEF Pushed
    <2> QED
      BY <2>2, <2>3
  <1> QED
    BY <1>1, <1>2

\* A message goes to a connection.
LEMMA LiveHeld ==
    ASSUME MsgTypes, NEW s \in Sess, NEW m \in Msg, NEW to \in User, NEW r \in Sess,
           SentLive(s, to, r, m), NEW t \in Sess, NEW f \in Held(t)'
    PROVE  f \in Held(t) \/ (t = r /\ f = Chat(m)) \/ (Owner[t] = Owner[s] /\ f = Delivered(m))
  <1>1. /\ posted[t] \in Seq(Frame) /\ pending[t] \in Seq(Frame)
        /\ Chat(m) \in Frame /\ Delivered(m) \in Frame
    BY Frames DEF MsgTypes
  <1>2. PICK q \in Seq(Frame) :
           /\ q = IF t = r THEN Append(posted[t], Chat(m)) ELSE posted[t]
           /\ posted'[t] = q \/ (Owner[t] = Owner[s] /\ posted'[t] = Append(q, Delivered(m)))
    BY DEF SentLive
  <1>3. /\ pending'[t] = pending[t] \/ (t = s /\ pending'[t] = Append(pending[t], Delivered(m)))
        /\ out'[t] = out[t]
    BY DEF SentLive, Sends
  <1>4. Listed(Append(posted[t], Chat(m))) = Listed(posted[t]) \cup {Chat(m)}
    BY <1>1, Contents
  <1>5. Listed(Append(q, Delivered(m))) = Listed(q) \cup {Delivered(m)}
    <2>1. q \in Seq(Frame) /\ Delivered(m) \in Frame
      BY <1>1, <1>2
    <2> QED
      BY <2>1, Contents
  <1>6. Listed(Append(pending[t], Delivered(m))) = Listed(pending[t]) \cup {Delivered(m)}
    BY <1>1, Contents
  <1>7. CASE f \in Listed(posted'[t])
    <2>1. f \in Listed(q) \/ (Owner[t] = Owner[s] /\ f = Delivered(m))
      BY <1>2, <1>5, <1>7
    <2>2. f \in Listed(q) => f \in Listed(posted[t]) \/ (t = r /\ f = Chat(m))
      BY <1>2, <1>4
    <2> QED
      BY <2>1, <2>2 DEF Held
  <1>8. CASE f \in Listed(pending'[t])
    BY <1>3, <1>6, <1>8 DEF Held
  <1>9. CASE f \in Listed(out'[t])
    BY <1>3, <1>9 DEF Held
  <1> QED
    BY <1>7, <1>8, <1>9 DEF Held
\* The address of a message does not change.
LEMMA GrownAddress ==
    ASSUME NEW s, NEW to, NEW m, Grown(s, to, m), NEW n \in Msg, n <= Len(sent)
    PROVE  n <= Len(sent') /\ sent'[n] = sent[n] /\ n # m
  <1>1. n \in 1 .. Len(sent)
    BY DeliveryAssumption DEF Msg, Grown
  <1> QED
    BY <1>1 DEF Grown

\* Every frame stays with a connection of its addressee.
LEMMA AddressStep ==
    ASSUME MsgTypes, AddressInv, Effect
    PROVE  AddressInv'
  <1>1. CASE Calm
    BY <1>1 DEF Calm, AddressInv, Held
  <1>2. ASSUME NEW s \in Sess, Moved(s) PROVE AddressInv'
    <2>1. sent' = sent /\ offline' = offline
      BY <1>2 DEF Moved
    <2>2. ASSUME NEW t \in Sess PROVE Addressed(Held(t), t, sent)'
      <3>1. Held(t)' \subseteq Held(t) \cup {Pong}
        BY <1>2, MovedHeld
      <3>2. Addressed(Held(t), t, sent)
        BY DEF AddressInv
      <3> QED
        BY <2>1, <3>1, <3>2, Frames DEF Addressed
    <2> QED
      BY <2>1, <2>2 DEF AddressInv
  <1>3. ASSUME NEW s \in Sess, Drained(s) PROVE AddressInv'
    <2>1. /\ sent' = sent
          /\ Held(s)' = Held(s) \cup {Chat(m) : m \in Listed(offline[Owner[s]])}
          /\ \A t \in Sess \ {s} : Held(t)' = Held(t)
          /\ \A u \in User : Listed(offline'[u]) \subseteq Listed(offline[u])
      BY <1>3, DrainedHeld DEF Drained
    <2>2. \A t \in Sess \ {s} : Addressed(Held(t), t, sent)'
      BY <2>1 DEF AddressInv
    <2>3. Addressed(Held(s), s, sent)'
      <3>1. Addressed(Held(s), s, sent)
        BY DEF AddressInv
      <3>2. \A m \in Listed(offline[Owner[s]]) : m \in Msg /\ m <= Len(sent) /\ sent[m].to = Owner[s]
        BY SessionAssumption, ItemsMail DEF AddressInv, MsgTypes
      <3>3. ASSUME NEW m \in Msg, Chat(m) \in Held(s)' PROVE m <= Len(sent') /\ sent'[m].to = Owner[s]
        BY <2>1, <3>1, <3>2, <3>3, Frames DEF Addressed
      <3>4. ASSUME NEW m \in Msg, Delivered(m) \in Held(s)'
            PROVE  m <= Len(sent') /\ Owner[sent'[m].by] = Owner[s]
        BY <2>1, <3>1, <3>2, <3>4, Frames DEF Addressed
      <3> QED
        BY <3>3, <3>4 DEF Addressed
    <2>4. \A u \in User : \A m \in Listed(offline'[u]) : m <= Len(sent') /\ sent'[m].to = u
      BY <2>1 DEF AddressInv
    <2> QED
      BY <2>2, <2>3, <2>4 DEF AddressInv
  <1>4. ASSUME NEW s \in Sess, NEW m \in Msg, Pushed(s, m) PROVE AddressInv'
    <2>1. /\ sent' = sent /\ \A t \in Sess : Held(t)' = Held(t)
          /\ \A u \in User : Listed(offline'[u]) = IF u = sent[m].to /\ redis
                                                   THEN Listed(offline[u]) \cup {m}
                                                   ELSE Listed(offline[u])
      BY <1>4, PushedHeld DEF Pushed
    <2>2. m <= Len(sent)
      <3>1. PICK n \in 1 .. Len(sent) : job[s] = <<n>>
        BY <1>4 DEF Pushed, MsgTypes
      <3>2. m = n
        BY <1>4, <3>1 DEF Pushed
      <3> QED
        BY <3>1, <3>2 DEF MsgTypes
    <2>3. ASSUME NEW u \in User, NEW n \in Listed(offline'[u]) PROVE n <= Len(sent') /\ sent'[n].to = u
      <3>1. n \in Listed(offline[u]) \/ (n = m /\ u = sent[m].to)
        BY <2>1, <2>3
      <3> QED
        BY <2>1, <2>2, <3>1 DEF AddressInv
    <2> QED
      BY <2>1, <2>3 DEF AddressInv
  <1>5. ASSUME NEW s \in Sess, NEW m \in Msg, NEW to \in User, Sends(s, to, m),
               \A t \in Sess : \A f \in Held(t)' :
                  \/ f \in Held(t) \/ (Owner[t] = to /\ f = Chat(m))
                  \/ (Owner[t] = Owner[s] /\ f = Delivered(m))
        PROVE  AddressInv'
    <2>1. Grown(s, to, m) /\ offline' = offline
      BY <1>5, SentIs DEF Sends
    <2>2. m <= Len(sent') /\ sent'[m].to = to /\ sent'[m].by = s
      BY <2>1 DEF Grown
    <2>3. ASSUME NEW t \in Sess PROVE Addressed(Held(t), t, sent)'
      <3>1. Addressed(Held(t), t, sent)
        BY DEF AddressInv
      <3>2. ASSUME NEW n \in Msg, Chat(n) \in Held(t)' PROVE n <= Len(sent') /\ sent'[n].to = Owner[t]
        <4>1. Chat(n) \in Held(t) \/ (Owner[t] = to /\ n = m)
          BY <1>5, <3>2, Frames
        <4>2. CASE Chat(n) \in Held(t)
          <5>1. n <= Len(sent) /\ sent[n].to = Owner[t]
            BY <3>1, <4>2 DEF Addressed
          <5> QED
            BY <2>1, <5>1, GrownAddress
        <4> QED
          BY <2>2, <4>1, <4>2
      <3>3. ASSUME NEW n \in Msg, Delivered(n) \in Held(t)'
            PROVE  n <= Len(sent') /\ Owner[sent'[n].by] = Owner[t]
        <4>1. Delivered(n) \in Held(t) \/ (Owner[t] = Owner[s] /\ n = m)
          BY <1>5, <3>3, Frames
        <4>2. CASE Delivered(n) \in Held(t)
          <5>1. n <= Len(sent) /\ Owner[sent[n].by] = Owner[t]
            BY <3>1, <4>2 DEF Addressed
          <5> QED
            BY <2>1, <5>1, GrownAddress
        <4> QED
          BY <2>2, <4>1, <4>2
      <3> QED
        BY <3>2, <3>3 DEF Addressed
    <2>4. ASSUME NEW u \in User, NEW n \in Listed(offline'[u]) PROVE n <= Len(sent') /\ sent'[n].to = u
      <3>1. n <= Len(sent) /\ sent[n].to = u /\ n \in Msg
        BY <2>1, <2>4, ItemsMail DEF AddressInv, MsgTypes
      <3> QED
        BY <2>1, <3>1, GrownAddress
    <2> QED
      BY <2>3, <2>4 DEF AddressInv
  <1>6. ASSUME NEW s \in Sess, NEW m \in Msg, NEW to \in User, SentAway(s, to, m) PROVE AddressInv'
    <2>1. Sends(s, to, m) /\ \A t \in Sess : Held(t)' = Held(t)
      BY <1>6 DEF SentAway, Sends, Held
    <2> QED
      BY <1>5, <2>1
  <1>7. ASSUME NEW s \in Sess, NEW m \in Msg, NEW to \in User, NEW r \in Sess, SentLive(s, to, r, m)
        PROVE  AddressInv'
    <2>1. Sends(s, to, m) /\ Owner[r] = to
      BY <1>7 DEF SentLive
    <2>2. \A t \in Sess : \A f \in Held(t)' :
             \/ f \in Held(t) \/ (Owner[t] = to /\ f = Chat(m))
             \/ (Owner[t] = Owner[s] /\ f = Delivered(m))
      BY <1>7, <2>1, LiveHeld
    <2> QED
      BY <1>5, <2>1, <2>2
  <1> QED
    BY <1>1, <1>2, <1>3, <1>4, <1>6, <1>7 DEF Effect
\* The messages of a connection are the chats among its frames.
LEMMA HasIs ==
    \A t \in Sess : /\ Has(t) = {m \in Msg : Chat(m) \in Held(t)}
                    /\ Has(t)' = {m \in Msg : Chat(m) \in Held(t)'}
  BY DEF Has, Held, Mail, Listed

\* What is held or listed has been sent.
LEMMA HeldOld ==
    ASSUME MsgTypes, AddressInv, NEW m \in Msg, m = Len(sent) + 1
    PROVE  /\ \A t \in Sess : m \notin Has(t)
           /\ \A u \in User : m \notin Listed(offline[u])
  <1>1. ~(m <= Len(sent))
    BY DEF MsgTypes
  <1>2. \A t \in Sess : m \notin Has(t)
    BY <1>1, HasIs DEF AddressInv, Addressed
  <1> QED
    BY <1>1, <1>2 DEF AddressInv

\* A step that puts no message anywhere.
LEMMA PlaceKeep ==
    ASSUME PlaceInv, PushSame(Sess), UNCHANGED <<sent, spawned>>, redis' => redis,
           \A t \in Sess : Has(t)' \subseteq Has(t),
           \A u \in User : Listed(offline'[u]) \subseteq Listed(offline[u])
    PROVE  PlaceInv'
  <1>1. OnePlace'
    BY DEF PlaceInv, OnePlace
  <1>2. PushAlone'
    BY DEF PlaceInv, PushAlone, PushSame, WentOffline
  <1>3. ListApart'
    BY DEF PlaceInv, ListApart
  <1> QED
    BY <1>1, <1>2, <1>3 DEF PlaceInv

\* The drain moves messages from the list to the connection.
LEMMA PlaceDrained ==
    ASSUME MsgTypes, AddressInv, PlaceInv, NEW s \in Sess, Drained(s)
    PROVE  PlaceInv'
  <1>1. PICK L : L = Listed(offline[Owner[s]])
    OBVIOUS
  <1>2. Owner[s] \in User /\ L \subseteq Msg
    BY <1>1, SessionAssumption, ItemsMail DEF MsgTypes
  <1>3. /\ Held(s)' = Held(s) \cup {Chat(m) : m \in L}
        /\ \A t \in Sess \ {s} : Held(t)' = Held(t)
        /\ \A u \in User : Listed(offline'[u]) \subseteq Listed(offline[u])
        /\ redis' => Listed(offline'[Owner[s]]) = {}
        /\ sent' = sent /\ spawned' = spawned /\ redis /\ PushSame(Sess)
    BY <1>1, DrainedHeld DEF Drained
  <1>4. \A t \in Sess \ {s} : Has(t)' = Has(t)
    BY <1>3, HasIs
  <1>5. Has(s)' = Has(s) \cup L
    BY <1>2, <1>3, HasIs, Frames
  <1>6. \A t \in Sess : L \cap Has(t) = {}
    BY <1>1, <1>2, <1>3 DEF PlaceInv, ListApart
  <1>7. OnePlace'
    BY <1>4, <1>5, <1>6 DEF PlaceInv, OnePlace
  <1>8. PushAlone'
    <2> SUFFICES ASSUME NEW t \in Sess, NEW m \in Msg, pc'[t] = "push", job'[t] = <<m>>
                 PROVE  /\ \A v \in Sess : m \notin Has(v)'
                        /\ \A u \in User : m \notin Listed(offline'[u])
                        /\ ~WentOffline(m)' /\ sent'[m].by = t
                        /\ \A n \in 1 .. Len(sent') : sent'[n].by = t => n <= m
      BY DEF PushAlone
    <2>1. pc[t] = "push" /\ job[t] = <<m>>
      BY <1>3 DEF PushSame
    <2>2. /\ \A v \in Sess : m \notin Has(v)
          /\ \A u \in User : m \notin Listed(offline[u])
          /\ ~WentOffline(m) /\ sent[m].by = t
          /\ \A n \in 1 .. Len(sent) : sent[n].by = t => n <= m
      BY <2>1 DEF PlaceInv, PushAlone
    <2>3. m \notin L
      BY <1>1, <1>2, <2>2
    <2>4. \A v \in Sess : m \notin Has(v)'
      BY <1>4, <1>5, <2>2, <2>3
    <2> QED
      BY <1>3, <2>2, <2>4 DEF WentOffline
  <1>9. ASSUME redis', NEW u \in User, NEW t \in Sess, NEW m \in Listed(offline'[u]), m \in Has(t)'
        PROVE  FALSE
    <2>1. u # Owner[s] /\ m \in Listed(offline[u])
      BY <1>2, <1>3, <1>9
    <2>2. m \notin Has(t)
      BY <1>3, <2>1 DEF PlaceInv, ListApart
    <2>3. t = s /\ m \in L
      BY <1>4, <1>5, <1>9, <2>2
    <2> QED
      BY <1>1, <1>2, <2>1, <2>3 DEF AddressInv
  <1>10. ListApart'
    BY <1>9 DEF ListApart
  <1> QED
    BY <1>7, <1>8, <1>10 DEF PlaceInv

\* The LPUSH moves a message from its handler to the list.
LEMMA PlacePushed ==
    ASSUME MsgTypes, PlaceInv, NEW s \in Sess, NEW m \in Msg, Pushed(s, m)
    PROVE  PlaceInv'
  <1>1. /\ \A t \in Sess : Held(t)' = Held(t)
        /\ \A u \in User : Listed(offline'[u]) = IF u = sent[m].to /\ redis
                                                 THEN Listed(offline[u]) \cup {m}
                                                 ELSE Listed(offline[u])
    BY PushedHeld
  <1>2. \A t \in Sess : Has(t)' = Has(t)
    <2>1. \A t \in Sess : Held(t)' = Held(t)
      BY <1>1
    <2> QED
      BY <2>1, HasIs
  <1>3. /\ pc[s] = "push" /\ job[s] = <<m>> /\ pc'[s] # "push" /\ PushSame(Sess \ {s})
        /\ sent' = sent /\ redis' = redis /\ Spawns(m, {"store", "unread"}, Detached)
    BY DEF Pushed
  <1>4. /\ \A t \in Sess : m \notin Has(t)
        /\ ~WentOffline(m) /\ sent[m].by = s
    BY <1>3 DEF PlaceInv, PushAlone
  <1>5. \A u \in User : \A n \in Listed(offline'[u]) : n \in Listed(offline[u]) \/ n = m
    BY <1>1
  <1>6. OnePlace'
    BY <1>2 DEF PlaceInv, OnePlace
  <1>7. ListApart'
    BY <1>2, <1>3, <1>4, <1>5 DEF PlaceInv, ListApart
  <1>8. PushAlone'
    <2> SUFFICES ASSUME NEW t \in Sess, NEW n \in Msg, pc'[t] = "push", job'[t] = <<n>>
                 PROVE  /\ \A v \in Sess : n \notin Has(v)'
                        /\ \A u \in User : n \notin Listed(offline'[u])
                        /\ ~WentOffline(n)' /\ sent'[n].by = t
                        /\ \A k \in 1 .. Len(sent') : sent'[k].by = t => k <= n
      BY DEF PushAlone
    <2>1. t # s /\ pc[t] = "push" /\ job[t] = <<n>>
      BY <1>3 DEF PushSame
    <2>2. /\ \A v \in Sess : n \notin Has(v)
          /\ \A u \in User : n \notin Listed(offline[u])
          /\ ~WentOffline(n) /\ sent[n].by = t
          /\ \A k \in 1 .. Len(sent) : sent[k].by = t => k <= n
      BY <2>1 DEF PlaceInv, PushAlone
    <2>3. n # m
      BY <1>4, <2>1, <2>2
    <2>4. ~WentOffline(n)'
      BY <1>3, <2>2, <2>3 DEF WentOffline, Spawns
    <2> QED
      BY <1>2, <1>3, <1>5, <2>2, <2>3, <2>4
  <1> QED
    BY <1>6, <1>7, <1>8 DEF PlaceInv
\* A message that is sent has one place, its handler or a connection.
LEMMA PlaceSent ==
    ASSUME MsgTypes, AddressInv, PlaceInv, NEW s \in Sess, NEW m \in Msg, NEW to \in User,
           NEW r \in Sess, Sends(s, to, m), PushSame(Sess \ {s}), ~WentOffline(m),
           \A n \in Msg : WentOffline(n)' => WentOffline(n),
           \/ (\A t \in Sess : Has(t)' = Has(t)) /\ pc'[s] = "push" /\ job'[s] = <<m>>
           \/ /\ \A t \in Sess : \A n \in Has(t)' : n \in Has(t) \/ (t = r /\ n = m)
              /\ pc'[s] # "push"
    PROVE  PlaceInv'
  <1>1. Grown(s, to, m) /\ offline' = offline /\ redis' = redis
    BY SentIs DEF Sends
  <1>2. m = Len(sent) + 1 /\ Len(sent) \in Nat /\ Len(sent') = m /\ sent'[m].by = s
    BY <1>1 DEF Grown
  <1>3. /\ \A t \in Sess : m \notin Has(t)
        /\ \A u \in User : m \notin Listed(offline[u])
    BY <1>2, HeldOld
  <1>4. \A t \in Sess : \A n \in Has(t)' : n \in Has(t) \/ (t = r /\ n = m)
    OBVIOUS
  <1>5. OnePlace'
    BY <1>3, <1>4 DEF PlaceInv, OnePlace
  <1>6. ListApart'
    BY <1>1, <1>3, <1>4 DEF PlaceInv, ListApart
  <1>7. PushAlone'
    <2> SUFFICES ASSUME NEW t \in Sess, NEW n \in Msg, pc'[t] = "push", job'[t] = <<n>>
                 PROVE  /\ \A v \in Sess : n \notin Has(v)'
                        /\ \A u \in User : n \notin Listed(offline'[u])
                        /\ ~WentOffline(n)' /\ sent'[n].by = t
                        /\ \A k \in 1 .. Len(sent') : sent'[k].by = t => k <= n
      BY DEF PushAlone
    <2>1. CASE t = s
      <3>1. n = m /\ \A v \in Sess : Has(v)' = Has(v)
        BY <2>1
      <3>2. \A k \in 1 .. Len(sent') : k <= n
        BY <1>2, <3>1
      <3> QED
        BY <1>1, <1>2, <1>3, <2>1, <3>1, <3>2
    <2>2. CASE t # s
      <3>1. pc[t] = "push" /\ job[t] = <<n>>
        BY <2>2 DEF PushSame
      <3>2. /\ \A v \in Sess : n \notin Has(v)
            /\ \A u \in User : n \notin Listed(offline[u])
            /\ ~WentOffline(n) /\ sent[n].by = t
            /\ \A k \in 1 .. Len(sent) : sent[k].by = t => k <= n
        BY <3>1 DEF PlaceInv, PushAlone
      <3>3. n \in 1 .. Len(sent)
        <4>1. PICK k \in 1 .. Len(sent) : job[t] = <<k>>
          BY <3>1 DEF MsgTypes
        <4>2. k = n
          BY <3>1, <4>1
        <4> QED
          BY <4>1, <4>2
      <3>4. n # m /\ sent'[n] = sent[n]
        BY <1>1, <1>2, <3>3 DEF Grown
      <3>5. ASSUME NEW k \in 1 .. Len(sent'), sent'[k].by = t PROVE k <= n
        <4>1. k # m
          BY <1>2, <2>2, <3>5
        <4>2. k \in 1 .. Len(sent)
          BY <1>2, <4>1
        <4>3. sent'[k] = sent[k]
          BY <1>1, <4>2 DEF Grown
        <4> QED
          BY <3>2, <3>5, <4>2, <4>3
      <3>6. \A v \in Sess : n \notin Has(v)'
        BY <1>4, <3>2, <3>4
      <3>7. ~WentOffline(n)'
        BY <3>2
      <3> QED
        BY <1>1, <3>2, <3>4, <3>5, <3>6, <3>7
    <2> QED
      BY <2>1, <2>2
  <1> QED
    BY <1>5, <1>6, <1>7 DEF PlaceInv

\* Coroutines other than "unread" do not mark a message.
LEMMA MarkKeep ==
    ASSUME NEW m, NEW F, NEW G, Spawns(m, F, G), "unread" \notin G
    PROVE  \A n : WentOffline(n)' <=> WentOffline(n)
  BY DEF Spawns, WentOffline

\* A message is never in two places.
LEMMA PlaceStep ==
    ASSUME MsgTypes, AddressInv, PlaceInv, OrderInv, Effect
    PROVE  PlaceInv'
  <1>1. CASE Calm
    <2>1. /\ PushSame(Sess) /\ UNCHANGED <<sent, spawned>> /\ (redis' => redis)
          /\ \A t \in Sess : Has(t)' \subseteq Has(t)
          /\ \A u \in User : Listed(offline'[u]) \subseteq Listed(offline[u])
      BY <1>1 DEF Calm, Has
    <2> QED
      BY <2>1, PlaceKeep
  <1>2. ASSUME NEW s \in Sess, Moved(s) PROVE PlaceInv'
    <2>1. /\ PushSame(Sess) /\ UNCHANGED <<sent, spawned>> /\ (redis' => redis)
          /\ \A u \in User : Listed(offline'[u]) \subseteq Listed(offline[u])
      BY <1>2 DEF Moved
    <2>2. \A t \in Sess : Held(t)' \subseteq Held(t) \cup {Pong}
      BY <1>2, MovedHeld
    <2>3. ASSUME NEW t \in Sess, NEW n \in Has(t)' PROVE n \in Has(t)
      <3>1. n \in Msg /\ Chat(n) \in Held(t)'
        BY <2>3, HasIs
      <3>2. Chat(n) \in Held(t)
        BY <2>2, <3>1, Frames
      <3> QED
        BY <3>1, <3>2, HasIs
    <2> QED
      BY <2>1, <2>3, PlaceKeep
  <1>3. ASSUME NEW s \in Sess, Drained(s) PROVE PlaceInv'
    BY <1>3, PlaceDrained
  <1>4. ASSUME NEW s \in Sess, NEW m \in Msg, Pushed(s, m) PROVE PlaceInv'
    BY <1>4, PlacePushed
  <1>5. ASSUME NEW s \in Sess, NEW to \in User, NEW m \in Msg, Sends(s, to, m)
        PROVE  ~WentOffline(m)
    <2>1. m = Len(sent) + 1 /\ Len(sent) \in Nat
      BY <1>5 DEF Sends, MsgTypes
    <2> QED
      BY <2>1 DEF OrderInv, MarksSent
  <1>6. ASSUME NEW s \in Sess, NEW m \in Msg, NEW to \in User, SentAway(s, to, m) PROVE PlaceInv'
    <2>1. /\ Sends(s, to, m) /\ PushSame(Sess \ {s}) /\ \A t \in Sess : Has(t)' = Has(t)
          /\ pc'[s] = "push" /\ job'[s] = <<m>> /\ Spawns(m, {}, {"store"})
      BY <1>6 DEF SentAway, Sends, Has
    <2>2. \A n \in Msg : WentOffline(n)' => WentOffline(n)
      BY <2>1, MarkKeep
    <2>3. ~WentOffline(m)
      BY <1>5, <2>1
    <2> QED
      BY <2>1, <2>2, <2>3, PlaceSent
  <1>7. ASSUME NEW s \in Sess, NEW m \in Msg, NEW to \in User, NEW r \in Sess, SentLive(s, to, r, m)
        PROVE  PlaceInv'
    <2>1. /\ Sends(s, to, m) /\ PushSame(Sess) /\ Owner[r] = to
          /\ Spawns(m, {"store"}, {"store", "activity", "members"})
      BY <1>7 DEF SentLive
    <2>2. \A n \in Msg : WentOffline(n)' => WentOffline(n)
      BY <2>1, MarkKeep
    <2>3. ~WentOffline(m)
      BY <1>5, <2>1
    <2>4. pc'[s] # "push" /\ PushSame(Sess \ {s})
      BY <2>1 DEF PushSame, Sends
    <2>5. \A t \in Sess : \A n \in Has(t)' : n \in Has(t) \/ (t = r /\ n = m)
      <3>1. ASSUME NEW t \in Sess, NEW n \in Has(t)' PROVE n \in Has(t) \/ (t = r /\ n = m)
        <4>1. n \in Msg /\ Chat(n) \in Held(t)'
          BY <3>1, HasIs
        <4>2. Chat(n) \in Held(t) \/ (t = r /\ Chat(n) = Chat(m)) \/ Chat(n) = Delivered(m)
          BY <1>7, <4>1, LiveHeld
        <4> QED
          BY <4>1, <4>2, HasIs, Frames
      <3> QED
        BY <3>1
    <2> QED
      BY <2>1, <2>2, <2>3, <2>4, <2>5, PlaceSent
  <1> QED
    BY <1>1, <1>2, <1>3, <1>4, <1>6, <1>7 DEF Effect-----------------------------------------------------------------------------
(***************************************************************************)
(* The order on the way of a connection: written o, queued p, posted q.    *)
(***************************************************************************)

\* A posted handler runs.
LEMMA LineRun ==
    ASSUME NEW o \in Seq(Frame), NEW p \in Seq(Frame), NEW q \in Seq(Frame), q # <<>>,
           NEW K, Line(o, p, q, K)
    PROVE  /\ Line(o, Append(p, Head(q)), Tail(q), K)
           /\ Mail(Append(p, Head(q))) \subseteq Mail(p) \cup Mail(q)
           /\ Mail(Tail(q)) \subseteq Mail(q)
  <1>1. PICK h, z, y : h = Head(q) /\ z = Tail(q) /\ y = Append(p, h)
    OBVIOUS
  <1>2. /\ Sorted(o, K) /\ Sorted(p, K) /\ Sorted(q, K)
        /\ Older(Mail(o), Mail(p), K) /\ Older(Mail(o), Mail(q), K) /\ Older(Mail(p), Mail(q), K)
    BY DEF Line
  <1>3. /\ h \in Frame /\ Sorted(z, K)
        /\ \A n \in Msg : n \in Mail(q) <=> n \in Mail(z) \/ h = Chat(n)
        /\ \A n \in Msg : h = Chat(n) => Older({n}, Mail(z), K)
    BY <1>1, <1>2, TailMail
  <1>4. /\ \A n \in Msg : n \in Mail(y) <=> n \in Mail(p) \/ h = Chat(n)
        /\ (\A n \in Msg : h = Chat(n) => Older(Mail(p), {n}, K)) => Sorted(y, K)
    BY <1>1, <1>2, <1>3, AppendMail
  <1>5. \A x : Mail(x) \subseteq Msg
    BY DEF Mail
  <1>6. Sorted(y, K)
    BY <1>2, <1>3, <1>4 DEF Older
  <1>7. Mail(y) \subseteq Mail(p) \cup Mail(q) /\ Mail(z) \subseteq Mail(q)
    BY <1>3, <1>4, <1>5
  <1>8. Older(Mail(o), Mail(y), K) /\ Older(Mail(o), Mail(z), K)
    BY <1>2, <1>7 DEF Older
  <1>9. Older(Mail(y), Mail(z), K)
    BY <1>2, <1>3, <1>4, <1>5, <1>7 DEF Older
  <1> QED
    BY <1>1, <1>2, <1>3, <1>6, <1>7, <1>8, <1>9 DEF Line

\* The head of the write queue is written, or dropped with the connection.
LEMMA LineWrite ==
    ASSUME NEW o \in Seq(Frame), NEW p \in Seq(Frame), NEW q \in Seq(Frame), p # <<>>,
           NEW K, Line(o, p, q, K)
    PROVE  /\ Line(o, Tail(p), q, K) /\ Line(Append(o, Head(p)), Tail(p), q, K)
           /\ Mail(Append(o, Head(p))) \subseteq Mail(o) \cup Mail(p)
           /\ Mail(Tail(p)) \subseteq Mail(p)
  <1>1. PICK h, z, y : h = Head(p) /\ z = Tail(p) /\ y = Append(o, h)
    OBVIOUS
  <1>2. /\ Sorted(o, K) /\ Sorted(p, K) /\ Sorted(q, K)
        /\ Older(Mail(o), Mail(p), K) /\ Older(Mail(o), Mail(q), K) /\ Older(Mail(p), Mail(q), K)
    BY DEF Line
  <1>3. /\ h \in Frame /\ Sorted(z, K)
        /\ \A n \in Msg : n \in Mail(p) <=> n \in Mail(z) \/ h = Chat(n)
        /\ \A n \in Msg : h = Chat(n) => Older({n}, Mail(z), K)
    BY <1>1, <1>2, TailMail
  <1>4. /\ \A n \in Msg : n \in Mail(y) <=> n \in Mail(o) \/ h = Chat(n)
        /\ (\A n \in Msg : h = Chat(n) => Older(Mail(o), {n}, K)) => Sorted(y, K)
    BY <1>1, <1>2, <1>3, AppendMail
  <1>5. \A x : Mail(x) \subseteq Msg
    BY DEF Mail
  <1>6. Sorted(y, K)
    BY <1>2, <1>3, <1>4 DEF Older
  <1>7. Mail(y) \subseteq Mail(o) \cup Mail(p) /\ Mail(z) \subseteq Mail(p)
    BY <1>3, <1>4, <1>5
  <1>8. Older(Mail(o), Mail(z), K) /\ Older(Mail(z), Mail(q), K) /\ Older(Mail(y), Mail(q), K)
    BY <1>2, <1>7 DEF Older
  <1>9. Older(Mail(y), Mail(z), K)
    BY <1>2, <1>3, <1>4, <1>5, <1>7 DEF Older
  <1> QED
    BY <1>1, <1>2, <1>3, <1>6, <1>7, <1>8, <1>9 DEF Line

\* A frame that is no message changes nothing.
LEMMA NoteMail ==
    ASSUME NEW q \in Seq(Frame), NEW f \in Frame, \A n \in Msg : f # Chat(n), NEW K, Sorted(q, K)
    PROVE  /\ Append(q, f) \in Seq(Frame) /\ Mail(Append(q, f)) = Mail(q)
           /\ Sorted(Append(q, f), K)
  <1>1. PICK z : z = Append(q, f)
    OBVIOUS
  <1>2. /\ z \in Seq(Frame)
        /\ \A n \in Msg : n \in Mail(z) <=> n \in Mail(q) \/ f = Chat(n)
        /\ (\A n \in Msg : f = Chat(n) => Older(Mail(q), {n}, K)) => Sorted(z, K)
    BY <1>1, AppendMail
  <1>3. Mail(z) \subseteq Msg /\ Mail(q) \subseteq Msg
    BY DEF Mail
  <1>4. Mail(z) = Mail(q)
    BY <1>2, <1>3
  <1> QED
    BY <1>1, <1>2, <1>4

\* The drain of a list, whose messages come after the written and queued ones and
\* are of no kin of the posted ones.
LEMMA LineFlush ==
    ASSUME NEW o \in Seq(Frame), NEW p \in Seq(Frame), NEW q \in Seq(Frame),
           NEW l \in Seq(Frame), NEW K, Line(o, p, q, K), Sorted(l, K),
           Older(Mail(o) \cup Mail(p), Mail(l), K), Older(Mail(l), Mail(q), K)
    PROVE  Line(o, p \o l, q, K) /\ Mail(p \o l) = Mail(p) \cup Mail(l)
  <1>1. /\ Sorted(o, K) /\ Sorted(p, K) /\ Sorted(q, K)
        /\ Older(Mail(o), Mail(p), K) /\ Older(Mail(o), Mail(q), K) /\ Older(Mail(p), Mail(q), K)
    BY DEF Line
  <1>2. Older(Mail(p), Mail(l), K) /\ Older(Mail(o), Mail(l), K)
    BY DEF Older
  <1>3. PICK z : z = p \o l
    OBVIOUS
  <1>4. Mail(z) = Mail(p) \cup Mail(l) /\ Sorted(z, K)
    BY <1>1, <1>2, <1>3, ConcatMail
  <1>5. Older(Mail(o), Mail(z), K) /\ Older(Mail(z), Mail(q), K)
    BY <1>1, <1>2, <1>4 DEF Older
  <1> QED
    BY <1>1, <1>3, <1>4, <1>5 DEF Line

\* Kin that is not among the messages of a connection does not matter.
LEMMA LineKin ==
    ASSUME NEW o, NEW p, NEW q, NEW K, NEW L, Line(o, p, q, K),
           \A m, n \in Mail(o) \cup Mail(p) \cup Mail(q) : <<m, n>> \in L => <<m, n>> \in K
    PROVE  Line(o, p, q, L)
  <1>1. Sorted(o, L) /\ Sorted(p, L) /\ Sorted(q, L)
    BY KinChange DEF Line
  <1>2. /\ Older(Mail(o), Mail(p), L) /\ Older(Mail(o), Mail(q), L) /\ Older(Mail(p), Mail(q), L)
    BY DEF Line, Older
  <1> QED
    BY <1>1, <1>2 DEF Line

\* A message sent after all the others is posted.
LEMMA LineTake ==
    ASSUME NEW o \in Seq(Frame), NEW p \in Seq(Frame), NEW q \in Seq(Frame), NEW K, Line(o, p, q, K),
           NEW m \in Msg, \A n \in Mail(o) \cup Mail(p) \cup Mail(q) : n < m
    PROVE  /\ Append(q, Chat(m)) \in Seq(Frame) /\ Line(o, p, Append(q, Chat(m)), K)
           /\ Mail(Append(q, Chat(m))) = Mail(q) \cup {m}
  <1>1. PICK f, z : f = Chat(m) /\ z = Append(q, f) /\ f \in Frame
    BY Frames
  <1>2. /\ Sorted(o, K) /\ Sorted(p, K) /\ Sorted(q, K)
        /\ Older(Mail(o), Mail(p), K) /\ Older(Mail(o), Mail(q), K) /\ Older(Mail(p), Mail(q), K)
    BY DEF Line
  <1>3. /\ z \in Seq(Frame)
        /\ \A n \in Msg : n \in Mail(z) <=> n \in Mail(q) \/ f = Chat(n)
        /\ (\A n \in Msg : f = Chat(n) => Older(Mail(q), {n}, K)) => Sorted(z, K)
    BY <1>1, <1>2, AppendMail
  <1>4. \A x : Mail(x) \subseteq Msg
    BY DEF Mail
  <1>5. \A n \in Msg : f = Chat(n) <=> n = m
    BY <1>1, Frames
  <1>6. Mail(z) = Mail(q) \cup {m}
    BY <1>3, <1>4, <1>5
  <1>7. Sorted(z, K)
    BY <1>3, <1>5 DEF Older
  <1>8. Older(Mail(o), Mail(z), K) /\ Older(Mail(p), Mail(z), K)
    BY <1>2, <1>6 DEF Older
  <1> QED
    BY <1>1, <1>2, <1>3, <1>6, <1>7, <1>8 DEF Line
\* Kin depends on what was sent and what was marked.
LEMMA KinSame ==
    ASSUME UNCHANGED <<sent, spawned>>
    PROVE  Kin' = Kin /\ \A n : WentOffline(n)' = WentOffline(n)
  BY DEF Kin, WentOffline

\* A marked message is of no kin of an unmarked one.
LEMMA NoKin ==
    ASSUME NEW m, NEW n, WentOffline(m) # WentOffline(n)
    PROVE  <<m, n>> \notin Kin
  BY DEF Kin

\* A frame moves on in order.
LEMMA MovedLine ==
    ASSUME MsgTypes, OrderInv, NEW s \in Sess, Moved(s)
    PROVE  /\ Line(out'[s], pending'[s], posted'[s], Kin)
           /\ Mail(posted'[s]) \subseteq Mail(posted[s])
           /\ Mail(out'[s]) \cup Mail(pending'[s])
                 \subseteq Mail(out[s]) \cup Mail(pending[s]) \cup Mail(posted[s])
  <1>1. PICK o, p, q, K : o = out[s] /\ p = pending[s] /\ q = posted[s] /\ K = Kin
    OBVIOUS
  <1>2. o \in Seq(Frame) /\ p \in Seq(Frame) /\ q \in Seq(Frame)
    BY <1>1 DEF MsgTypes
  <1>3. Line(o, p, q, K)
    BY <1>1 DEF OrderInv, LinesOrdered
  <1>4. CASE q # <<>> /\ posted'[s] = Tail(q) /\ pending'[s] = Append(p, Head(q)) /\ out'[s] = o
    <2>1. /\ Line(o, Append(p, Head(q)), Tail(q), K)
          /\ Mail(Append(p, Head(q))) \subseteq Mail(p) \cup Mail(q)
          /\ Mail(Tail(q)) \subseteq Mail(q)
      BY <1>2, <1>3, <1>4, LineRun
    <2> QED
      BY <1>1, <1>4, <2>1
  <1>5. CASE /\ p # <<>> /\ posted'[s] = q /\ pending'[s] = Tail(p)
             /\ out'[s] = o \/ out'[s] = Append(o, Head(p))
    <2>1. /\ Line(o, Tail(p), q, K) /\ Line(Append(o, Head(p)), Tail(p), q, K)
          /\ Mail(Append(o, Head(p))) \subseteq Mail(o) \cup Mail(p)
          /\ Mail(Tail(p)) \subseteq Mail(p)
      BY <1>2, <1>3, <1>5, LineWrite
    <2>2. Line(out'[s], pending'[s], posted'[s], K)
      BY <1>5, <2>1
    <2>3. Mail(out'[s]) \subseteq Mail(o) \cup Mail(p) /\ Mail(pending'[s]) \subseteq Mail(p)
      BY <1>5, <2>1
    <2> QED
      BY <1>1, <1>5, <2>2, <2>3
  <1>6. CASE posted'[s] = q /\ pending'[s] = Append(p, Pong) /\ out'[s] = o
    <2>1. Pong \in Frame /\ \A n \in Msg : Pong # Chat(n)
      BY Frames
    <2>2. Sorted(p, K)
      BY <1>3 DEF Line
    <2>3. Mail(Append(p, Pong)) = Mail(p) /\ Sorted(Append(p, Pong), K)
      BY <1>2, <2>1, <2>2, NoteMail
    <2>4. Line(o, Append(p, Pong), q, K)
      BY <1>3, <2>3 DEF Line
    <2> QED
      BY <1>1, <1>6, <2>3, <2>4
  <1> QED
    BY <1>1, <1>4, <1>5, <1>6 DEF Moved

\* Moving on keeps the order.
LEMMA OrderMoved ==
    ASSUME MsgTypes, OrderInv, NEW s \in Sess, Moved(s)
    PROVE  OrderInv'
  <1>1. UNCHANGED <<sent, offline, spawned, redis>> /\ OthersSame(s)
    BY DEF Moved
  <1>2. Kin' = Kin /\ \A n : WentOffline(n)' = WentOffline(n)
    BY <1>1, KinSame
  <1>3. /\ Line(out'[s], pending'[s], posted'[s], Kin)
        /\ Mail(posted'[s]) \subseteq Mail(posted[s])
        /\ Mail(out'[s]) \cup Mail(pending'[s])
              \subseteq Mail(out[s]) \cup Mail(pending[s]) \cup Mail(posted[s])
    BY MovedLine
  <1>4. MarksSent' /\ ListsOrdered' /\ ListedMarked'
    BY <1>1, <1>2 DEF OrderInv, MarksSent, ListsOrdered, ListedMarked
  <1>5. LinesOrdered'
    BY <1>1, <1>2, <1>3 DEF OrderInv, LinesOrdered, OthersSame
  <1>6. PostedLive'
    BY <1>1, <1>2, <1>3 DEF OrderInv, PostedLive, OthersSame
  <1>7. ASSUME redis', NEW t \in Sess,
               NEW a \in Mail(out'[t]) \cup Mail(pending'[t]), NEW b \in Listed(offline'[Owner[t]]),
               <<a, b>> \in Kin'
        PROVE  a < b
    <2>1. redis /\ b \in Listed(offline[Owner[t]]) /\ <<a, b>> \in Kin
      BY <1>1, <1>2, <1>7
    <2>2. CASE a \in Mail(out[t]) \cup Mail(pending[t])
      BY <2>1, <2>2 DEF OrderInv, DrainOrdered, Older
    <2>3. CASE a \in Mail(posted[t])
      <3>1. ~WentOffline(a) /\ WentOffline(b)
        BY <2>1, <2>3, SessionAssumption DEF OrderInv, PostedLive, ListedMarked
      <3> QED
        BY <2>1, <3>1, NoKin
    <2> QED
      BY <1>1, <1>3, <1>7, <2>2, <2>3 DEF OthersSame
  <1>8. DrainOrdered'
    BY <1>7 DEF DrainOrdered, Older
  <1> QED
    BY <1>4, <1>5, <1>6, <1>8 DEF OrderInv

\* The drain keeps the order.
LEMMA OrderDrained ==
    ASSUME MsgTypes, OrderInv, NEW s \in Sess, Drained(s)
    PROVE  OrderInv'
  <1>1. UNCHANGED <<sent, spawned>> /\ OthersSame(s) /\ redis
    BY DEF Drained
  <1>2. Kin' = Kin /\ \A n : WentOffline(n)' = WentOffline(n)
    BY <1>1, KinSame
  <1>3. PICK l, K : l = offline[Owner[s]] /\ K = Kin
    OBVIOUS
  <1>4. Owner[s] \in User /\ l \in Seq(Msg)
    BY <1>3, SessionAssumption DEF MsgTypes
  <1>5. Items(l) \in Seq(Frame) /\ Mail(Items(l)) = Listed(l) /\ Sorted(Items(l), K)
    BY <1>3, <1>4, ItemsMail DEF OrderInv, ListsOrdered
  <1>6. Older(Mail(out[s]) \cup Mail(pending[s]), Mail(Items(l)), K)
    BY <1>1, <1>3, <1>5 DEF OrderInv, DrainOrdered
  <1>7. Older(Mail(Items(l)), Mail(posted[s]), K)
    <2>1. ASSUME NEW a \in Listed(l), NEW b \in Mail(posted[s]) PROVE <<a, b>> \notin Kin
      <3>1. WentOffline(a) /\ ~WentOffline(b)
        BY <1>3, <1>4, <2>1 DEF OrderInv, PostedLive, ListedMarked
      <3> QED
        BY <3>1, NoKin
    <2> QED
      BY <1>3, <1>5, <2>1 DEF Older
  <1>8. Line(out[s], pending[s] \o Items(l), posted[s], K)
    <2>1. out[s] \in Seq(Frame) /\ pending[s] \in Seq(Frame) /\ posted[s] \in Seq(Frame)
      BY DEF MsgTypes
    <2>2. Line(out[s], pending[s], posted[s], K)
      BY <1>3 DEF OrderInv, LinesOrdered
    <2> QED
      BY <1>5, <1>6, <1>7, <2>1, <2>2, LineFlush
  <1>9. LinesOrdered'
    <2>1. Line(out'[s], pending'[s], posted'[s], Kin')
      BY <1>2, <1>3, <1>8 DEF Drained
    <2>2. \A t \in Sess \ {s} : Line(out'[t], pending'[t], posted'[t], Kin')
      BY <1>1, <1>2 DEF OrderInv, LinesOrdered, OthersSame
    <2> QED
      BY <2>1, <2>2 DEF LinesOrdered
  <1>10. \A u \in User : offline'[u] = offline[u] \/ offline'[u] = <<>>
    BY DEF Drained
  <1>11. ListsOrdered' /\ ListedMarked'
    BY <1>2, <1>10, EmptyMail DEF OrderInv, ListsOrdered, ListedMarked
  <1>12. PostedLive'
    BY <1>1, <1>2 DEF OrderInv, PostedLive, OthersSame, Drained
  <1>13. ASSUME redis', NEW t \in Sess PROVE Older(Mail(out'[t]) \cup Mail(pending'[t]), Listed(offline'[Owner[t]]), Kin')
    <2>1. offline'[Owner[s]] = <<>>
      BY <1>13 DEF Drained
    <2>2. CASE Owner[t] = Owner[s]
      <3>1. Listed(offline'[Owner[t]]) = {}
        BY <2>1, <2>2, EmptyMail
      <3> QED
        BY <3>1 DEF Older
    <2>3. CASE Owner[t] # Owner[s]
      <3>1. t # s /\ Owner[t] \in User
        BY <2>3, SessionAssumption
      <3>2. offline'[Owner[t]] = offline[Owner[t]] /\ out'[t] = out[t] /\ pending'[t] = pending[t]
        BY <1>1, <2>3, <3>1 DEF Drained, OthersSame
      <3> QED
        BY <1>1, <1>2, <3>2 DEF OrderInv, DrainOrdered
    <2> QED
      BY <2>2, <2>3
  <1>14. DrainOrdered'
    BY <1>13 DEF DrainOrdered
  <1>15. MarksSent'
    BY <1>1, <1>2 DEF OrderInv, MarksSent
  <1> QED
    BY <1>9, <1>11, <1>12, <1>14, <1>15 DEF OrderInv
\* The frames of a list that grows.
LEMMA ItemsAppend ==
    ASSUME NEW l \in Seq(Msg), NEW m \in Msg
    PROVE  Items(Append(l, m)) = Append(Items(l), Chat(m))
  <1>1. PICK k \in Nat : k = Len(l) /\ DOMAIN l = 1 .. k
    OBVIOUS
  <1>2. PICK z, y : z = Append(l, m) /\ y = Items(l)
    OBVIOUS
  <1>3. z \in Seq(Msg) /\ DOMAIN z = 1 .. k + 1 /\ z[k + 1] = m /\ \A i \in 1 .. k : z[i] = l[i]
    BY <1>1, <1>2
  <1>4. y \in Seq(Frame) /\ DOMAIN y = 1 .. k /\ \A i \in 1 .. k : y[i] = Chat(l[i])
    BY <1>1, <1>2, ItemsMail
  <1>5. Len(y) = k
    BY <1>4
  <1>6. PICK x : x = Append(y, Chat(m))
    OBVIOUS
  <1>7. Chat(m) \in Frame
    BY Frames
  <1>8. x \in Seq(Frame) /\ DOMAIN x = 1 .. k + 1 /\ x[k + 1] = Chat(m) /\ \A i \in 1 .. k : x[i] = y[i]
    BY <1>4, <1>5, <1>6, <1>7
  <1>9. Items(z) \in Seq(Frame) /\ DOMAIN Items(z) = 1 .. k + 1 /\ \A i \in 1 .. k + 1 : Items(z)[i] = Chat(z[i])
    BY <1>3, ItemsMail
  <1>10. \A i \in 1 .. k + 1 : Items(z)[i] = x[i]
    <2>1. \A i \in 1 .. k + 1 : i \in 1 .. k \/ i = k + 1
      OBVIOUS
    <2> QED
      BY <1>3, <1>4, <1>8, <1>9, <2>1
  <1>11. Len(Items(z)) = k + 1 /\ Len(x) = k + 1
    BY <1>8, <1>9
  <1>12. Items(z) = x
    BY <1>8, <1>9, <1>10, <1>11, SeqEqual
  <1> QED
    BY <1>2, <1>6, <1>12

\* The LPUSH keeps the order: its message is marked now, is the last one of its
\* sender, and was nowhere else.
LEMMA OrderPushed ==
    ASSUME MsgTypes, PlaceInv, OrderInv, NEW s \in Sess, NEW m \in Msg, Pushed(s, m)
    PROVE  OrderInv'
  <1>1. /\ pc[s] = "push" /\ job[s] = <<m>> /\ UNCHANGED <<sent, posted, pending, out, redis>>
        /\ \A u \in User : offline'[u] = IF u = sent[m].to /\ redis THEN Append(offline[u], m)
                                         ELSE offline[u]
        /\ Spawns(m, {"store", "unread"}, Detached)
    BY DEF Pushed
  <1>2. /\ \A t \in Sess : m \notin Has(t)
        /\ \A u \in User : m \notin Listed(offline[u])
        /\ sent[m].by = s
        /\ \A n \in 1 .. Len(sent) : sent[n].by = s => n <= m
    BY <1>1 DEF PlaceInv, PushAlone
  <1>3. m \in 1 .. Len(sent) /\ m <= Len(sent)
    <2>1. PICK n \in 1 .. Len(sent) : job[s] = <<n>>
      BY <1>1 DEF MsgTypes
    <2>2. n = m
      BY <1>1, <2>1
    <2> QED
      BY <2>1, <2>2 DEF MsgTypes
  <1>4. \A n : WentOffline(n)' <=> WentOffline(n) \/ n = m
    BY <1>1 DEF WentOffline, Spawns, Detached
  <1>5. ASSUME NEW a, NEW b, a # m, b # m, <<a, b>> \in Kin' PROVE <<a, b>> \in Kin
    <2>1. /\ a \in 1 .. Len(sent) /\ b \in 1 .. Len(sent) /\ sent[a].by = sent[b].by
          /\ WentOffline(a)' = WentOffline(b)'
      BY <1>1, <1>5 DEF Kin
    <2>2. WentOffline(a) = WentOffline(b)
      BY <1>4, <1>5, <2>1 DEF WentOffline
    <2> QED
      BY <2>1, <2>2 DEF Kin
  <1>6. ASSUME NEW a \in Msg, a # m, <<a, m>> \in Kin' PROVE a < m
    <2>1. a \in 1 .. Len(sent) /\ sent[a].by = s
      BY <1>1, <1>2, <1>6 DEF Kin
    <2>2. a <= m /\ a \in Nat /\ m \in Nat
      BY <1>2, <2>1, Frames
    <2> QED
      BY <1>6, <2>2
  <1>7. \A t \in Sess : m \notin Mail(posted[t]) /\ m \notin Mail(pending[t]) /\ m \notin Mail(out[t])
    BY <1>2 DEF Has
  <1>8. MarksSent'
    BY <1>1, <1>3, <1>4 DEF OrderInv, MarksSent
  <1>9. ASSUME NEW t \in Sess PROVE Line(out[t], pending[t], posted[t], Kin')
    <2>1. Line(out[t], pending[t], posted[t], Kin)
      BY DEF OrderInv, LinesOrdered
    <2>2. \A a, b \in Mail(out[t]) \cup Mail(pending[t]) \cup Mail(posted[t]) :
             <<a, b>> \in Kin' => <<a, b>> \in Kin
      BY <1>5, <1>7
    <2> QED
      BY <2>1, <2>2, LineKin
  <1>10. LinesOrdered'
    BY <1>1, <1>9 DEF LinesOrdered
  <1>11. ASSUME NEW u \in User PROVE Sorted(Items(offline'[u]), Kin')
    <2>1. PICK l : l = offline[u] /\ l \in Seq(Msg)
      BY DEF MsgTypes
    <2>2. Items(l) \in Seq(Frame) /\ Mail(Items(l)) = Listed(l) /\ Listed(l) \subseteq Msg
      BY <2>1, ItemsMail
    <2>3. \A a, b \in Mail(Items(l)) : <<a, b>> \in Kin' => <<a, b>> \in Kin
      BY <1>2, <1>5, <2>1, <2>2
    <2>4. Sorted(Items(l), Kin')
      BY <2>1, <2>3, KinChange DEF OrderInv, ListsOrdered
    <2>5. Older(Mail(Items(l)), {m}, Kin')
      BY <1>2, <1>6, <2>1, <2>2 DEF Older
    <2>6. Sorted(Append(Items(l), Chat(m)), Kin')
      <3>1. Chat(m) \in Frame /\ \A n \in Msg : Chat(m) = Chat(n) => n = m
        BY Frames
      <3>2. (\A n \in Msg : Chat(m) = Chat(n) => Older(Mail(Items(l)), {n}, Kin'))
               => Sorted(Append(Items(l), Chat(m)), Kin')
        BY <2>2, <2>4, <3>1, AppendMail
      <3> QED
        BY <2>5, <3>1, <3>2
    <2>7. Items(Append(l, m)) = Append(Items(l), Chat(m))
      BY <2>1, ItemsAppend
    <2>8. offline'[u] = l \/ offline'[u] = Append(l, m)
      BY <1>1, <2>1
    <2> QED
      BY <2>4, <2>6, <2>7, <2>8
  <1>12. ListsOrdered'
    BY <1>11 DEF ListsOrdered
  <1>13. PostedLive'
    BY <1>1, <1>4, <1>7 DEF OrderInv, PostedLive
  <1>14. \A u \in User : \A n \in Listed(offline'[u]) : n \in Listed(offline[u]) \/ n = m
    <2>1. \A u \in User : Listed(offline'[u]) = IF u = sent[m].to /\ redis
                                                THEN Listed(offline[u]) \cup {m}
                                                ELSE Listed(offline[u])
      BY PushedHeld
    <2> QED
      BY <2>1
  <1>15. ListedMarked'
    BY <1>4, <1>14 DEF OrderInv, ListedMarked
  <1>16. ASSUME redis', NEW t \in Sess,
                NEW a \in Mail(out[t]) \cup Mail(pending[t]), NEW b \in Listed(offline'[Owner[t]]),
                <<a, b>> \in Kin'
         PROVE  a < b
    <2>1. redis /\ a # m /\ a \in Msg /\ Owner[t] \in User
      BY <1>1, <1>7, <1>16, SessionAssumption DEF Mail
    <2>2. CASE b = m
      BY <1>6, <1>16, <2>1, <2>2
    <2>3. CASE b # m
      <3>1. b \in Listed(offline[Owner[t]]) /\ <<a, b>> \in Kin
        BY <1>5, <1>14, <1>16, <2>1, <2>3
      <3> QED
        BY <1>16, <2>1, <3>1 DEF OrderInv, DrainOrdered, Older
    <2> QED
      BY <2>2, <2>3
  <1>17. DrainOrdered'
    BY <1>1, <1>16 DEF DrainOrdered, Older
  <1> QED
    BY <1>8, <1>10, <1>12, <1>13, <1>15, <1>17 DEF OrderInv
\* A message is sent: the order of the earlier ones does not change.
LEMMA SentKin ==
    ASSUME MsgTypes, AddressInv, NEW s \in Sess, NEW m \in Msg, NEW to \in User, Grown(s, to, m),
           \A n : WentOffline(n)' <=> WentOffline(n)
    PROVE  /\ \A t \in Sess : Has(t) \subseteq 1 .. Len(sent)
           /\ \A u \in User : Listed(offline[u]) \subseteq 1 .. Len(sent)
           /\ \A a \in 1 .. Len(sent) : a < m
           /\ \A a, b \in 1 .. Len(sent) : <<a, b>> \in Kin' => <<a, b>> \in Kin
  <1>1. Len(sent) \in Nat /\ m = Len(sent) + 1 /\ Len(sent') = m /\ \A n \in 1 .. Len(sent) : sent'[n] = sent[n]
    BY DEF Grown
  <1>2. ASSUME NEW t \in Sess, NEW a \in Has(t) PROVE a \in 1 .. Len(sent)
    <2>1. a \in Msg /\ Chat(a) \in Held(t)
      BY <1>2, HasIs
    <2>2. a <= Len(sent)
      BY <2>1 DEF AddressInv, Addressed
    <2> QED
      BY <1>1, <2>1, <2>2, DeliveryAssumption DEF Msg
  <1>3. ASSUME NEW u \in User, NEW a \in Listed(offline[u]) PROVE a \in 1 .. Len(sent)
    <2>1. a \in Msg /\ a <= Len(sent)
      BY <1>3, ItemsMail DEF AddressInv, MsgTypes
    <2> QED
      BY <1>1, <2>1, DeliveryAssumption DEF Msg
  <1>4. \A a \in 1 .. Len(sent) : a < m
    BY <1>1
  <1>5. ASSUME NEW a \in 1 .. Len(sent), NEW b \in 1 .. Len(sent), <<a, b>> \in Kin' PROVE <<a, b>> \in Kin
    <2>1. sent'[a].by = sent'[b].by /\ WentOffline(a)' = WentOffline(b)'
      BY <1>5 DEF Kin
    <2>2. sent[a].by = sent[b].by
      BY <1>1, <2>1
    <2>3. WentOffline(a) = WentOffline(b)
      BY <2>1 DEF WentOffline
    <2> QED
      BY <2>2, <2>3 DEF Kin
  <1> QED
    BY <1>2, <1>3, <1>4, <1>5

\* Sending keeps the order, if the connections' queues do.
LEMMA OrderSent ==
    ASSUME MsgTypes, AddressInv, OrderInv, NEW s \in Sess, NEW m \in Msg, NEW to \in User,
           Sends(s, to, m), \A n : WentOffline(n)' <=> WentOffline(n),
           \A t \in Sess : /\ Line(out[t], pending'[t], posted'[t], Kin')
                           /\ Mail(pending'[t]) = Mail(pending[t])
                           /\ \A n \in Mail(posted'[t]) : n \in Mail(posted[t]) \/ n = m
    PROVE  OrderInv'
  <1>1. Grown(s, to, m) /\ UNCHANGED <<out, offline, redis>>
    BY SentIs DEF Sends
  <1>2. Len(sent) \in Nat /\ m = Len(sent) + 1 /\ Len(sent') = m
    BY <1>1 DEF Grown
  <1>3. /\ \A t \in Sess : Has(t) \subseteq 1 .. Len(sent)
        /\ \A u \in User : Listed(offline[u]) \subseteq 1 .. Len(sent)
        /\ \A a \in 1 .. Len(sent) : a < m
        /\ \A a, b \in 1 .. Len(sent) : <<a, b>> \in Kin' => <<a, b>> \in Kin
    BY <1>1, SentKin
  <1>4. ~WentOffline(m)
    BY <1>2 DEF OrderInv, MarksSent
  <1>5. MarksSent'
    BY <1>2, Frames DEF OrderInv, MarksSent
  <1>6. LinesOrdered'
    BY <1>1 DEF LinesOrdered
  <1>7. ASSUME NEW u \in User PROVE Sorted(Items(offline[u]), Kin')
    <2>1. Mail(Items(offline[u])) = Listed(offline[u])
      BY ItemsMail DEF MsgTypes
    <2>2. \A a, b \in Mail(Items(offline[u])) : <<a, b>> \in Kin' => <<a, b>> \in Kin
      BY <1>3, <2>1
    <2>3. Sorted(Items(offline[u]), Kin)
      BY DEF OrderInv, ListsOrdered
    <2> QED
      BY <2>2, <2>3, KinChange
  <1>8. ListsOrdered' /\ ListedMarked'
    BY <1>1, <1>7 DEF OrderInv, ListsOrdered, ListedMarked
  <1>9. PostedLive'
    BY <1>4 DEF OrderInv, PostedLive
  <1>10. ASSUME redis', NEW t \in Sess,
                NEW a \in Mail(out[t]) \cup Mail(pending[t]), NEW b \in Listed(offline[Owner[t]]),
                <<a, b>> \in Kin'
         PROVE  a < b
    <2>1. a \in 1 .. Len(sent) /\ b \in 1 .. Len(sent)
      BY <1>3, <1>10, SessionAssumption DEF Has
    <2>2. redis /\ <<a, b>> \in Kin
      BY <1>1, <1>3, <1>10, <2>1
    <2> QED
      BY <1>10, <2>2 DEF OrderInv, DrainOrdered, Older
  <1>11. DrainOrdered'
    BY <1>1, <1>10 DEF DrainOrdered, Older
  <1> QED
    BY <1>5, <1>6, <1>8, <1>9, <1>11 DEF OrderInv

\* The queues of a connection when a message is sent live.
LEMMA LiveLine ==
    ASSUME MsgTypes, AddressInv, OrderInv, NEW s \in Sess, NEW m \in Msg, NEW to \in User,
           NEW r \in Sess, SentLive(s, to, r, m), NEW t \in Sess
    PROVE  /\ Line(out[t], pending'[t], posted'[t], Kin')
           /\ Mail(pending'[t]) = Mail(pending[t])
           /\ \A n \in Mail(posted'[t]) : n \in Mail(posted[t]) \/ n = m
  <1>1. Sends(s, to, m) /\ Spawns(m, {"store"}, {"store", "activity", "members"})
    BY DEF SentLive
  <1>2. Grown(s, to, m) /\ \A n : WentOffline(n)' <=> WentOffline(n)
    BY <1>1, SentIs, MarkKeep
  <1>3. PICK o, p, q, K : o = out[t] /\ p = pending[t] /\ q = posted[t] /\ K = Kin'
    OBVIOUS
  <1>4. o \in Seq(Frame) /\ p \in Seq(Frame) /\ q \in Seq(Frame)
    BY <1>3 DEF MsgTypes
  <1>5. Line(o, p, q, Kin) /\ Has(t) = Mail(o) \cup Mail(p) \cup Mail(q)
    BY <1>3 DEF OrderInv, LinesOrdered, Has
  <1>6. /\ Has(t) \subseteq 1 .. Len(sent)
        /\ \A a \in 1 .. Len(sent) : a < m
        /\ \A a, b \in 1 .. Len(sent) : <<a, b>> \in K => <<a, b>> \in Kin
    BY <1>2, <1>3, SentKin
  <1>7. Line(o, p, q, K)
    BY <1>5, <1>6, LineKin
  <1>8. \A n \in Mail(o) \cup Mail(p) \cup Mail(q) : n < m
    BY <1>5, <1>6
  <1>9. Delivered(m) \in Frame /\ \A n \in Msg : Delivered(m) # Chat(n)
    BY Frames
  <1>10. PICK z \in Seq(Frame) :
            /\ z = IF t = r THEN Append(q, Chat(m)) ELSE q
            /\ posted'[t] = z \/ posted'[t] = Append(z, Delivered(m))
    BY <1>3 DEF SentLive
  <1>11. z \in Seq(Frame) /\ Line(o, p, z, K) /\ \A n \in Mail(z) : n \in Mail(q) \/ n = m
    <2>1. /\ Append(q, Chat(m)) \in Seq(Frame) /\ Line(o, p, Append(q, Chat(m)), K)
          /\ Mail(Append(q, Chat(m))) = Mail(q) \cup {m}
      BY <1>4, <1>7, <1>8, LineTake
    <2> QED
      BY <1>7, <1>10, <2>1
  <1>12. /\ Mail(Append(z, Delivered(m))) = Mail(z) /\ Sorted(Append(z, Delivered(m)), K)
    <2>1. Sorted(z, K)
      BY <1>11 DEF Line
    <2> QED
      BY <1>9, <1>11, <2>1, NoteMail
  <1>13. Line(o, p, posted'[t], K) /\ Mail(posted'[t]) = Mail(z)
    <2>1. Line(o, p, Append(z, Delivered(m)), K)
      BY <1>11, <1>12 DEF Line
    <2> QED
      BY <1>10, <1>11, <1>12, <2>1
  <1>14. Mail(Append(p, Delivered(m))) = Mail(p) /\ Sorted(Append(p, Delivered(m)), K)
    <2>1. Sorted(p, K)
      BY <1>7 DEF Line
    <2> QED
      BY <1>4, <1>9, <2>1, NoteMail
  <1>15. pending'[t] = p \/ pending'[t] = Append(p, Delivered(m))
    BY <1>3 DEF SentLive
  <1>16. Line(o, pending'[t], posted'[t], K) /\ Mail(pending'[t]) = Mail(p)
    <2>1. Line(o, Append(p, Delivered(m)), posted'[t], K)
      BY <1>13, <1>14 DEF Line
    <2> QED
      BY <1>13, <1>14, <1>15, <2>1
  <1> QED
    BY <1>3, <1>11, <1>13, <1>16

\* Messages of the same kin stay in order.
LEMMA OrderStep ==
    ASSUME MsgTypes, AddressInv, PlaceInv, OrderInv, Effect
    PROVE  OrderInv'
  <1>1. CASE Calm
    <2>1. /\ UNCHANGED <<sent, spawned>> /\ UNCHANGED <<posted, pending, out, offline>> /\ (redis' => redis)
      BY <1>1 DEF Calm
    <2>2. Kin' = Kin /\ \A n : WentOffline(n)' = WentOffline(n)
      BY <2>1, KinSame
    <2> QED
      BY <2>1, <2>2 DEF OrderInv, MarksSent, LinesOrdered, ListsOrdered, PostedLive, ListedMarked, DrainOrdered
  <1>2. ASSUME NEW s \in Sess, Moved(s) PROVE OrderInv'
    BY <1>2, OrderMoved
  <1>3. ASSUME NEW s \in Sess, Drained(s) PROVE OrderInv'
    BY <1>3, OrderDrained
  <1>4. ASSUME NEW s \in Sess, NEW m \in Msg, Pushed(s, m) PROVE OrderInv'
    BY <1>4, OrderPushed
  <1>5. ASSUME NEW s \in Sess, NEW m \in Msg, NEW to \in User, SentAway(s, to, m) PROVE OrderInv'
    <2>1. Sends(s, to, m) /\ UNCHANGED <<posted, pending>> /\ Spawns(m, {}, {"store"})
      BY <1>5 DEF SentAway
    <2>2. Grown(s, to, m) /\ \A n : WentOffline(n)' <=> WentOffline(n)
      BY <2>1, SentIs, MarkKeep
    <2>3. ASSUME NEW t \in Sess PROVE Line(out[t], pending[t], posted[t], Kin')
      <3>1. Line(out[t], pending[t], posted[t], Kin) /\ Has(t) = Mail(out[t]) \cup Mail(pending[t]) \cup Mail(posted[t])
        BY DEF OrderInv, LinesOrdered, Has
      <3>2. /\ Has(t) \subseteq 1 .. Len(sent)
            /\ \A a, b \in 1 .. Len(sent) : <<a, b>> \in Kin' => <<a, b>> \in Kin
        BY <2>2, SentKin
      <3> QED
        BY <3>1, <3>2, LineKin
    <2> QED
      BY <2>1, <2>2, <2>3, OrderSent
  <1>6. ASSUME NEW s \in Sess, NEW m \in Msg, NEW to \in User, NEW r \in Sess, SentLive(s, to, r, m)
        PROVE  OrderInv'
    <2>1. Sends(s, to, m) /\ Spawns(m, {"store"}, {"store", "activity", "members"})
      BY <1>6 DEF SentLive
    <2>2. \A n : WentOffline(n)' <=> WentOffline(n)
      BY <2>1, MarkKeep
    <2>3. \A t \in Sess : /\ Line(out[t], pending'[t], posted'[t], Kin')
                          /\ Mail(pending'[t]) = Mail(pending[t])
                          /\ \A n \in Mail(posted'[t]) : n \in Mail(posted[t]) \/ n = m
      BY <1>6, LiveLine
    <2> QED
      BY <2>1, <2>2, <2>3, OrderSent
  <1> QED
    BY <1>1, <1>2, <1>3, <1>4, <1>5, <1>6 DEF Effect-----------------------------------------------------------------------------
(***************************************************************************)
(* The theorems of Delivery.                                               *)
(***************************************************************************)

\* Nothing has been sent.
LEMMA DeliveryInitInv == Init => DeliveryInv
  <1> SUFFICES ASSUME Init PROVE DeliveryInv
    OBVIOUS
  <1>1. /\ LifeInit /\ sent = <<>> /\ spawned = {} /\ job = [s \in Sess |-> <<>>]
        /\ posted = [s \in Sess |-> <<>>] /\ pending = [s \in Sess |-> <<>>]
        /\ out = [s \in Sess |-> <<>>] /\ offline = [u \in User |-> <<>>]
    BY DEF Init
  <1>2. LifeInv
    BY <1>1, LifeInitInv
  <1>3. \A s \in Sess : pc[s] = "idle" /\ posted[s] = <<>> /\ pending[s] = <<>> /\ out[s] = <<>>
    BY <1>1 DEF LifeInit
  <1>4. \A u \in User : offline[u] = <<>>
    BY <1>1
  <1>5. /\ sent \in Seq([by : Sess, to : User]) /\ Len(sent) = 0 /\ 0 <= MaxMsg /\ 1 .. Len(sent) = {}
    BY <1>1, DeliveryAssumption
  <1>6. MsgTypes
    BY <1>1, <1>3, <1>5, EmptyMail DEF MsgTypes
  <1>7. HistoryComplete
    BY <1>5 DEF HistoryComplete
  <1>8. /\ \A s \in Sess : Held(s) = {} /\ Has(s) = {}
        /\ \A u \in User : Listed(offline[u]) = {}
    BY <1>3, <1>4, EmptyMail DEF Held, Has
  <1>9. AddressInv
    BY <1>8 DEF AddressInv, Addressed
  <1>10. PlaceInv
    BY <1>3, <1>8 DEF PlaceInv, OnePlace, PushAlone, ListApart
  <1>11. \A n : ~WentOffline(n)
    BY <1>1 DEF WentOffline
  <1>12. MarksSent /\ PostedLive /\ ListedMarked
    BY <1>8, <1>11 DEF MarksSent, PostedLive, ListedMarked
  <1>13. LinesOrdered /\ ListsOrdered
    BY <1>3, <1>4, EmptyMail DEF LinesOrdered, ListsOrdered, Line, Older
  <1>14. DrainOrdered
    BY <1>8, SessionAssumption DEF DrainOrdered, Older
  <1> QED
    BY <1>2, <1>6, <1>7, <1>9, <1>10, <1>12, <1>13, <1>14 DEF DeliveryInv, OrderInv

\* DeliveryInv is inductive.
LEMMA DeliveryInvStep == DeliveryInv /\ [Next]_vars => DeliveryInv'
  <1> SUFFICES ASSUME DeliveryInv, [Next]_vars PROVE DeliveryInv'
    OBVIOUS
  <1>1. LifeInv /\ MsgTypes /\ HistoryComplete /\ AddressInv /\ PlaceInv /\ OrderInv
    BY DEF DeliveryInv
  <1>2. LifeInv'
    BY <1>1, DeliveryLife
  <1>3. Shape' /\ Asks' /\ Effect
    BY <1>1, Effects
  <1>4. MsgTypes' /\ HistoryComplete' /\ AddressInv'
    BY <1>1, <1>3, TypesStep, HistoryStep, AddressStep
  <1>5. PlaceInv' /\ OrderInv'
    BY <1>1, <1>3, PlaceStep, OrderStep
  <1> QED
    BY <1>2, <1>4, <1>5 DEF DeliveryInv

\* The inductive invariant holds in every reachable state of Delivery.
THEOREM DeliveryInvariant == Safety => []DeliveryInv
  BY DeliveryInitInv, DeliveryInvStep, PTL DEF Safety

\* The types: a handler that waits for Redis holds a message that was sent, one
\* that waits for Postgres a user.
THEOREM DeliveryTypes == Safety => []TypeOK
  <1>1. DeliveryInv => TypeOK
    BY DEF DeliveryInv, LifeInv, MsgTypes, TypeOK
  <1> QED
    BY <1>1, DeliveryInvariant, PTL

\* Every message that has left its handler is on its way into the history, also
\* one that a broken Redis connection or a dying recipient lost.
THEOREM NothingUnstored == Safety => []HistoryComplete
  <1>1. DeliveryInv => HistoryComplete
    BY DEF DeliveryInv
  <1> QED
    BY <1>1, DeliveryInvariant, PTL

\* Messages and receipts only go to connections and lists of the right user,
\* whatever connections come and go between the lookup and the write.
THEOREM RightConnection == Safety => []RightRecipient
  <1>1. ASSUME DeliveryInv PROVE RightRecipient
    <2>1. MsgTypes /\ AddressInv
      BY <1>1 DEF DeliveryInv
    <2>2. ASSUME NEW s \in Sess, NEW f \in ToSet(posted[s] \o pending[s] \o out[s])
          PROVE  /\ f.type = "chat" => f.msg <= Len(sent) /\ sent[f.msg].to = Owner[s]
                 /\ f.type = "delivered" => f.msg <= Len(sent) /\ Owner[sent[f.msg].by] = Owner[s]
      <3>1. /\ posted[s] \in Seq(Frame) /\ pending[s] \in Seq(Frame) /\ out[s] \in Seq(Frame)
            /\ posted[s] \o pending[s] \in Seq(Frame) /\ Pong \in Frame
        BY <2>1, Frames DEF MsgTypes
      <3>2. Listed(posted[s] \o pending[s]) = Listed(posted[s]) \cup Listed(pending[s])
        BY <3>1, Contents
      <3>3. Listed((posted[s] \o pending[s]) \o out[s]) = Listed(posted[s] \o pending[s]) \cup Listed(out[s])
        <4>1. PICK z : z = posted[s] \o pending[s] /\ z \in Seq(Frame)
          BY <3>1
        <4>2. z \in Seq(Frame) /\ out[s] \in Seq(Frame) /\ Pong \in Frame
          BY <3>1, <4>1
        <4>3. Listed(z \o out[s]) = Listed(z) \cup Listed(out[s])
          BY <4>2, Contents
        <4> QED
          BY <4>1, <4>3
      <3>4. f \in Held(s)
        BY <2>2, <3>2, <3>3 DEF ToSet, Held, Listed
      <3>5. f \in Frame
        BY <3>1, <3>4 DEF Held, Listed
      <3>6. Addressed(Held(s), s, sent)
        BY <2>1 DEF AddressInv
      <3>7. CASE f = Pong
        BY <3>7 DEF Pong
      <3>8. ASSUME NEW m \in Msg, f = Chat(m)
            PROVE  /\ f.type = "chat" => f.msg <= Len(sent) /\ sent[f.msg].to = Owner[s]
                   /\ f.type = "delivered" => f.msg <= Len(sent) /\ Owner[sent[f.msg].by] = Owner[s]
        <4>1. f.type = "chat" /\ f.msg = m
          BY <3>8 DEF Chat
        <4>2. m <= Len(sent) /\ sent[m].to = Owner[s]
          BY <3>4, <3>6, <3>8 DEF Addressed
        <4> QED
          BY <4>1, <4>2
      <3>9. ASSUME NEW m \in Msg, f = Delivered(m)
            PROVE  /\ f.type = "chat" => f.msg <= Len(sent) /\ sent[f.msg].to = Owner[s]
                   /\ f.type = "delivered" => f.msg <= Len(sent) /\ Owner[sent[f.msg].by] = Owner[s]
        <4>1. f.type = "delivered" /\ f.msg = m
          BY <3>9 DEF Delivered
        <4>2. m <= Len(sent) /\ Owner[sent[m].by] = Owner[s]
          BY <3>4, <3>6, <3>9 DEF Addressed
        <4> QED
          BY <4>1, <4>2
      <3> QED
        BY <3>5, <3>7, <3>8, <3>9, Frames
    <2>3. \A u \in User : \A m \in ToSet(offline[u]) : m <= Len(sent) /\ sent[m].to = u
      BY <2>1 DEF AddressInv, ToSet, Listed
    <2> QED
      BY <2>2, <2>3 DEF RightRecipient
  <1> QED
    BY <1>1, DeliveryInvariant, PTL
\* Messages of one sending connection that took the same way reach a recipient's
\* connection in the order they were sent.
THEOREM InPathOrder == Safety => []PathOrder
  <1>1. ASSUME DeliveryInv PROVE PathOrder
    <2>1. MsgTypes /\ AddressInv /\ OrderInv
      BY <1>1 DEF DeliveryInv
    <2>2. ASSUME NEW s \in Sess, NEW q, q = out[s] \o pending[s],
                 NEW i \in DOMAIN q, NEW j \in DOMAIN q,
                 i < j, q[i].type = "chat", q[j].type = "chat",
                 sent[q[i].msg].by = sent[q[j].msg].by,
                 WentOffline(q[i].msg) = WentOffline(q[j].msg)
          PROVE  q[i].msg < q[j].msg
      <3>1. out[s] \in Seq(Frame) /\ pending[s] \in Seq(Frame) /\ Pong \in Frame
        BY <2>1, Frames DEF MsgTypes
      <3>2. Line(out[s], pending[s], posted[s], Kin)
        BY <2>1 DEF OrderInv, LinesOrdered
      <3>3. Sorted(out[s], Kin) /\ Sorted(pending[s], Kin) /\ Older(Mail(out[s]), Mail(pending[s]), Kin)
        BY <3>2 DEF Line
      <3>4. q \in Seq(Frame) /\ Sorted(q, Kin)
        BY <2>2, <3>1, <3>3, ConcatMail
      <3>5. Listed(q) = Listed(out[s]) \cup Listed(pending[s])
        BY <2>2, <3>1, Contents
      <3>6. q[i] \in Frame /\ q[j] \in Frame /\ q[i] \in Held(s) /\ q[j] \in Held(s)
        <4>1. q[i] \in Frame /\ q[j] \in Frame
          BY <3>4, ElementOfSeq
        <4>2. q[i] \in Listed(q) /\ q[j] \in Listed(q)
          BY DEF Listed
        <4> QED
          BY <3>5, <4>1, <4>2 DEF Held
      <3>7. ASSUME NEW f \in Frame, f.type = "chat" PROVE \E n \in Msg : f = Chat(n) /\ f.msg = n
        <4>1. Pong.type # "chat" /\ \A n : Delivered(n).type # "chat" /\ Chat(n).msg = n
          BY DEF Pong, Delivered, Chat
        <4> QED
          BY <3>7, <4>1, Frames
      <3>8. PICK m \in Msg : q[i] = Chat(m) /\ q[i].msg = m
        BY <2>2, <3>6, <3>7
      <3>9. PICK n \in Msg : q[j] = Chat(n) /\ q[j].msg = n
        BY <2>2, <3>6, <3>7
      <3>10. m <= Len(sent) /\ n <= Len(sent)
        BY <2>1, <3>6, <3>8, <3>9 DEF AddressInv, Addressed
      <3>11. m \in 1 .. Len(sent) /\ n \in 1 .. Len(sent)
        BY <2>1, <3>10, DeliveryAssumption DEF Msg, MsgTypes
      <3>12. <<m, n>> \in Kin
        BY <2>2, <3>8, <3>9, <3>11 DEF Kin
      <3>13. m < n
        BY <2>2, <3>4, <3>8, <3>9, <3>12 DEF Sorted
      <3> QED
        BY <3>8, <3>9, <3>13
    <2> QED
      BY <2>2 DEF PathOrder
  <1> QED
    BY <1>1, DeliveryInvariant, PTL

\* Where a copy of a message is.
AtJob(c, m) == \E s \in Sess : c = <<"job", s>> /\ pc[s] = "push" /\ job[s] = <<m>>
AtConn(c, m, s) ==
    \/ \E i \in DOMAIN posted[s] : c = <<"posted", s, i>> /\ posted[s][i] = Chat(m)
    \/ \E i \in DOMAIN pending[s] : c = <<"pending", s, i>> /\ pending[s][i] = Chat(m)
    \/ \E i \in DOMAIN out[s] : c = <<"out", s, i>> /\ out[s][i] = Chat(m)
AtList(c, m, u) == redis /\ \E i \in DOMAIN offline[u] : c = <<"offline", u, i>> /\ offline[u][i] = m

\* There are no other copies.
LEMMA CopyIs ==
    ASSUME NEW m, NEW c \in Copies(m)
    PROVE  AtJob(c, m) \/ (\E s \in Sess : AtConn(c, m, s)) \/ \E u \in User : AtList(c, m, u)
  <1> DEFINE J == {<<"job", s>> : s \in {t \in Sess : pc[t] = "push" /\ job[t] = <<m>>}}
             P == UNION {{<<"posted", s, i>> : i \in {k \in DOMAIN posted[s] : posted[s][k] = Chat(m)}} : s \in Sess}
             Q == UNION {{<<"pending", s, i>> : i \in {k \in DOMAIN pending[s] : pending[s][k] = Chat(m)}} : s \in Sess}
             O == UNION {{<<"out", s, i>> : i \in {k \in DOMAIN out[s] : out[s][k] = Chat(m)}} : s \in Sess}
             L == UNION {{<<"offline", u, i>> : i \in {k \in DOMAIN offline[u] : redis /\ offline[u][k] = m}} : u \in User}
  <1>1. CASE c \in J
    BY <1>1 DEF AtJob
  <1>2. CASE c \in P
    BY <1>2 DEF AtConn
  <1>3. CASE c \in Q
    BY <1>3 DEF AtConn
  <1>4. CASE c \in O
    BY <1>4 DEF AtConn
  <1>5. CASE c \in L
    BY <1>5 DEF AtList
  <1>6. Copies(m) = J \cup P \cup Q \cup O \cup L
    BY DEF Copies
  <1> HIDE DEF J, P, Q, O, L
  <1> QED
    BY <1>1, <1>2, <1>3, <1>4, <1>5, <1>6

\* A message that is of its own kin is once in a queue.
LEMMA OnceSorted ==
    ASSUME NEW T, NEW q \in Seq(T), NEW K, Sorted(q, K), NEW m \in Msg, <<m, m>> \in K,
           NEW i \in DOMAIN q, NEW j \in DOMAIN q, q[i] = Chat(m), q[j] = Chat(m)
    PROVE  i = j
  <1>1. i \in Nat /\ j \in Nat /\ m \in Nat
    BY Frames
  <1>2. ~(m < m)
    BY <1>1
  <1>3. ~(i < j) /\ ~(j < i)
    BY <1>2 DEF Sorted
  <1> QED
    BY <1>1, <1>3

\* Two copies on the way of a connection are one.
LEMMA ConnOnce ==
    ASSUME DeliveryInv, NEW m \in Msg, <<m, m>> \in Kin, NEW s \in Sess, NEW c, NEW d,
           AtConn(c, m, s), AtConn(d, m, s)
    PROVE  c = d
  <1>1. posted[s] \in Seq(Frame) /\ pending[s] \in Seq(Frame) /\ out[s] \in Seq(Frame)
    BY DEF DeliveryInv, MsgTypes
  <1>2. Line(out[s], pending[s], posted[s], Kin)
    BY DEF DeliveryInv, OrderInv, LinesOrdered
  <1>3. ~(m < m)
    BY Frames
  <1>4. /\ ~(m \in Mail(out[s]) /\ m \in Mail(pending[s]))
        /\ ~(m \in Mail(out[s]) /\ m \in Mail(posted[s]))
        /\ ~(m \in Mail(pending[s]) /\ m \in Mail(posted[s]))
    BY <1>2, <1>3 DEF Line, Older
  <1>5. /\ \A i, j \in DOMAIN posted[s] : posted[s][i] = Chat(m) /\ posted[s][j] = Chat(m) => i = j
        /\ \A i, j \in DOMAIN pending[s] : pending[s][i] = Chat(m) /\ pending[s][j] = Chat(m) => i = j
        /\ \A i, j \in DOMAIN out[s] : out[s][i] = Chat(m) /\ out[s][j] = Chat(m) => i = j
    BY <1>1, <1>2, OnceSorted DEF Line
  <1>6. CASE m \in Mail(posted[s])
    BY <1>4, <1>5, <1>6 DEF AtConn, Mail
  <1>7. CASE m \in Mail(pending[s])
    BY <1>4, <1>5, <1>7 DEF AtConn, Mail
  <1>8. CASE m \in Mail(out[s])
    BY <1>4, <1>5, <1>8 DEF AtConn, Mail
  <1> QED
    BY <1>6, <1>7, <1>8 DEF AtConn, Mail

\* Two copies in lists are one.
LEMMA ListOnce ==
    ASSUME DeliveryInv, NEW m \in Msg, <<m, m>> \in Kin, NEW u \in User, NEW v \in User, NEW c, NEW d,
           AtList(c, m, u), AtList(d, m, v)
    PROVE  c = d
  <1>1. PICK i \in DOMAIN offline[u] : c = <<"offline", u, i>> /\ offline[u][i] = m
    BY DEF AtList
  <1>2. PICK j \in DOMAIN offline[v] : d = <<"offline", v, j>> /\ offline[v][j] = m
    BY DEF AtList
  <1>3. u = v
    BY <1>1, <1>2 DEF DeliveryInv, AddressInv, Listed
  <1>4. PICK l : l = offline[u] /\ l \in Seq(Msg) /\ Sorted(Items(l), Kin)
    BY DEF DeliveryInv, MsgTypes, OrderInv, ListsOrdered
  <1>5. /\ Items(l) \in Seq(Frame) /\ i \in DOMAIN Items(l) /\ j \in DOMAIN Items(l)
        /\ Items(l)[i] = Chat(m) /\ Items(l)[j] = Chat(m)
    BY <1>1, <1>2, <1>3, <1>4, ItemsMail
  <1>6. i = j
    BY <1>4, <1>5, OnceSorted
  <1> QED
    BY <1>1, <1>2, <1>3, <1>6

\* Two copies of a message are one.
LEMMA CopyOnce ==
    ASSUME DeliveryInv, NEW m \in 1 .. Len(sent), NEW c \in Copies(m), NEW d \in Copies(m)
    PROVE  c = d
  <1>1. m \in Msg /\ <<m, m>> \in Kin
    BY DeliveryAssumption DEF DeliveryInv, MsgTypes, Msg, Kin
  <1>2. \A e, s : s \in Sess /\ AtConn(e, m, s) => m \in Has(s)
    BY <1>1 DEF AtConn, Has, Mail
  <1>3. \A e, u : u \in User /\ AtList(e, m, u) => redis /\ m \in Listed(offline[u])
    BY DEF AtList, Listed
  <1>4. PlaceInv
    BY DEF DeliveryInv
  <1>5. ASSUME NEW s \in Sess, pc[s] = "push", job[s] = <<m>>
        PROVE  /\ \A e : \A t \in Sess : ~AtConn(e, m, t)
               /\ \A e : \A u \in User : ~AtList(e, m, u)
               /\ sent[m].by = s
    <2>1. /\ \A t \in Sess : m \notin Has(t)
          /\ \A u \in User : m \notin Listed(offline[u])
          /\ sent[m].by = s
      BY <1>1, <1>4, <1>5 DEF PlaceInv, PushAlone
    <2> QED
      BY <1>2, <1>3, <2>1
  <1>6. CASE AtJob(c, m) \/ AtJob(d, m)
    <2>1. AtJob(c, m) /\ AtJob(d, m)
      BY <1>5, <1>6, CopyIs DEF AtJob
    <2> QED
      BY <1>5, <2>1 DEF AtJob
  <1>7. ASSUME NEW s \in Sess, NEW t \in Sess, AtConn(c, m, s), AtConn(d, m, t) PROVE c = d
    <2>1. s = t
      BY <1>2, <1>4, <1>7 DEF PlaceInv, OnePlace
    <2> QED
      BY <1>1, <1>7, <2>1, ConnOnce
  <1>8. ASSUME NEW u \in User, NEW v \in User, AtList(c, m, u), AtList(d, m, v) PROVE c = d
    BY <1>1, <1>8, ListOnce
  <1>9. ASSUME NEW s \in Sess, NEW u \in User, NEW e, NEW f, AtConn(e, m, s), AtList(f, m, u) PROVE FALSE
    BY <1>2, <1>3, <1>4, <1>9 DEF PlaceInv, ListApart
  <1> QED
    BY <1>6, <1>7, <1>8, <1>9, CopyIs

\* A message is delivered at most once and is never in two places, whatever the
\* recipient's connections do between the sender's lookup, its lpush and their
\* own drain of the offline list.
THEOREM DeliveredOnce == Safety => []AtMostOnce
  <1>1. ASSUME DeliveryInv PROVE AtMostOnce
    <2>1. ASSUME NEW m \in 1 .. Len(sent) PROVE Cardinality(Copies(m)) <= 1
      <3>1. CASE Copies(m) = {}
        BY <3>1, FS_EmptySet
      <3>2. CASE Copies(m) # {}
        <4>1. PICK c : c \in Copies(m)
          BY <3>2
        <4>2. \A d \in Copies(m) : d = c
          BY <1>1, <2>1, <4>1, CopyOnce
        <4>3. Copies(m) = {c}
          BY <4>1, <4>2
        <4>4. Cardinality({c}) = 1
          BY FS_Singleton
        <4> QED
          BY <4>3, <4>4
      <3> QED
        BY <3>1, <3>2
    <2> QED
      BY <2>1 DEF AtMostOnce
  <1> QED
    BY <1>1, DeliveryInvariant, PTL
=============================================================================
