------------------------------ MODULE MCDelivery ------------------------------
(***************************************************************************)
(* Instances of Delivery for TLC: alice is connected and writes to bob,    *)
(* who connects once or twice.                                             *)
(***************************************************************************)
EXTENDS Delivery

CONSTANTS alice, bob, a1, b1, b2

MCUser == {alice, bob}

\* alice on a WebSocket, bob on TCP.
MCPair == {a1, b1}
MCPairOwner == a1 :> alice @@ b1 :> bob
MCPairKind == a1 :> "ws" @@ b1 :> "tcp"

\* alice on TCP, bob on two WebSockets.
MCTriple == {a1, b1, b2}
MCTripleOwner == a1 :> alice @@ b1 :> bob @@ b2 :> bob
MCTripleKind == a1 :> "tcp" @@ b1 :> "ws" @@ b2 :> "ws"

MCOneWay == {<<a1, bob>>}

\* A start in a reachable state: alice is connected, nobody else has been.
SenderUp ==
    /\ pc = [s \in Sess |-> IF s = a1 THEN "loop" ELSE "idle"]
    /\ sock = [s \in Sess |-> "open"]
    /\ heartbeat = [s \in Sess |-> s = a1]
    /\ registry = [u \in User |-> IF u = alice THEN a1 ELSE None]
    /\ presence = [u \in User |-> u = alice]
    /\ last_seen = [u \in User |-> FALSE]
    /\ redis = TRUE
    /\ active_sessions = 1
    /\ active_connections = 1
    /\ sent = <<>>
    /\ job = [s \in Sess |-> <<>>]
    /\ posted = [s \in Sess |-> <<>>]
    /\ pending = [s \in Sess |-> <<>>]
    /\ out = [s \in Sess |-> <<>>]
    /\ offline = [u \in User |-> <<>>]
    /\ spawned = {}

SenderUpSafety == SenderUp /\ [][Next]_vars

\* No handler reads a presence key, so leaving out their expiry (and only in
\* this instance) loses no behaviour of a message.
NextWithoutExpiry ==
    \/ \E s \in Sess : QuietStep(s) \/ HandlerStep(s)
    \/ \E s \in Sess : RunPosted(s) \/ Transmit(s) \/ Drop(s)
    \/ RedisFail /\ UNCHANGED msgVars

SenderUpSpec == SenderUp /\ [][NextWithoutExpiry]_vars /\ Fairness

\* Presence, last_seen and the gauges are written and never read by a guard of
\* a step that changes anything else, so states that differ only there agree on
\* every property about messages.
MessageView == <<pc, sock, heartbeat, registry, redis, msgVars>>

\* bob's two connections have the same owner and kind.
Reconnects == Permutations({b1, b2})
=============================================================================
