------------------------------- MODULE Delivery -------------------------------
(***************************************************************************)
(* Direct messages between users of one server: what Session::route_message*)
(* and WebSocketSession::route_message do with a CHAT frame, over the      *)
(* sessions of module SessionLife.                                         *)
(*                                                                         *)
(* The sender's coroutine looks the recipient up in the registry.  Online: *)
(* a handler is posted to the recipient's strand, which calls enqueue(),   *)
(* and the sender gets a DELIVERED receipt.  Offline: the message is       *)
(* pushed onto the recipient's Redis list, which the recipient's next      *)
(* run() drains before its message loop.  The outbound side of a session   *)
(* is used through the promise of module Outbox, which WriteQueue          *)
(* implements.                                                             *)
(*                                                                         *)
(* A message is its position in `sent`: that is the order in which ids     *)
(* were drawn from SnowflakeGen (see that module for their uniqueness).    *)
(***************************************************************************)
EXTENDS SessionLife, Sequences, SequencesExt

CONSTANTS
    MaxMsg,     \* bound: messages sent in a behaviour
    Writes      \* pairs <<s, u>>: the peer of s writes to user u

ASSUME DeliveryAssumption == MaxMsg \in Nat /\ Writes \subseteq Sess \X User

VARIABLES
    sent,       \* sent[m] = [by |-> sending session, to |-> recipient]
    job,        \* job[s]: the message s is pushing, or <<user>> it is resolving
    posted,     \* posted[s]: frames of the enqueue() handlers waiting on s's strand
    pending,    \* pending[s]: accepted by enqueue(), not yet written (Outbox)
    out,        \* out[s]: frames written to the peer of s, in order
    offline,    \* offline[u]: the Redis list offline:{user}, oldest first
    spawned     \* detached coroutines started: <<"store" | "unread" | ..., m>>

msgVars == <<sent, job, posted, pending, out, offline, spawned>>
vars == <<lifeVars, msgVars>>

Msg == 1 .. MaxMsg
Chat(m) == [type |-> "chat", msg |-> m]
Delivered(m) == [type |-> "delivered", msg |-> m]
Pong == [type |-> "pong", msg |-> 0]
Frame == {Chat(m) : m \in Msg} \cup {Delivered(m) : m \in Msg} \cup {Pong}

Detached == {"store", "unread", "members", "activity"}

Init ==
    /\ LifeInit
    /\ sent = <<>>
    /\ job = [s \in Sess |-> <<>>]
    /\ posted = [s \in Sess |-> <<>>]
    /\ pending = [s \in Sess |-> <<>>]
    /\ out = [s \in Sess |-> <<>>]
    /\ offline = [u \in User |-> <<>>]
    /\ spawned = {}

-----------------------------------------------------------------------------
\* The weak_ptr of s still locks: run(), heartbeat_loop(), a posted handler or
\* do_write() holds the object.
Alive(s) == \/ pc[s] \notin {"gone", "done"}
            \/ heartbeat[s]
            \/ posted[s] # <<>>
            \/ pending[s] # <<>>

\* SessionRegistry::lookup
Lookup(u) == IF registry[u] # None /\ Alive(registry[u]) THEN registry[u] ELSE None

\* net::post to the strand of r, when there is one, of an enqueue(f) handler.
Post(q, r, f) == IF r = None THEN q ELSE [q EXCEPT ![r] = Append(@, f)]

\* Mutant: the message is routed and never stored.
BackgroundUnstored(s, m) == {<<"activity", m>>}
                            \cup (IF Kind[s] = "tcp" THEN {<<"members", m>>} ELSE {})

\* The coroutines spawned for m whatever happened to it, once it is routed.
\* (On a WebSocket the conversation's members exist already.)
Background(s, m) == {<<"store", m>>, <<"activity", m>>}
                    \cup (IF Kind[s] = "tcp" THEN {<<"members", m>>} ELSE {})

\* Mutant: the message goes to the sender and the receipt to the recipient.
RouteTcpSwapped(s, to) ==
    LET m == Len(sent) + 1
        r == Lookup(to)
    IN
    /\ Kind[s] = "tcp" /\ sock[s] = "open" /\ pc[s] = "loop" /\ m <= MaxMsg
    /\ sent' = Append(sent, [by |-> s, to |-> to])
    /\ r # None
    /\ posted' = Post(Post(posted, Lookup(Owner[s]), Chat(m)), r, Delivered(m))
    /\ spawned' = spawned \cup Background(s, m)
    /\ UNCHANGED <<lifeVars, job, pending, out, offline>>

\* TCP: a CHAT frame for user `to` the rate limiter lets through, up to the
\* lpush, or to the end when the recipient is online.
RouteTcp(s, to) ==
    LET m == Len(sent) + 1
        r == Lookup(to)
    IN
    /\ Kind[s] = "tcp" /\ sock[s] = "open" /\ pc[s] = "loop" /\ m <= MaxMsg
    /\ sent' = Append(sent, [by |-> s, to |-> to])
    /\ \/ /\ r # None
          /\ posted' = Post(Post(posted, r, Chat(m)), Lookup(Owner[s]), Delivered(m))
          /\ spawned' = spawned \cup Background(s, m)
          /\ UNCHANGED <<lifeVars, job>>
       \/ /\ r = None
          /\ Suspend(s, "push")
          /\ job' = [job EXCEPT ![s] = <<m>>]
          /\ UNCHANGED <<posted, spawned>>
    /\ UNCHANGED <<pending, out, offline>>

\* WebSocket: a "chat" frame; the recipient is read from conv_members first.
ResolveWs(s, to) ==
    /\ Kind[s] = "ws" /\ Len(sent) < MaxMsg
    /\ Suspend(s, "conv")
    /\ job' = [job EXCEPT ![s] = <<to>>]
    /\ UNCHANGED <<sent, posted, pending, out, offline, spawned>>

\* Postgres answers.  No such conversation, or an error: the frame is ignored.
ResolveFails(s) ==
    /\ pc[s] = "conv"
    /\ Resume(s)
    /\ job' = [job EXCEPT ![s] = <<>>]
    /\ UNCHANGED <<sent, posted, pending, out, offline, spawned>>

\* The store is spawned before the routing here, and the receipt goes straight
\* into the sender's own write queue.
RouteWs(s) ==
    LET m == Len(sent) + 1
        to == job[s][1]
        r == Lookup(to)
    IN
    /\ pc[s] = "conv" /\ m <= MaxMsg
    /\ sent' = Append(sent, [by |-> s, to |-> to])
    /\ \/ /\ r # None
          /\ Resume(s)
          /\ posted' = Post(posted, r, Chat(m))
          /\ pending' = [pending EXCEPT ![s] = Append(@, Delivered(m))]
          /\ spawned' = spawned \cup Background(s, m)
          /\ job' = [job EXCEPT ![s] = <<>>]
       \/ /\ r = None
          /\ Suspend(s, "push")
          /\ job' = [job EXCEPT ![s] = <<m>>]
          /\ spawned' = spawned \cup {<<"store", m>>}
          /\ UNCHANGED <<posted, pending>>
    /\ UNCHANGED <<out, offline>>

\* Mutant: a broken Redis blocks the handler.
PushBlocks(s) ==
    LET m == job[s][1] IN
    /\ pc[s] = "push" /\ redis
    /\ Resume(s)
    /\ offline' = [offline EXCEPT ![sent[m].to] = Append(@, m)]
    /\ spawned' = spawned \cup Background(s, m) \cup {<<"unread", m>>}
    /\ job' = [job EXCEPT ![s] = <<>>]
    /\ UNCHANGED <<sent, posted, pending, out>>

\* LPUSH offline:{user}; a broken connection loses the message silently.
Lpush(u, m) == offline' = [offline EXCEPT ![u] = IF redis THEN Append(@, m) ELSE @]

Push(s) ==
    LET m == job[s][1] IN
    /\ pc[s] = "push"
    /\ Resume(s)
    /\ Lpush(sent[m].to, m)
    /\ spawned' = spawned \cup Background(s, m) \cup {<<"unread", m>>}
    /\ job' = [job EXCEPT ![s] = <<>>]
    /\ UNCHANGED <<sent, posted, pending, out>>

\* A "ping" on a WebSocket: the pong is queued like any frame.
PingWs(s) ==
    /\ Kind[s] = "ws" /\ sock[s] = "open" /\ pc[s] = "loop"
    /\ ~Contains(pending[s] \o out[s], Pong)        \* bound: one pong per connection
    /\ pending' = [pending EXCEPT ![s] = Append(@, Pong)]
    /\ UNCHANGED <<lifeVars, sent, job, posted, out, offline, spawned>>

\* Mutants: the list is not deleted; it is sent newest first, as LRANGE returns it.
FlushWithoutDel(s) ==
    /\ Flush(s)
    /\ pending' = [pending EXCEPT ![s] =
                      @ \o [i \in DOMAIN offline[Owner[s]] |-> Chat(offline[Owner[s]][i])]]
    /\ UNCHANGED <<sent, job, posted, out, offline, spawned>>
FlushNewestFirst(s) ==
    LET items == Reverse(offline[Owner[s]]) IN
    /\ Flush(s)
    /\ pending' = [pending EXCEPT ![s] = @ \o [i \in DOMAIN items |-> Chat(items[i])]]
    /\ offline' = [offline EXCEPT ![Owner[s]] = <<>>]
    /\ UNCHANGED <<sent, job, posted, out, spawned>>

\* LRANGE and DEL under the client's mutex; a broken connection returns nothing.
LrangeAndDel(u, items) ==
    /\ items = IF redis THEN offline[u] ELSE <<>>
    /\ offline' = IF redis THEN [offline EXCEPT ![u] = <<>>] ELSE offline

\* flush_offline_queue(): enqueue() of every item, oldest first.
FlushOffline(s) ==
    /\ Flush(s)
    /\ \E items \in {offline[Owner[s]], <<>>} :
          /\ LrangeAndDel(Owner[s], items)
          /\ pending' = [pending EXCEPT ![s] = @ \o [i \in DOMAIN items |-> Chat(items[i])]]
    /\ UNCHANGED <<sent, job, posted, out, spawned>>

\* The Redis connection breaks between LRANGE and DEL: the items are queued, and
\* stay in a list that this process cannot read any more.
FlushBroken(s) ==
    LET items == offline[Owner[s]] IN
    /\ items # <<>> /\ redis
    /\ redis' = FALSE
    /\ SetPc(s, {"flush"}, "loop")
    /\ heartbeat' = [heartbeat EXCEPT ![s] = TRUE]
    /\ pending' = [pending EXCEPT ![s] = @ \o [i \in DOMAIN items |-> Chat(items[i])]]
    /\ UNCHANGED <<sock, registry, presence, last_seen, gauges>>
    /\ UNCHANGED <<sent, job, posted, out, offline, spawned>>

\* A posted handler runs on the strand: enqueue().
RunPosted(s) ==
    /\ posted[s] # <<>>
    /\ pending' = [pending EXCEPT ![s] = Append(@, Head(posted[s]))]
    /\ posted' = [posted EXCEPT ![s] = Tail(@)]
    /\ UNCHANGED <<lifeVars, sent, job, out, offline, spawned>>

\* Outbox!Transmit and Outbox!Drop of session s.
Transmit(s) ==
    /\ pending[s] # <<>> /\ sock[s] = "open"
    /\ out' = [out EXCEPT ![s] = Append(@, Head(pending[s]))]
    /\ pending' = [pending EXCEPT ![s] = Tail(@)]
    /\ UNCHANGED <<lifeVars, sent, job, posted, offline, spawned>>

Drop(s) ==
    /\ pending[s] # <<>> /\ sock[s] = "closed"
    /\ pending' = [pending EXCEPT ![s] = Tail(@)]
    /\ UNCHANGED <<lifeVars, sent, job, posted, out, offline, spawned>>

-----------------------------------------------------------------------------
\* The steps of run() that touch no message.
QuietStep(s) ==
    /\ \/ Accept(s) \/ HandshakeOk(s) \/ HandshakeFail(s)
       \/ AuthFail(s) \/ RejectWritten(s) \/ AuthOk(s)
       \/ SetPresence(s) \/ AckWritten(s)
       \/ Ping(s) \/ RefreshPresence(s) \/ RateLimited(s) \/ ReplyWritten(s)
       \/ Oversize(s) \/ Malformed(s)
       \/ Disconnect(s) \/ DelPresence(s) \/ SetLastSeen(s)
       \/ PeerClose(s) \/ HeartbeatTimeout(s)
    /\ UNCHANGED msgVars

\* The steps of the frame handlers.
HandlerStep(s) ==
    \/ \E to \in User : <<s, to>> \in Writes /\ (RouteTcp(s, to) \/ ResolveWs(s, to))
    \/ ResolveFails(s) \/ RouteWs(s) \/ Push(s) \/ PingWs(s)
    \/ FlushOffline(s) \/ FlushBroken(s)

Environment ==
    /\ RedisFail \/ \E u \in User : PresenceExpire(u)
    /\ UNCHANGED msgVars

Next ==
    \/ \E s \in Sess : QuietStep(s) \/ HandlerStep(s)
    \/ \E s \in Sess : RunPosted(s) \/ Transmit(s) \/ Drop(s)
    \/ Environment

Safety == Init /\ [][Next]_vars

\* The io thread runs posted handlers and finished waits; an open connection
\* takes what is written to it (a peer that stops reading is closed by the
\* heartbeat, or reads on).
Fairness ==
    \A s \in Sess :
        /\ WF_vars(RunPosted(s)) /\ WF_vars(Transmit(s)) /\ WF_vars(Push(s))
        /\ WF_vars(RouteWs(s) \/ ResolveFails(s))

Spec == Safety /\ Fairness

-----------------------------------------------------------------------------
(***************************************************************************)
(* Properties.                                                             *)
(***************************************************************************)

\* The types of the state.
TypeOK ==
    /\ LifeTypeOK
    /\ sent \in Seq([by : Sess, to : User]) /\ Len(sent) <= MaxMsg
    /\ \A s \in Sess : pc[s] = "push" => job[s] \in {<<m>> : m \in 1 .. Len(sent)}
    /\ \A s \in Sess : pc[s] = "conv" => job[s] \in {<<u>> : u \in User}
    /\ posted \in [Sess -> Seq(Frame)] /\ pending \in [Sess -> Seq(Frame)]
    /\ out \in [Sess -> Seq(Frame)] /\ offline \in [User -> Seq(Msg)]
    /\ spawned \subseteq Detached \X Msg

\* Where copies of message m are: pushed by a sender, on a strand, in a write
\* queue, in the offline list while it can be read, or with a peer.
Copies(m) ==
    {<<"job", s>> : s \in {t \in Sess : pc[t] = "push" /\ job[t] = <<m>>}}
    \cup (UNION {{<<"posted", s, i>> : i \in {k \in DOMAIN posted[s] : posted[s][k] = Chat(m)}} : s \in Sess})
    \cup (UNION {{<<"pending", s, i>> : i \in {k \in DOMAIN pending[s] : pending[s][k] = Chat(m)}} : s \in Sess})
    \cup (UNION {{<<"out", s, i>> : i \in {k \in DOMAIN out[s] : out[s][k] = Chat(m)}} : s \in Sess})
    \cup (UNION {{<<"offline", u, i>> : i \in {k \in DOMAIN offline[u] : redis /\ offline[u][k] = m}} : u \in User})

\* A message is delivered at most once and is never in two places, whatever the
\* recipient's connections do between the sender's lookup, its lpush and their
\* own drain of the offline list.
AtMostOnce == \A m \in 1 .. Len(sent) : Cardinality(Copies(m)) <= 1

\* A message is only ever handled for, and written to, its recipient; a receipt
\* only goes to the user who sent the message.
RightRecipient ==
    /\ \A s \in Sess : \A f \in ToSet(posted[s] \o pending[s] \o out[s]) :
          /\ f.type = "chat" => f.msg <= Len(sent) /\ sent[f.msg].to = Owner[s]
          /\ f.type = "delivered" => f.msg <= Len(sent) /\ Owner[sent[f.msg].by] = Owner[s]
    /\ \A u \in User : \A m \in ToSet(offline[u]) : m <= Len(sent) /\ sent[m].to = u

\* Every message that has left its handler is on its way into the history, also
\* one that a broken Redis connection or a dying recipient lost: the store is
\* spawned on both branches of the lookup.
HistoryComplete ==
    \A m \in 1 .. Len(sent) :
        <<"store", m>> \in spawned \/ \E s \in Sess : pc[s] = "push" /\ job[s] = <<m>>

\* m went through the offline list.
WentOffline(m) == <<"unread", m>> \in spawned

\* Messages of one sending connection that took the same way (both live, or
\* both through the offline list) reach a recipient's connection in the order
\* they were sent.
PathOrder ==
    \A s \in Sess :
        LET q == out[s] \o pending[s] IN
        \A i, j \in DOMAIN q :
            /\ i < j /\ q[i].type = "chat" /\ q[j].type = "chat"
            /\ sent[q[i].msg].by = sent[q[j].msg].by
            /\ WentOffline(q[i].msg) = WentOffline(q[j].msg)
            => q[i].msg < q[j].msg

\* "Messages sent to offline recipients are queued in Redis and delivered on
\* next connect": once the recipient's registered connection is in its loop,
\* nothing is left in the list, as long as Redis works.  Violated when the recipient
\* drains its list while the sender waits for its LPUSH.
DeliveredOnConnect ==
    redis => \A s \in Sess : pc[s] = "loop" /\ registry[Owner[s]] = s => offline[Owner[s]] = <<>>

\* m waits for nothing the server still has to do: it is with a peer, in the
\* offline list, lost, or queued for a connection that is closed.
Settled(m) ==
    \A c \in Copies(m) :
        \/ c[1] \in {"out", "offline"}
        \/ c[1] \in {"posted", "pending"} /\ sock[c[2]] = "closed"

\* Every message gets somewhere: the handler of the sender, the strand and the
\* writer of the recipient never leave one behind.
Settles == \A m \in Msg : (m <= Len(sent)) ~> Settled(m)
=============================================================================
