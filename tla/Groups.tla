-------------------------------- MODULE Groups --------------------------------
(***************************************************************************)
(* One group: its membership in PostgreSQL and in the Redis set            *)
(* group:{id}:members, the HTTP handlers that change the two one after the *)
(* other, the fan-outs that read them (group messages, typing events, read *)
(* receipts of both session classes), and the unread counters.             *)
(*                                                                         *)
(* Every handler is a coroutine in a slot of `slot`; a step is the code    *)
(* from one co_await to the next.  A slot is used again when its handler   *)
(* has returned.  PostgreSQL may refuse a call, and may break a write with *)
(* the commit in doubt; the Redis connection may break for good, after     *)
(* which commands are dropped and reads are empty; the server may restart. *)
(***************************************************************************)
EXTENDS Integers, FiniteSets

CONSTANTS
    User,
    Creator,    \* who creates the group
    MemberIds,  \* member_ids of POST /groups
    Req,        \* slots: handlers that run at the same time
    Calls,      \* bound: <<slot, operation, caller, user it is about>> that occur
    Mobile,     \* bound: users who connect and disconnect; the others are always
                \* connected, and again at once after a restart
    MaxUnread   \* bound: a message is sent while no counter can pass it

Op == {"create", "get", "patch", "add", "remove", "list", "read", "wsread", "typing", "tcp", "ws"}

ASSUME GroupsAssumption ==
    /\ Creator \in User /\ MemberIds \subseteq User /\ Mobile \subseteq User
    /\ Calls \subseteq Req \X Op \X User \X User
    /\ MaxUnread \in Nat

VARIABLES
    role,       \* group_members: role[u], "none" when u has no row
    name,       \* who last set groups.name; "none" before the group exists
    cached,     \* the Redis set group:{id}:members
    redis,      \* the Redis connection of this process works
    online,     \* users with a session in the registry
    slot,       \* the running handlers
    unread,     \* unread:{user}[group]
    bumps,      \* detached hincrby_unread coroutines not yet run
    \* What clients may conclude from the answers they got:
    claim,      \* "in": added, acknowledged; "out": removed or never added; "unsure"
    lost,       \* a SADD or SREM of some process was dropped
    unseen      \* messages pushed to offline:{user} that no read of the user that
                \* arrived later has reset, and whose increment was not lost

pgVars == <<role, name>>
unreadVars == <<unread, bumps, unseen>>
vars == <<pgVars, cached, redis, online, slot, unreadVars, claim, lost>>

Idle == [op |-> "none", by |-> Creator, who |-> Creator, pc |-> "idle",
         todo |-> {}, posted |-> {}, pushed |-> {}, acked |-> {}, spawned |-> {},
         due |-> {}, banned |-> {}, clash |-> FALSE]

Init ==
    /\ role = [u \in User |-> "none"] /\ name = "none"
    /\ cached = {} /\ redis = TRUE /\ online = User \ Mobile
    /\ slot = [r \in Req |-> Idle]
    /\ unread = [u \in User |-> 0] /\ bumps = [u \in User |-> 0]
    /\ claim = [u \in User |-> "out"] /\ lost = FALSE
    /\ unseen = [u \in User |-> 0]

Members == {u \in User : role[u] # "none"}

-----------------------------------------------------------------------------
(***************************************************************************)
(* The start of a handler.                                                 *)
(***************************************************************************)

\* What a new handler holds: the members who must, and the users who must not,
\* be told of what it does (see the properties).
Started(op, by, who, pc) ==
    [Idle EXCEPT !.op = op, !.by = by, !.who = who, !.pc = pc,
                 !.due = IF op \in {"tcp", "ws"} THEN {u \in User : claim[u] = "in"} \ {by} ELSE {},
                 !.banned = IF op \in {"create", "add", "remove", "patch"} THEN {}
                            ELSE {u \in User : claim[u] = "out"}]

Start(r, op, by, who, pc) ==
    /\ <<r, op, by, who>> \in Calls
    /\ slot[r].pc = "idle"
    /\ slot' = [slot EXCEPT ![r] = Started(op, by, who, pc)]
    /\ UNCHANGED <<pgVars, cached, redis, online, unreadVars, claim, lost>>

\* The users whose membership handler s is changing right now.
Subjects(s) == IF s.op = "create" THEN MemberIds \cup {Creator} ELSE {s.who}
Touched(s) == IF s.op \in {"create", "add", "remove"} /\ s.pc \in {"write", "cache"}
              THEN Subjects(s) ELSE {}

\* Handler r, in state s, is about to write the rows of the users in us: from
\* here to its answer nothing can be concluded about them.
EnterWrite(r, s, us) ==
    /\ slot' = [q \in Req |->
          IF q = r
          THEN [s EXCEPT !.pc = "write",
                         !.clash = \E p \in Req \ {r} : Touched(slot[p]) \cap us # {}]
          ELSE [slot[q] EXCEPT !.clash = @ \/ Touched(slot[q]) \cap us # {},
                               !.due = @ \ us, !.banned = @ \ us]]
    /\ claim' = [u \in User |-> IF u \in us THEN "unsure" ELSE claim[u]]

\* POST /groups.  The id is new, so there is one create in a behaviour.
PostGroups(r) ==
    /\ <<r, "create", Creator, Creator>> \in Calls
    /\ slot[r].pc = "idle" /\ name = "none"
    /\ \A q \in Req : slot[q].op # "create"
    /\ EnterWrite(r, Started("create", Creator, Creator, "write"), MemberIds \cup {Creator})
    /\ UNCHANGED <<pgVars, cached, redis, online, unreadVars, lost>>

GetGroup(r, u) == Start(r, "get", u, u, "row")
PatchGroup(r, u) == Start(r, "patch", u, u, "check")
PostMembers(r, u, w) == Start(r, "add", u, w, "check")

\* DELETE of somebody else asks for the admin role first; of oneself it does not.
DeleteMember(r, u, w) ==
    \/ u # w /\ Start(r, "remove", u, w, "check")
    \/ /\ u = w /\ <<r, "remove", u, w>> \in Calls /\ slot[r].pc = "idle"
       /\ EnterWrite(r, Started("remove", u, w, "write"), {w})
       /\ UNCHANGED <<pgVars, cached, redis, online, unreadVars, lost>>

ListConversations(r, u) == Start(r, "list", u, u, "rows")
PostRead(r, u) == Start(r, "read", u, u, "check")
WsRead(r, u) == u \in online /\ Start(r, "wsread", u, u, "hdel")
Typing(r, u) == u \in online /\ Start(r, "typing", u, u, "resolve")

Sending == {q \in Req : slot[q].op \in {"tcp", "ws"}}

\* A group message.  The sender's membership is not asked for.  A WebSocket
\* spawns the store of the message before it looks for the members.
GroupChat(r, u, kind) ==
    /\ u \in online
    /\ \A w \in User : unread[w] + bumps[w] + Cardinality(Sending) < MaxUnread
    /\ <<r, kind, u, u>> \in Calls /\ slot[r].pc = "idle"
    /\ slot' = [slot EXCEPT ![r] = [Started(kind, u, u, "resolve") EXCEPT
                                       !.spawned = IF kind = "ws" THEN {"store"} ELSE {}]]
    /\ UNCHANGED <<pgVars, cached, redis, online, unreadVars, claim, lost>>

-----------------------------------------------------------------------------
(***************************************************************************)
(* The awaits of the HTTP handlers.                                        *)
(***************************************************************************)

\* The handler returns; also what a read of PostgreSQL that throws comes to.
Answer(r) ==
    /\ slot' = [slot EXCEPT ![r] = Idle]
    /\ UNCHANGED <<pgVars, cached, redis, online, unreadVars, claim, lost>>

PgThrows(r) == slot[r].pc \in {"row", "members", "check", "rows"} /\ Answer(r)

\* GET /groups/{id}: the row, then the members with the caller's membership.
GroupRow(r) ==
    /\ slot[r].pc = "row"
    /\ \/ name = "none" /\ Answer(r)
       \/ /\ name # "none"
          /\ slot' = [slot EXCEPT ![r].pc = "members"]
          /\ UNCHANGED <<pgVars, cached, redis, online, unreadVars, claim, lost>>

\* The answer of GET /groups/{id} and of GET /conversations shows the group.
Show(r, pc) ==
    /\ slot' = [slot EXCEPT ![r].pc = pc, ![r].posted = {slot[r].by}]
    /\ UNCHANGED <<pgVars, cached, redis, online, unreadVars, claim, lost>>

\* Mutant: the members are shown to any caller.
GroupMembersAnyone(r) == slot[r].pc = "members" /\ Show(r, "end")

GroupMembers(r) ==
    /\ slot[r].pc = "members"
    /\ \/ slot[r].by \notin Members /\ Answer(r)
       \/ slot[r].by \in Members /\ Show(r, "end")

\* GET /conversations: the groups of the caller, then the unread counters.
ConversationRows(r) ==
    /\ slot[r].pc = "rows"
    /\ \/ slot[r].by \notin Members /\ Answer(r)
       \/ slot[r].by \in Members /\ Show(r, "hgetall")

HgetallUnread(r) == slot[r].pc = "hgetall" /\ Answer(r)

\* SELECT role: 403, or on to the write.
AdminCheck(r) ==
    LET s == slot[r] IN
    /\ s.pc = "check" /\ s.op \in {"patch", "add", "remove"}
    /\ \/ role[s.by] # "admin" /\ Answer(r)
       \/ /\ role[s.by] = "admin"
          /\ EnterWrite(r, s, IF s.op = "patch" THEN {} ELSE {s.who})
          /\ UNCHANGED <<pgVars, cached, redis, online, unreadVars, lost>>

\* The rows after the transaction of handler s; ON CONFLICT DO NOTHING.
Rows(s) ==
    CASE s.op = "create" -> [u \in User |-> IF u = Creator THEN "admin"
                                            ELSE IF u \in MemberIds THEN "member" ELSE role[u]]
      [] s.op = "add"    -> [role EXCEPT ![s.who] = IF @ = "none" THEN "member" ELSE @]
      [] s.op = "remove" -> [role EXCEPT ![s.who] = "none"]
      [] s.op = "patch"  -> role

\* The transaction commits, does nothing and throws, or throws with the commit
\* done (a NonRetryableWrite is not tried again): then the handler answers 500
\* and the Redis set is not touched.
Write(r) ==
    LET s == slot[r] IN
    /\ s.pc = "write"
    /\ \/ /\ slot' = [slot EXCEPT ![r] =
                IF s.op = "patch" THEN Idle
                ELSE [s EXCEPT !.pc = "cache", !.todo = Subjects(s)]]
          /\ role' = Rows(s)
          /\ name' = IF s.op \in {"create", "patch"} THEN s.by ELSE name
       \/ /\ slot' = [slot EXCEPT ![r] = Idle]
          /\ \/ UNCHANGED pgVars
             \/ /\ role' = Rows(s)
                /\ name' = IF s.op \in {"create", "patch"} THEN s.by ELSE name
    /\ UNCHANGED <<cached, redis, online, unreadVars, claim, lost>>

\* Mutant: a removed member stays in the set.
SaddOnly(s, u) == IF ~redis \/ s.op = "remove" THEN cached ELSE cached \cup {u}

\* sadd_group_member, srem_group_member: a broken connection drops the command.
SaddSrem(s, u) == IF ~redis THEN cached
                  ELSE IF s.op = "remove" THEN cached \ {u} ELSE cached \cup {u}

\* SADD (the creator first) or SREM, one user per await; after the last one the
\* handler answers 2xx.
Cache(r) ==
    LET s == slot[r] IN
    /\ s.pc = "cache"
    /\ \E u \in s.todo :
          /\ Creator \in s.todo => u = Creator
          /\ cached' = SaddSrem(s, u)
          /\ lost' = (lost \/ ~redis)
          /\ \/ /\ s.todo # {u}
                /\ slot' = [slot EXCEPT ![r].todo = @ \ {u}]
                /\ UNCHANGED claim
             \/ /\ s.todo = {u}
                /\ slot' = [slot EXCEPT ![r] = Idle]
                /\ claim' = [w \in User |->
                      IF w \in Subjects(s) /\ ~s.clash
                      THEN IF s.op = "remove" THEN "out" ELSE "in"
                      ELSE claim[w]]
    /\ UNCHANGED <<pgVars, redis, online, unreadVars>>

-----------------------------------------------------------------------------
(***************************************************************************)
(* Read receipts, typing events and messages.                              *)
(***************************************************************************)

\* POST /conversations/{id}/read: membership, 403 or on.  The query of conv_members
\* that comes before the one of group_members finds nothing for a group's id.
MemberCheck(r) ==
    LET s == slot[r] IN
    /\ s.pc = "check" /\ s.op = "read"
    /\ \/ s.by \notin Members /\ Answer(r)
       \/ /\ s.by \in Members
          /\ slot' = [slot EXCEPT ![r].pc = "hdel"]
          /\ UNCHANGED <<pgVars, cached, redis, online, unreadVars, claim, lost>>

\* HDEL of the counter.  The UPDATE of message_receipts is spawned with it; no
\* code inserts into that table, so it changes nothing.  The HTTP handler then
\* asks PostgreSQL for the members, the WebSocket handler Redis first.
HdelUnread(r) ==
    LET s == slot[r] IN
    /\ s.pc = "hdel"
    /\ unread' = IF redis THEN [unread EXCEPT ![s.by] = 0] ELSE unread
    /\ unseen' = [unseen EXCEPT ![s.by] = 0]
    /\ slot' = [slot EXCEPT ![r].pc = IF s.op = "read" THEN "fallback" ELSE "resolve"]
    /\ UNCHANGED <<pgVars, cached, redis, online, bumps, claim, lost>>

\* Mutant: members without a session are skipped.
RunOnOnline(r, s) ==
    slot' = [slot EXCEPT ![r] = [s EXCEPT !.pc = "end", !.todo = {},
                                          !.posted = @ \cup (s.todo \cap online)]]

\* A fan-out runs on over `todo`, whose order is any.  Members with a session
\* get a handler posted to their strand (TCP chat: and the sender a DELIVERED
\* receipt), up to the first one without.  Only messages are then pushed to the
\* offline list, which is an await; other events skip that member.
RunOn(r, s) ==
    IF s.op \notin {"tcp", "ws"}
    THEN slot' = [slot EXCEPT ![r] = [s EXCEPT !.pc = "end", !.todo = {},
                                               !.posted = @ \cup (s.todo \cap online)]]
    ELSE \E S \in SUBSET (s.todo \cap online) :
            LET t == [s EXCEPT !.posted = @ \cup S,
                               !.acked = IF s.op = "tcp" /\ s.by \in online THEN @ \cup S ELSE @]
            IN
            \/ /\ S = s.todo
               /\ slot' = [slot EXCEPT ![r] = [t EXCEPT !.pc = "end", !.todo = {},
                                                        !.spawned = {"store", "activity"}]]
            \/ \E m \in s.todo \ online :
                  slot' = [slot EXCEPT ![r] = [t EXCEPT !.pc = "push", !.todo = s.todo \ S,
                                                        !.who = m]]

\* SMEMBERS; an empty answer sends the handler to PostgreSQL.
Resolve(r) ==
    LET s == slot[r]
        found == IF redis THEN cached ELSE {}
    IN
    /\ s.pc = "resolve"
    /\ \/ found = {} /\ slot' = [slot EXCEPT ![r].pc = "fallback"]
       \/ found # {} /\ RunOn(r, [s EXCEPT !.todo = found \ {s.by}])
    /\ UNCHANGED <<pgVars, cached, redis, online, unreadVars, claim, lost>>

\* load_group_members_from_pg: an error leaves no members, and nobody is told.
Fallback(r) ==
    LET s == slot[r] IN
    /\ s.pc = "fallback"
    /\ \E found \in {Members, {}} : RunOn(r, [s EXCEPT !.todo = found \ {s.by}])
    /\ UNCHANGED <<pgVars, cached, redis, online, unreadVars, claim, lost>>

\* A read of u is under way: it has arrived and not come to its HDEL.
Reading(u) ==
    \E q \in Req : slot[q].op \in {"read", "wsread"} /\ slot[q].by = u /\ slot[q].pc \in {"check", "hdel"}

\* One more message for u, who is not reading, or whom it reached too late for that.
Unseen(u) == IF redis /\ ~Reading(u) THEN [unseen EXCEPT ![u] = @ + 1] ELSE unseen

\* n increments of the counter of u are lost with the connection or the process.
Uncounted(u, n) == IF unseen[u] > n THEN unseen[u] - n ELSE 0

\* Mutant: the counter is not increased.
PushedUncounted(r) ==
    LET s == slot[r] IN
    /\ s.pc = "push"
    /\ unseen' = Unseen(s.who)
    /\ RunOn(r, [s EXCEPT !.todo = @ \ {s.who}, !.pushed = @ \cup {s.who}])
    /\ UNCHANGED <<pgVars, cached, redis, online, unread, bumps, claim, lost>>

\* LPUSH completes; the increment of the counter is spawned, and the loop goes on.
Pushed(r) ==
    LET s == slot[r] IN
    /\ s.pc = "push"
    /\ bumps' = [bumps EXCEPT ![s.who] = @ + 1]
    /\ unseen' = Unseen(s.who)
    /\ RunOn(r, [s EXCEPT !.todo = @ \ {s.who},
                          !.pushed = IF redis THEN @ \cup {s.who} ELSE @])
    /\ UNCHANGED <<pgVars, cached, redis, online, unread, claim, lost>>

HincrbyUnread(u) ==
    /\ bumps[u] > 0
    /\ bumps' = [bumps EXCEPT ![u] = @ - 1]
    /\ unread' = IF redis THEN [unread EXCEPT ![u] = @ + 1] ELSE unread
    /\ unseen' = IF redis THEN unseen ELSE [unseen EXCEPT ![u] = Uncounted(u, 1)]
    /\ UNCHANGED <<pgVars, cached, redis, online, slot, claim, lost>>

\* The fan-out handler returns.
Return(r) == slot[r].pc = "end" /\ Answer(r)

-----------------------------------------------------------------------------
(***************************************************************************)
(* The environment.                                                        *)
(***************************************************************************)

\* The registry: insert and remove of u's session (module SessionLife).
Connect(u) ==
    /\ u \in Mobile \ online
    /\ online' = online \cup {u}
    /\ UNCHANGED <<pgVars, cached, redis, slot, unreadVars, claim, lost>>
Disconnect(u) ==
    /\ u \in Mobile \cap online
    /\ online' = online \ {u}
    /\ UNCHANGED <<pgVars, cached, redis, slot, unreadVars, claim, lost>>

RedisFail ==
    /\ redis
    /\ redis' = FALSE
    /\ UNCHANGED <<pgVars, cached, online, slot, unreadVars, claim, lost>>

\* The server dies and starts again: handlers, detached coroutines and sessions
\* are gone, the Redis connection is new, the data of both stores is kept.
Restart ==
    /\ redis' = TRUE /\ online' = User \ Mobile
    /\ slot' = [r \in Req |-> Idle]
    /\ bumps' = [u \in User |-> 0]
    /\ unseen' = [u \in User |-> Uncounted(u, bumps[u])]
    /\ UNCHANGED <<pgVars, cached, unread, claim, lost>>

Request(r) ==
    \/ PostGroups(r)
    \/ \E u, w \in User : PostMembers(r, u, w) \/ DeleteMember(r, u, w)
    \/ \E u \in User : \/ GetGroup(r, u) \/ PatchGroup(r, u) \/ ListConversations(r, u)
                       \/ PostRead(r, u) \/ WsRead(r, u) \/ Typing(r, u)
                       \/ GroupChat(r, u, "tcp") \/ GroupChat(r, u, "ws")

Step(r) ==
    \/ GroupRow(r) \/ GroupMembers(r) \/ ConversationRows(r) \/ HgetallUnread(r)
    \/ PgThrows(r) \/ AdminCheck(r) \/ Write(r) \/ Cache(r)
    \/ MemberCheck(r) \/ HdelUnread(r)
    \/ Resolve(r) \/ Fallback(r) \/ Pushed(r) \/ Return(r)

Next ==
    \/ \E r \in Req : Request(r) \/ Step(r)
    \/ \E u \in User : HincrbyUnread(u) \/ Connect(u) \/ Disconnect(u)
    \/ RedisFail
    \/ Restart

Spec == Init /\ [][Next]_vars

-----------------------------------------------------------------------------
(***************************************************************************)
(* Properties.                                                             *)
(***************************************************************************)

Pc == {"idle", "write", "cache", "check", "row", "members", "rows", "hgetall",
       "hdel", "resolve", "fallback", "push", "end"}

\* The types of the state; a handler has members left only where it loops.
TypeOK ==
    /\ role \in [User -> {"none", "member", "admin"}] /\ name \in User \cup {"none"}
    /\ cached \subseteq User /\ online \subseteq User /\ redis \in BOOLEAN /\ lost \in BOOLEAN
    /\ claim \in [User -> {"in", "out", "unsure"}]
    /\ unread \in [User -> 0 .. MaxUnread] /\ bumps \in [User -> 0 .. MaxUnread]
    /\ unseen \in [User -> 0 .. MaxUnread]
    /\ \A r \in Req : /\ slot[r].op \in Op \cup {"none"} /\ slot[r].pc \in Pc
                      /\ slot[r].pc = "push" => slot[r].who \in slot[r].todo
                      /\ slot[r].pc \notin {"cache", "push"} => slot[r].todo = {}

\* What a client may conclude is so in both stores: a user whose addition was
\* acknowledged, with no other change of that user in between, is a member in
\* PostgreSQL and in the Redis set, and a removed one in neither, across broken
\* transactions, overlapping requests and restarts, as long as no SADD or SREM
\* was dropped by a broken Redis connection.
MembershipSettled ==
    \A u \in User :
        /\ claim[u] = "in" => u \in Members /\ (lost \/ u \in cached)
        /\ claim[u] = "out" => u \notin Members /\ (lost \/ u \notin cached)

\* A fan-out that is through has told every member it owed the message to: those
\* acknowledged when it began and not touched since, be they online, offline, or
\* connecting while it ran.
FanoutReaches ==
    \A r \in Req :
        slot[r].op \in {"tcp", "ws"} /\ slot[r].pc = "end" /\ redis /\ ~lost
        => slot[r].due \subseteq slot[r].posted \cup slot[r].pushed

\* Nobody learns of a group they are not in: no message, typing event, read
\* receipt or listing reaches a user who was removed (or never added) before the
\* handler began; the sender is never told of their own message; a DELIVERED
\* receipt stands for a member whose session took the message.
FanoutSound ==
    \A r \in Req :
        LET s == slot[r] IN
        /\ ~lost => (s.posted \cup s.pushed) \cap s.banned = {}
        /\ s.op \notin {"get", "list"} => s.by \notin s.posted \cup s.pushed
        /\ s.acked \subseteq s.posted /\ s.posted \cap s.pushed = {}

\* A message pushed while its reader is not reading stays counted until a read that
\* arrives after it, across the increments under way, overlapping reads, a broken Redis
\* connection and restarts, which lose the increments they meet and no other.  A message
\* pushed between the arrival of a read and its HDEL is another matter: the awaits of
\* POST /read come in between, and the HDEL wipes it although nobody has read it.
UnreadCovers == \A u \in User : unread[u] + bumps[u] >= unseen[u]

\* Between the check of a role and the write that rests on it the role may go,
\* but it was there: only the creator, who alone is ever an admin, gets as far as
\* changing the name or another user's membership.
AdminOnly ==
    /\ \A u \in User : role[u] = "admin" => u = Creator
    /\ name \in {"none", Creator}
    /\ \A r \in Req : slot[r].pc \in {"write", "cache"} =>
          \/ slot[r].by = Creator
          \/ slot[r].op = "remove" /\ slot[r].by = slot[r].who
=============================================================================
