----------------------------- MODULE GroupsProofs -----------------------------
(***************************************************************************)
(* Theorems about Groups, for any users, any number of handlers at a time  *)
(* and any calls: acknowledged memberships agree in both stores, fan-outs  *)
(* reach everybody they owe and nobody else, a message pushed outside a    *)
(* read stays counted until the next one, and who changes a group was      *)
(* entitled to.                                                            *)
(***************************************************************************)
EXTENDS Groups, TLAPS

\* The record of a handler.
Handler ==
    [op : Op \cup {"none"}, by : User, who : User, pc : Pc,
     todo : SUBSET User, posted : SUBSET User, pushed : SUBSET User, acked : SUBSET User,
     spawned : SUBSET {"store", "activity"},
     due : SUBSET User, banned : SUBSET User, clash : BOOLEAN]

\* The types of the state; the bounds of TypeOK on the counters need counting and
\* are not used.
Types ==
    /\ role \in [User -> {"none", "member", "admin"}]
    /\ cached \subseteq User /\ redis \in BOOLEAN /\ lost \in BOOLEAN
    /\ claim \in [User -> {"in", "out", "unsure"}]
    /\ unread \in [User -> Nat] /\ bumps \in [User -> Nat] /\ unseen \in [User -> Nat]
    /\ slot \in [Req -> Handler]

Changing == {"create", "add", "remove", "patch"}

\* What is true of a handler by itself: which operation is where, who is left to
\* be told, and that nobody is told twice.
HandlerOK(s) ==
    /\ s.pc = "write" => s.op \in Changing
    /\ s.pc = "cache" => s.op \in Changing \ {"patch"} /\ s.todo \subseteq Subjects(s)
    /\ s.pc \in {"row", "members"} => s.op = "get"
    /\ s.pc \in {"rows", "hgetall"} => s.op = "list"
    /\ s.pc = "check" => s.op \in {"patch", "add", "remove", "read"}
    /\ s.pc = "hdel" => s.op \in {"read", "wsread"}
    /\ s.pc \in {"resolve", "fallback"} => s.op \in {"read", "wsread", "typing", "tcp", "ws"}
    /\ s.pc = "push" => s.op \in {"tcp", "ws"} /\ s.who \in s.todo
    /\ s.op \in Changing => s.banned = {}
    /\ s.op \notin {"tcp", "ws"} => s.due = {}
    /\ s.by \notin s.due
    /\ s.pc \notin {"push", "end", "hgetall"} => s.posted = {} /\ s.pushed = {} /\ s.acked = {}
    /\ s.op \notin {"get", "list"} => s.by \notin s.posted \cup s.pushed
    /\ s.pc = "push" => s.by \notin s.todo /\ s.todo \cap (s.posted \cup s.pushed) = {}
    /\ s.acked \subseteq s.posted /\ s.posted \cap s.pushed = {}

\* What is true of a handler and the claims: the members it owes the message to
\* and the users it must not tell keep their claim, and who is told or about to be
\* told is none of the latter and all of the former.
Told(s) ==
    /\ \A u \in s.banned : claim[u] = "out"
    /\ \A u \in s.due : claim[u] = "in"
    /\ ~lost => /\ (s.posted \cup s.pushed) \cap s.banned = {}
                /\ s.pc = "push" => s.todo \cap s.banned = {}
    /\ redis /\ ~lost =>
          /\ s.pc = "fallback" => s.due = {}
          /\ s.pc = "push" => s.due \subseteq s.todo \cup s.posted \cup s.pushed
          /\ s.op \in {"tcp", "ws"} /\ s.pc = "end" => s.due \subseteq s.posted \cup s.pushed

\* A user whose membership is being changed has no claim.
NoClaim(s) == \A u \in Touched(s) : claim[u] = "unsure"

\* Two handlers that change the same user both know.
Clashing(s, t) == Touched(s) \cap Touched(t) # {} => s.clash /\ t.clash

\* Between its transaction and its answer, a handler that met no other finds the
\* rows as it wrote them, and the part of the set it has done as it left it.
Underway(s) ==
    s.pc = "cache" /\ ~s.clash =>
        \A u \in Subjects(s) :
            /\ s.op = "remove" => role[u] = "none" /\ (lost \/ u \in s.todo \/ u \notin cached)
            /\ s.op # "remove" => role[u] # "none" /\ (lost \/ u \in s.todo \/ u \in cached)

\* The inductive invariant.
GroupsInv ==
    /\ Types
    /\ MembershipSettled
    /\ UnreadCovers
    /\ \A r \in Req : HandlerOK(slot[r]) /\ Told(slot[r]) /\ NoClaim(slot[r]) /\ Underway(slot[r])
    /\ \A q, r \in Req : q # r => Clashing(slot[q], slot[r])

-----------------------------------------------------------------------------
\* One handler moves on, with nothing in PostgreSQL, the Redis set or the claims
\* changed and no membership under change: the others are not concerned.
LEMMA OneSlot ==
    ASSUME GroupsInv, NEW r \in Req, NEW t \in Handler,
           slot' = [slot EXCEPT ![r] = t],
           HandlerOK(t), Told(t), t.pc \notin {"write", "cache"},
           UNCHANGED <<role, cached, redis, claim, lost>>,
           unread' \in [User -> Nat], bumps' \in [User -> Nat], unseen' \in [User -> Nat],
           UnreadCovers'
    PROVE  GroupsInv'
  <1>1. slot \in [Req -> Handler] /\ slot' \in [Req -> Handler]
    BY DEF GroupsInv, Types
  <1>2. slot'[r] = t /\ \A q \in Req : q # r => slot'[q] = slot[q]
    BY <1>1
  <1>3. Types'
    BY <1>1 DEF GroupsInv, Types
  <1>4. MembershipSettled'
    BY DEF GroupsInv, MembershipSettled, Members
  <1>5. Touched(t) = {}
    BY DEF Touched
  <1>6. \A q \in Req : HandlerOK(slot'[q])
    BY <1>2 DEF GroupsInv
  <1>7. \A q \in Req : Told(slot[q])'
    BY <1>2 DEF GroupsInv, Told
  <1>8. \A q \in Req : NoClaim(slot[q])'
    BY <1>2, <1>5 DEF GroupsInv, NoClaim
  <1>9. \A q \in Req : Underway(slot[q])'
    BY <1>2 DEF GroupsInv, Underway
  <1>10. \A p, q \in Req : p # q => Clashing(slot'[p], slot'[q])
    BY <1>2, <1>5 DEF GroupsInv, Clashing
  <1> QED
    BY <1>3, <1>4, <1>6, <1>7, <1>8, <1>9, <1>10 DEF GroupsInv

\* A handler that returns leaves an idle slot.
LEMMA IdleOK == Idle \in Handler /\ HandlerOK(Idle) /\ Told(Idle) /\ Idle.pc = "idle"
  BY GroupsAssumption DEF Idle, Handler, HandlerOK, Told, Pc, Op, Changing

\* Handlers that only answer.
LEMMA AnswerInv ==
    ASSUME GroupsInv, NEW r \in Req, Answer(r)
    PROVE  GroupsInv'
  <1>1. UnreadCovers' /\ unread' \in [User -> Nat] /\ bumps' \in [User -> Nat]
           /\ unseen' \in [User -> Nat]
    BY DEF GroupsInv, Types, UnreadCovers, Answer, unreadVars
  <1> QED
    BY <1>1, IdleOK, OneSlot DEF Answer, pgVars

\* A fan-out before it runs on over the members in s.todo.
Looping(s) ==
    /\ s.op \in {"read", "wsread", "typing", "tcp", "ws"}
    /\ s.by \notin s.todo \cup s.posted \cup s.pushed \cup s.due
    /\ s.todo \cap (s.posted \cup s.pushed) = {}
    /\ s.acked \subseteq s.posted /\ s.posted \cap s.pushed = {}
    /\ s.op \notin {"tcp", "ws"} => s.due = {}
    /\ \A u \in s.banned : claim[u] = "out"
    /\ \A u \in s.due : claim[u] = "in"
    /\ ~lost => (s.todo \cup s.posted \cup s.pushed) \cap s.banned = {}
    /\ redis /\ ~lost => s.due \subseteq s.todo \cup s.posted \cup s.pushed

\* What a fan-out comes to when it has run on.
LEMMA RunOnOK ==
    ASSUME NEW r \in Req, NEW s \in Handler, Looping(s), RunOn(r, s)
    PROVE  \E t \in Handler : /\ slot' = [slot EXCEPT ![r] = t]
                              /\ HandlerOK(t) /\ Told(t) /\ t.pc \in {"push", "end"}
  <1>1. CASE s.op \notin {"tcp", "ws"}
    <2>1. PICK t : t = [s EXCEPT !.pc = "end", !.todo = {},
                                 !.posted = @ \cup (s.todo \cap online)]
      OBVIOUS
    <2>2. slot' = [slot EXCEPT ![r] = t]
      BY <1>1, <2>1 DEF RunOn
    <2>3. t \in Handler /\ t.pc = "end"
      BY <2>1 DEF Handler, Pc
    <2>4. /\ t.op = s.op /\ t.by = s.by /\ t.due = s.due /\ t.banned = s.banned
          /\ t.pushed = s.pushed /\ t.acked = s.acked
          /\ t.posted = s.posted \cup (s.todo \cap online)
      BY <2>1 DEF Handler
    <2>5. HandlerOK(t)
      BY <1>1, <2>3, <2>4 DEF HandlerOK, Looping, Changing
    <2>6. Told(t)
      BY <1>1, <2>3, <2>4 DEF Told, Looping
    <2> QED
      BY <2>2, <2>3, <2>5, <2>6
  <1>2. CASE s.op \in {"tcp", "ws"}
    <2>1. PICK S \in SUBSET (s.todo \cap online) :
             LET t == [s EXCEPT !.posted = @ \cup S,
                                !.acked = IF s.op = "tcp" /\ s.by \in online
                                          THEN @ \cup S ELSE @]
             IN \/ /\ S = s.todo
                   /\ slot' = [slot EXCEPT ![r] = [t EXCEPT !.pc = "end", !.todo = {},
                                                            !.spawned = {"store", "activity"}]]
                \/ \E m \in s.todo \ online :
                      slot' = [slot EXCEPT ![r] = [t EXCEPT !.pc = "push", !.todo = s.todo \ S,
                                                            !.who = m]]
      BY <1>2 DEF RunOn
    <2>2. PICK a : a = IF s.op = "tcp" /\ s.by \in online THEN s.acked \cup S ELSE s.acked
      OBVIOUS
    <2>3. PICK p : p = [s EXCEPT !.posted = @ \cup S, !.acked = a]
      OBVIOUS
    <2>4. /\ p \in Handler /\ p.op = s.op /\ p.by = s.by /\ p.due = s.due
          /\ p.banned = s.banned /\ p.pushed = s.pushed /\ p.acked = a
          /\ p.posted = s.posted \cup S
      BY <2>2, <2>3 DEF Handler
    <2>5. a \subseteq p.posted
      BY <2>2, <2>4 DEF Looping
    <2>6. CASE /\ S = s.todo
               /\ slot' = [slot EXCEPT ![r] = [p EXCEPT !.pc = "end", !.todo = {},
                                                        !.spawned = {"store", "activity"}]]
      <3>1. PICK t : t = [p EXCEPT !.pc = "end", !.todo = {}, !.spawned = {"store", "activity"}]
        OBVIOUS
      <3>2. t \in Handler /\ t.pc = "end"
        BY <2>4, <3>1 DEF Handler, Pc
      <3>3. /\ t.op = s.op /\ t.by = s.by /\ t.due = s.due /\ t.banned = s.banned
            /\ t.pushed = s.pushed /\ t.acked = a /\ t.posted = s.posted \cup S
        BY <2>4, <3>1 DEF Handler
      <3>4. HandlerOK(t)
        BY <1>2, <2>4, <2>5, <3>2, <3>3 DEF HandlerOK, Looping, Changing
      <3>5. Told(t)
        BY <1>2, <2>6, <3>2, <3>3 DEF Told, Looping
      <3> QED
        BY <2>6, <3>1, <3>2, <3>4, <3>5
    <2>7. ASSUME NEW m \in s.todo \ online,
                 slot' = [slot EXCEPT ![r] = [p EXCEPT !.pc = "push", !.todo = s.todo \ S,
                                                       !.who = m]]
          PROVE  \E t \in Handler : /\ slot' = [slot EXCEPT ![r] = t]
                                    /\ HandlerOK(t) /\ Told(t) /\ t.pc \in {"push", "end"}
      <3>1. PICK t : t = [p EXCEPT !.pc = "push", !.todo = s.todo \ S, !.who = m]
        OBVIOUS
      <3>2. t \in Handler /\ t.pc = "push"
        BY <2>4, <3>1 DEF Handler, Pc
      <3>3. /\ t.op = s.op /\ t.by = s.by /\ t.due = s.due /\ t.banned = s.banned
            /\ t.pushed = s.pushed /\ t.acked = a /\ t.posted = s.posted \cup S
            /\ t.todo = s.todo \ S /\ t.who = m
        BY <2>4, <3>1 DEF Handler
      <3>4. HandlerOK(t)
        BY <1>2, <2>4, <2>5, <3>2, <3>3 DEF HandlerOK, Looping, Changing
      <3>5. Told(t)
        BY <1>2, <3>2, <3>3 DEF Told, Looping
      <3> QED
        BY <2>7, <3>1, <3>2, <3>4, <3>5
    <2> QED
      BY <2>1, <2>2, <2>3, <2>6, <2>7
  <1> QED
    BY <1>1, <1>2
-----------------------------------------------------------------------------
(***************************************************************************)
(* The start of a handler.                                                 *)
(***************************************************************************)

\* A handler as it starts.
Beginning(t, op, by, who, pc) ==
    /\ t \in Handler
    /\ t.op = op /\ t.by = by /\ t.who = who /\ t.pc = pc
    /\ t.todo = {} /\ t.posted = {} /\ t.pushed = {} /\ t.acked = {}
    /\ t.due = IF op \in {"tcp", "ws"} THEN {u \in User : claim[u] = "in"} \ {by} ELSE {}
    /\ t.banned = IF op \in Changing THEN {} ELSE {u \in User : claim[u] = "out"}

\* That is what Started makes.
LEMMA StartedOK ==
    ASSUME NEW op \in Op, NEW by \in User, NEW who \in User, NEW pc \in Pc
    PROVE  Beginning(Started(op, by, who, pc), op, by, who, pc)
  <1>1. PICK d \in SUBSET User :
           d = IF op \in {"tcp", "ws"} THEN {u \in User : claim[u] = "in"} \ {by} ELSE {}
    OBVIOUS
  <1>2. PICK b \in SUBSET User :
           b = IF op \in {"create", "add", "remove", "patch"} THEN {}
               ELSE {u \in User : claim[u] = "out"}
    OBVIOUS
  <1>3. PICK t : t = [Idle EXCEPT !.op = op, !.by = by, !.who = who, !.pc = pc,
                                  !.due = d, !.banned = b]
    OBVIOUS
  <1>4. Started(op, by, who, pc) = t
    BY <1>1, <1>2, <1>3 DEF Started
  <1>5. /\ t \in Handler
        /\ t.op = op /\ t.by = by /\ t.who = who /\ t.pc = pc
        /\ t.todo = {} /\ t.posted = {} /\ t.pushed = {} /\ t.acked = {}
        /\ t.due = d /\ t.banned = b
    BY <1>1, <1>2, <1>3, GroupsAssumption DEF Idle, Handler
  <1> QED
    BY <1>1, <1>2, <1>4, <1>5 DEF Changing, Beginning

\* The operations and the first awaits of the handlers that start by a read.
LEMMA StartInv ==
    ASSUME GroupsInv, NEW r \in Req, NEW op, NEW by, NEW who, NEW pc, Start(r, op, by, who, pc),
           <<op, pc>> \in {<<"get", "row">>, <<"patch", "check">>, <<"add", "check">>,
                           <<"remove", "check">>, <<"list", "rows">>, <<"read", "check">>,
                           <<"wsread", "hdel">>, <<"typing", "resolve">>}
    PROVE  GroupsInv'
  <1>1. op \in Op /\ by \in User /\ who \in User /\ pc \in Pc
    BY GroupsAssumption DEF Start, Op, Pc
  <1>2. PICK t : t = Started(op, by, who, pc)
    OBVIOUS
  <1>3. Beginning(t, op, by, who, pc)
    BY <1>1, <1>2, StartedOK
  <1>4. HandlerOK(t) /\ t \in Handler
    BY <1>3 DEF Beginning, HandlerOK, Changing
  <1>5. Told(t) /\ t.pc \notin {"write", "cache"}
    BY <1>3 DEF Beginning, Told
  <1>6. slot' = [slot EXCEPT ![r] = t] /\ UNCHANGED <<role, cached, redis, claim, lost>>
    BY <1>2 DEF Start, pgVars
  <1>7. UnreadCovers' /\ unread' \in [User -> Nat] /\ bumps' \in [User -> Nat]
           /\ unseen' \in [User -> Nat]
    BY DEF GroupsInv, Types, UnreadCovers, Start, unreadVars
  <1> QED
    BY <1>4, <1>5, <1>6, <1>7, OneSlot

\* A group message starts: whom it owes and whom it must not tell is fixed here.
LEMMA GroupChatInv ==
    ASSUME GroupsInv, NEW r \in Req, NEW u \in User, NEW kind \in {"tcp", "ws"},
           GroupChat(r, u, kind)
    PROVE  GroupsInv'
  <1>1. kind \in Op /\ "resolve" \in Pc
    BY DEF Op, Pc
  <1>2. PICK h : h = Started(kind, u, u, "resolve")
    OBVIOUS
  <1>3. Beginning(h, kind, u, u, "resolve")
    BY <1>1, <1>2, StartedOK
  <1>4. PICK sp : sp = IF kind = "ws" THEN {"store"} ELSE {}
    OBVIOUS
  <1>5. PICK t : t = [h EXCEPT !.spawned = sp]
    OBVIOUS
  <1>6. /\ t \in Handler
        /\ t.op = kind /\ t.by = u /\ t.pc = "resolve"
        /\ t.todo = {} /\ t.posted = {} /\ t.pushed = {} /\ t.acked = {}
        /\ t.due = {w \in User : claim[w] = "in"} \ {u}
        /\ t.banned = {w \in User : claim[w] = "out"}
    BY <1>3, <1>4, <1>5 DEF Beginning, Handler, Changing
  <1>7. HandlerOK(t)
    BY <1>6 DEF HandlerOK, Changing
  <1>8. Told(t) /\ t.pc \notin {"write", "cache"}
    BY <1>6 DEF Told
  <1>9. slot' = [slot EXCEPT ![r] = t] /\ UNCHANGED <<role, cached, redis, claim, lost>>
    BY <1>2, <1>4, <1>5 DEF GroupChat, pgVars
  <1>10. UnreadCovers' /\ unread' \in [User -> Nat] /\ bumps' \in [User -> Nat]
           /\ unseen' \in [User -> Nat]
    BY DEF GroupsInv, Types, UnreadCovers, GroupChat, unreadVars
  <1> QED
    BY <1>6, <1>7, <1>8, <1>9, <1>10, OneSlot

\* Before a write of rows: the claims about their users end, the handlers that
\* change one of them know of each other, and fan-outs owe them nothing any more.
LEMMA EnterWriteInv ==
    ASSUME GroupsInv, NEW r \in Req, NEW s \in Handler, NEW us \in SUBSET User,
           s.op \in Changing, us = IF s.op = "patch" THEN {} ELSE Subjects(s),
           s.posted = {}, s.pushed = {}, s.acked = {}, s.due = {}, s.banned = {},
           EnterWrite(r, s, us),
           UNCHANGED <<pgVars, cached, redis, unreadVars, lost>>
    PROVE  GroupsInv'
  <1>1. slot \in [Req -> Handler] /\ claim \in [User -> {"in", "out", "unsure"}]
    BY DEF GroupsInv, Types
  <1>2. PICK c \in BOOLEAN : c <=> \E p \in Req \ {r} : Touched(slot[p]) \cap us # {}
    OBVIOUS
  <1>3. PICK t : t = [s EXCEPT !.pc = "write", !.clash = c]
    OBVIOUS
  <1>4. slot'[r] = t /\ DOMAIN slot' = Req
    BY <1>2, <1>3 DEF EnterWrite
  <1>5. /\ t \in Handler /\ t.op = s.op /\ t.who = s.who /\ t.by = s.by /\ t.pc = "write"
        /\ t.posted = {} /\ t.pushed = {} /\ t.acked = {} /\ t.due = {}
        /\ t.banned = {} /\ t.clash = c
    BY <1>3 DEF Handler, Pc
  <1>6. ASSUME NEW q \in Req, q # r
        PROVE  /\ slot'[q] \in Handler /\ slot'[q].op = slot[q].op /\ slot'[q].by = slot[q].by
               /\ slot'[q].who = slot[q].who /\ slot'[q].pc = slot[q].pc
               /\ slot'[q].todo = slot[q].todo /\ slot'[q].posted = slot[q].posted
               /\ slot'[q].pushed = slot[q].pushed /\ slot'[q].acked = slot[q].acked
               /\ slot'[q].due = slot[q].due \ us /\ slot'[q].banned = slot[q].banned \ us
               /\ slot[q].clash => slot'[q].clash
               /\ Touched(slot[q]) \cap us # {} => slot'[q].clash
    <2>1. PICK k : k = (slot[q].clash \/ Touched(slot[q]) \cap us # {})
      OBVIOUS
    <2>2. PICK h : h = slot[q]
      OBVIOUS
    <2>3. k \in BOOLEAN /\ h \in Handler
      BY <1>1, <2>1, <2>2
    <2>4. slot'[q] = [h EXCEPT !.clash = k, !.due = @ \ us, !.banned = @ \ us]
      BY <1>6, <2>1, <2>2 DEF EnterWrite
    <2>5. PICK n : n = [h EXCEPT !.clash = k, !.due = @ \ us, !.banned = @ \ us]
      OBVIOUS
    <2>6. /\ n \in Handler /\ n.op = h.op /\ n.by = h.by /\ n.who = h.who /\ n.pc = h.pc
          /\ n.todo = h.todo /\ n.posted = h.posted /\ n.pushed = h.pushed /\ n.acked = h.acked
          /\ n.due = h.due \ us /\ n.banned = h.banned \ us /\ n.clash = k
      <3>1. PICK d : d = h.due \ us
        OBVIOUS
      <3>2. PICK b : b = h.banned \ us
        OBVIOUS
      <3>3. d \in SUBSET User /\ b \in SUBSET User
        BY <2>3, <3>1, <3>2 DEF Handler
      <3>4. n = [h EXCEPT !.clash = k, !.due = d, !.banned = b]
        BY <2>5, <3>1, <3>2
      <3>5. n \in Handler
        BY <2>3, <3>3, <3>4 DEF Handler
      <3>6. /\ n.op = h.op /\ n.by = h.by /\ n.who = h.who /\ n.pc = h.pc
            /\ n.todo = h.todo /\ n.posted = h.posted /\ n.pushed = h.pushed /\ n.acked = h.acked
        BY <2>3, <3>4 DEF Handler
      <3>7. n.due = d /\ n.banned = b /\ n.clash = k
        BY <2>3, <3>4 DEF Handler
      <3> QED
        BY <3>1, <3>2, <3>5, <3>6, <3>7
    <2>7. slot'[q] = n
      BY <2>4, <2>5
    <2>8. /\ slot'[q] \in Handler /\ slot'[q].op = h.op /\ slot'[q].by = h.by
          /\ slot'[q].who = h.who /\ slot'[q].pc = h.pc
      BY <2>6, <2>7
    <2>9. /\ slot'[q].todo = h.todo /\ slot'[q].posted = h.posted
          /\ slot'[q].pushed = h.pushed /\ slot'[q].acked = h.acked
      BY <2>6, <2>7
    <2>10. slot'[q].due = h.due \ us /\ slot'[q].banned = h.banned \ us /\ slot'[q].clash = k
      BY <2>6, <2>7
    <2>11. (h.clash => k) /\ (Touched(h) \cap us # {} => k)
      BY <2>1, <2>2
    <2>12. (h.clash => slot'[q].clash) /\ (Touched(h) \cap us # {} => slot'[q].clash)
      BY <2>10, <2>11
    <2> QED
      BY <2>2, <2>8, <2>9, <2>10, <2>12
  <1>7. \A q \in Req : q # r => Touched(slot'[q]) = Touched(slot[q])
    BY <1>6 DEF Touched, Subjects
  <1>8. Touched(slot'[r]) = us
    BY <1>4, <1>5 DEF Touched, Subjects, Changing
  <1>9. \A u \in User : claim'[u] = IF u \in us THEN "unsure" ELSE claim[u]
    BY DEF EnterWrite
  <1>10. Types'
    <2>1. slot' \in [Req -> Handler]
      BY <1>4, <1>5, <1>6 DEF EnterWrite
    <2>2. claim' \in [User -> {"in", "out", "unsure"}]
      BY <1>1 DEF EnterWrite
    <2> QED
      BY <2>1, <2>2 DEF GroupsInv, Types, pgVars, unreadVars
  <1>11. MembershipSettled'
    BY <1>9 DEF GroupsInv, MembershipSettled, Members, pgVars
  <1>12. UnreadCovers'
    BY DEF GroupsInv, UnreadCovers, unreadVars
  <1>13. \A q \in Req : HandlerOK(slot'[q])
    <2>1. HandlerOK(slot'[r])
      BY <1>4, <1>5 DEF HandlerOK, Changing
    <2>2. ASSUME NEW q \in Req, q # r
          PROVE  HandlerOK(slot'[q])
      <3>1. HandlerOK(slot[q])
        BY DEF GroupsInv
      <3> QED
        BY <1>6, <2>2, <3>1 DEF HandlerOK, Subjects
    <2> QED
      BY <2>1, <2>2
  <1>14. \A q \in Req : Told(slot[q])'
    <2>1. Told(slot[r])'
      BY <1>4, <1>5 DEF Told
    <2>2. ASSUME NEW q \in Req, q # r
          PROVE  Told(slot[q])'
      <3>1. Told(slot[q]) /\ slot[q] \in Handler
        BY <1>1 DEF GroupsInv
      <3>2. slot[q].due \subseteq User /\ slot[q].banned \subseteq User
        BY <3>1 DEF Handler
      <3> QED
        BY <1>6, <1>9, <2>2, <3>1, <3>2 DEF Told
    <2> QED
      BY <2>1, <2>2
  <1>15. \A q \in Req : NoClaim(slot[q])'
    <2>1. \A q \in Req : Touched(slot[q]) \subseteq User
      BY <1>1, GroupsAssumption DEF Touched, Subjects, Handler
    <2> QED
      BY <1>7, <1>8, <1>9, <2>1 DEF GroupsInv, NoClaim
  <1>16. \A q \in Req : Underway(slot[q])'
    <2>1. Underway(slot[r])'
      BY <1>4, <1>5 DEF Underway
    <2>2. ASSUME NEW q \in Req, q # r
          PROVE  Underway(slot[q])'
      <3>1. Underway(slot[q])
        BY DEF GroupsInv
      <3> QED
        BY <1>6, <2>2, <3>1 DEF Underway, Subjects, pgVars
    <2> QED
      BY <2>1, <2>2
  <1>17. \A p, q \in Req : p # q => Clashing(slot'[p], slot'[q])
    <2>1. \A p, q \in Req : p # q => Clashing(slot[p], slot[q])
      BY DEF GroupsInv
    <2>2. \A q \in Req : q # r => /\ slot[q].clash => slot'[q].clash
                                  /\ Touched(slot[q]) \cap us # {} => slot'[q].clash
      BY <1>6
    <2>3. \A q \in Req : q # r /\ Touched(slot[q]) \cap us # {} => slot'[r].clash
      BY <1>2, <1>4, <1>5
    <2>4. ASSUME NEW p \in Req, NEW q \in Req, p # q, Touched(slot'[p]) \cap Touched(slot'[q]) # {}
          PROVE  slot'[p].clash /\ slot'[q].clash
      <3>1. CASE p # r /\ q # r
        <4>1. Touched(slot[p]) \cap Touched(slot[q]) # {}
          BY <1>7, <2>4, <3>1
        <4>2. slot[p].clash /\ slot[q].clash
          BY <2>1, <2>4, <4>1, Zenon DEF Clashing
        <4> QED
          BY <2>2, <3>1, <4>2, Zenon
      <3>2. CASE p = r
        <4>1. q # r /\ Touched(slot[q]) \cap us # {}
          BY <1>7, <1>8, <2>4, <3>2
        <4> QED
          BY <2>2, <2>3, <3>2, <4>1, Zenon
      <3>3. CASE q = r
        <4>1. p # r /\ Touched(slot[p]) \cap us # {}
          BY <1>7, <1>8, <2>4, <3>3
        <4> QED
          BY <2>2, <2>3, <3>3, <4>1, Zenon
      <3> QED
        BY <3>1, <3>2, <3>3
    <2> QED
      BY <2>4 DEF Clashing
  <1> QED
    BY <1>10, <1>11, <1>12, <1>13, <1>14, <1>15, <1>16, <1>17 DEF GroupsInv
-----------------------------------------------------------------------------
(***************************************************************************)
(* The writes.                                                             *)
(***************************************************************************)

\* The transactions change the rows of the users they are about, and no other.
LEMMA RowsOK ==
    ASSUME Types, NEW s \in Handler, s.op \in Changing
    PROVE  /\ Rows(s) \in [User -> {"none", "member", "admin"}]
           /\ s.op = "patch" => Rows(s) = role
           /\ s.op # "patch" =>
                \A u \in User :
                   /\ u \notin Subjects(s) => Rows(s)[u] = role[u]
                   /\ u \in Subjects(s) => (Rows(s)[u] = "none" <=> s.op = "remove")
  <1>1. role \in [User -> {"none", "member", "admin"}] /\ s.who \in User
    BY DEF Types, Handler
  <1>2. CASE s.op = "create"
    BY <1>1, <1>2, GroupsAssumption DEF Rows, Subjects
  <1>3. CASE s.op = "add"
    BY <1>1, <1>3 DEF Rows, Subjects
  <1>4. CASE s.op = "remove"
    BY <1>1, <1>4 DEF Rows, Subjects
  <1>5. CASE s.op = "patch"
    BY <1>1, <1>5 DEF Rows, Subjects
  <1> QED
    BY <1>2, <1>3, <1>4, <1>5 DEF Changing

\* A handler leaves its write, with rows of its own users changed or not.
LEMMA WrittenInv ==
    ASSUME GroupsInv, NEW r \in Req, NEW t \in Handler, slot[r].pc = "write",
           slot' = [slot EXCEPT ![r] = t],
           HandlerOK(t), Told(t), Touched(t) \subseteq Touched(slot[r]),
           t = Idle \/ t.clash = slot[r].clash,
           t.pc = "cache" =>
              \A u \in Subjects(t) : u \in t.todo /\ (role'[u] = "none" <=> t.op = "remove"),
           role' \in [User -> {"none", "member", "admin"}],
           \A u \in User : u \notin Touched(slot[r]) => role'[u] = role[u],
           UNCHANGED <<cached, redis, unreadVars, claim, lost>>
    PROVE  GroupsInv'
  <1>1. slot \in [Req -> Handler] /\ slot' \in [Req -> Handler]
    BY DEF GroupsInv, Types
  <1>2. slot'[r] = t /\ \A q \in Req : q # r => slot'[q] = slot[q]
    BY <1>1
  <1>3. Types'
    BY <1>1 DEF GroupsInv, Types, unreadVars
  <1>4. MembershipSettled'
    <2>1. \A u \in User : claim[u] # "unsure" => role'[u] = role[u]
      BY DEF GroupsInv, NoClaim
    <2>2. MembershipSettled
      BY DEF GroupsInv
    <2> QED
      BY <2>1, <2>2 DEF MembershipSettled, Members
  <1>5. UnreadCovers'
    BY DEF GroupsInv, UnreadCovers, unreadVars
  <1>6. \A q \in Req : HandlerOK(slot'[q])
    BY <1>2 DEF GroupsInv
  <1>7. \A q \in Req : Told(slot[q])'
    BY <1>2 DEF GroupsInv, Told
  <1>8. \A q \in Req : NoClaim(slot[q])'
    BY <1>2 DEF GroupsInv, NoClaim
  <1>9. \A q \in Req : Underway(slot[q])'
    <2>1. Underway(slot[r])'
      BY <1>2 DEF Underway
    <2>2. ASSUME NEW q \in Req, q # r, slot[q].pc = "cache", ~slot[q].clash,
                 NEW u \in Subjects(slot[q])
          PROVE  role'[u] = role[u]
      <3>1. slot[q].op \in Changing \ {"patch"} /\ u \in User
        <4>1. HandlerOK(slot[q]) /\ slot[q] \in Handler
          BY <1>1 DEF GroupsInv
        <4> QED
          BY <2>2, <4>1, GroupsAssumption DEF HandlerOK, Subjects, Handler
      <3>2. u \in Touched(slot[q])
        BY <2>2, <3>1 DEF Touched, Changing
      <3>3. u \notin Touched(slot[r])
        BY <2>2, <3>2 DEF GroupsInv, Clashing
      <3> QED
        BY <3>1, <3>3
    <2>3. ASSUME NEW q \in Req, q # r
          PROVE  Underway(slot[q])'
      <3>1. Underway(slot[q]) /\ slot'[q] = slot[q]
        BY <1>2, <2>3 DEF GroupsInv
      <3> QED
        BY <2>2, <2>3, <3>1 DEF Underway
    <2> QED
      BY <2>1, <2>3
  <1>10. \A p, q \in Req : p # q => Clashing(slot'[p], slot'[q])
    <2>1. \A p, q \in Req : p # q => Clashing(slot[p], slot[q])
      BY DEF GroupsInv
    <2>2. t = Idle => Touched(t) = {}
      BY DEF Touched, Idle
    <2> QED
      BY <1>2, <2>1, <2>2 DEF Clashing
  <1> QED
    BY <1>3, <1>4, <1>5, <1>6, <1>7, <1>8, <1>9, <1>10 DEF GroupsInv

\* The transaction.
LEMMA WriteInv ==
    ASSUME GroupsInv, NEW r \in Req, Write(r)
    PROVE  GroupsInv'
  <1>1. PICK s : s = slot[r]
    OBVIOUS
  <1>2. s \in Handler /\ HandlerOK(s) /\ Told(s) /\ s.pc = "write" /\ Types
    BY <1>1 DEF GroupsInv, Types, Write
  <1>3. s.op \in Changing
    BY <1>2 DEF HandlerOK
  <1>4. UNCHANGED <<cached, redis, unreadVars, claim, lost>>
    BY DEF Write
  <1>5. s.op # "patch" => Touched(s) = Subjects(s)
    BY <1>2, <1>3 DEF Touched, Changing
  <1>6. ASSUME role' = Rows(s) \/ role' = role
        PROVE  /\ role' \in [User -> {"none", "member", "admin"}]
               /\ \A u \in User : u \notin Touched(s) => role'[u] = role[u]
    BY <1>2, <1>3, <1>5, <1>6, RowsOK DEF Types
  <1>7. CASE slot' = [slot EXCEPT ![r] = Idle]
    <2>1. role' = Rows(s) \/ role' = role
      BY <1>1, <1>7 DEF Write, pgVars
    <2>2. Touched(Idle) = {}
      BY DEF Touched, Idle
    <2> QED
      BY <1>1, <1>2, <1>4, <1>6, <1>7, <2>1, <2>2, IdleOK, WrittenInv
  <1>8. CASE /\ s.op # "patch" /\ role' = Rows(s)
             /\ slot' = [slot EXCEPT ![r] = [s EXCEPT !.pc = "cache", !.todo = Subjects(s)]]
    <2>1. Subjects(s) \subseteq User
      BY <1>2, GroupsAssumption DEF Subjects, Handler
    <2>2. PICK t : t = [s EXCEPT !.pc = "cache", !.todo = Subjects(s)]
      OBVIOUS
    <2>3. /\ t \in Handler /\ t.op = s.op /\ t.by = s.by /\ t.who = s.who /\ t.pc = "cache"
          /\ t.todo = Subjects(s) /\ t.posted = s.posted /\ t.pushed = s.pushed
          /\ t.acked = s.acked /\ t.due = s.due /\ t.banned = s.banned /\ t.clash = s.clash
      BY <1>2, <2>1, <2>2 DEF Handler, Pc
    <2>4. Subjects(t) = Subjects(s) /\ Touched(t) = Touched(s)
      BY <1>2, <2>3 DEF Subjects, Touched
    <2>5. HandlerOK(t)
      BY <1>2, <1>3, <1>8, <2>3, <2>4 DEF HandlerOK, Changing
    <2>6. Told(t)
      BY <1>2, <2>3 DEF Told
    <2>7. \A u \in Subjects(t) : u \in t.todo /\ (role'[u] = "none" <=> t.op = "remove")
      BY <1>2, <1>3, <1>8, <2>1, <2>3, <2>4, RowsOK
    <2>8. slot[r].pc = "write" /\ slot' = [slot EXCEPT ![r] = t]
            /\ Touched(t) \subseteq Touched(slot[r]) /\ t.clash = slot[r].clash
      BY <1>1, <1>2, <1>8, <2>2, <2>3, <2>4
    <2>9. /\ role' \in [User -> {"none", "member", "admin"}]
          /\ \A u \in User : u \notin Touched(slot[r]) => role'[u] = role[u]
      BY <1>1, <1>6, <1>8
    <2> HIDE <1>8
    <2> QED
      BY <1>4, <2>3, <2>5, <2>6, <2>7, <2>8, <2>9, WrittenInv
  <1> QED
    BY <1>1, <1>7, <1>8 DEF Write

\* SADD and SREM: the set follows the rows, and with the last one the claim.
LEMMA CacheInv ==
    ASSUME GroupsInv, NEW r \in Req, Cache(r)
    PROVE  GroupsInv'
  <1>1. PICK s : s = slot[r]
    OBVIOUS
  <1>2. /\ s \in Handler /\ HandlerOK(s) /\ Told(s) /\ NoClaim(s) /\ Underway(s)
        /\ s.pc = "cache" /\ Types /\ MembershipSettled
    BY <1>1 DEF GroupsInv, Types, Cache
  <1>3. s.op \in {"create", "add", "remove"} /\ s.todo \subseteq Subjects(s)
    BY <1>2 DEF HandlerOK, Changing
  <1>4. Touched(s) = Subjects(s) /\ Subjects(s) \subseteq User
    BY <1>2, <1>3, GroupsAssumption DEF Touched, Subjects, Handler
  <1>5. PICK u \in s.todo :
          /\ cached' = SaddSrem(s, u)
          /\ lost' = (lost \/ ~redis)
          /\ \/ /\ s.todo # {u}
                /\ slot' = [slot EXCEPT ![r].todo = @ \ {u}]
                /\ UNCHANGED claim
             \/ /\ s.todo = {u}
                /\ slot' = [slot EXCEPT ![r] = Idle]
                /\ claim' = [w \in User |->
                      IF w \in Subjects(s) /\ ~s.clash
                      THEN IF s.op = "remove" THEN "out" ELSE "in"
                      ELSE claim[w]]
    BY <1>1 DEF Cache
  <1>6. UNCHANGED <<role, redis, unreadVars>>
    BY DEF Cache, pgVars
  <1>7. u \in Subjects(s) /\ u \in User /\ u \in Touched(s)
    BY <1>3, <1>4, <1>5
  <1>8. /\ cached' \subseteq User
        /\ \A w \in User : w # u => (w \in cached' <=> w \in cached)
        /\ lost' \/ (u \in cached' <=> s.op # "remove")
        /\ lost => lost'
        /\ lost' \in BOOLEAN
    BY <1>2, <1>5, <1>7 DEF SaddSrem, Types
  <1>9. PICK t : t = IF s.todo # {u} THEN [s EXCEPT !.todo = @ \ {u}] ELSE Idle
    OBVIOUS
  <1>10. slot' = [slot EXCEPT ![r] = t]
    BY <1>1, <1>5, <1>9
  <1>11. s.todo # {u} =>
           /\ t \in Handler /\ t.op = s.op /\ t.by = s.by /\ t.who = s.who /\ t.pc = "cache"
           /\ t.todo = s.todo \ {u} /\ t.posted = s.posted /\ t.pushed = s.pushed
           /\ t.acked = s.acked /\ t.due = s.due /\ t.banned = s.banned /\ t.clash = s.clash
    BY <1>2, <1>9 DEF Handler
  <1>12. t \in Handler /\ HandlerOK(t)
    <2>1. CASE s.todo # {u}
      BY <1>2, <1>3, <1>11, <2>1 DEF HandlerOK, Subjects, Changing
    <2>2. CASE s.todo = {u}
      BY <1>9, <2>2, IdleOK
    <2> QED
      BY <2>1, <2>2
  <1>13. Touched(t) = IF s.todo # {u} THEN Touched(s) ELSE {}
    BY <1>2, <1>9, <1>11 DEF Touched, Subjects, Idle
  <1>14. slot \in [Req -> Handler] /\ slot' \in [Req -> Handler]
    BY <1>10, <1>12 DEF GroupsInv, Types
  <1>15. slot'[r] = t /\ \A q \in Req : q # r => slot'[q] = slot[q]
    BY <1>10, <1>14
  \* claims change in the last step only, and only of the handler's own users
  <1>16. /\ claim' \in [User -> {"in", "out", "unsure"}]
         /\ \A w \in User : w \notin Subjects(s) => claim'[w] = claim[w]
         /\ s.clash \/ s.todo # {u} => \A w \in User : claim'[w] = claim[w]
         /\ ~s.clash /\ s.todo = {u} =>
              \A w \in Subjects(s) : claim'[w] = IF s.op = "remove" THEN "out" ELSE "in"
    BY <1>2, <1>4, <1>5 DEF Types
  <1>17. \A w \in User : claim[w] # "unsure" => w \notin Subjects(s) /\ w # u
    BY <1>2, <1>4, <1>7 DEF NoClaim
  <1>18. Types'
    BY <1>2, <1>6, <1>8, <1>14, <1>16 DEF Types, unreadVars
  <1>19. MembershipSettled'
    <2> SUFFICES ASSUME NEW w \in User
                 PROVE  /\ claim'[w] = "in" => role'[w] # "none" /\ (lost' \/ w \in cached')
                        /\ claim'[w] = "out" => role'[w] = "none" /\ (lost' \/ w \notin cached')
      BY DEF MembershipSettled, Members
    <2>1. CASE claim'[w] = claim[w]
      BY <1>2, <1>6, <1>8, <1>17, <2>1 DEF MembershipSettled, Members
    <2>2. CASE claim'[w] # claim[w]
      <3>1. w \in Subjects(s) /\ ~s.clash /\ s.todo = {u}
        BY <1>16, <2>2
      <3>2. claim'[w] = IF s.op = "remove" THEN "out" ELSE "in"
        BY <1>16, <3>1
      <3>3. /\ s.op = "remove" => role[w] = "none" /\ (lost \/ w = u \/ w \notin cached)
            /\ s.op # "remove" => role[w] # "none" /\ (lost \/ w = u \/ w \in cached)
        BY <1>2, <3>1 DEF Underway
      <3> QED
        BY <1>6, <1>8, <3>2, <3>3
    <2> QED
      BY <2>1, <2>2
  <1>20. UnreadCovers'
    BY <1>6 DEF GroupsInv, UnreadCovers, unreadVars
  <1>21. \A q \in Req : HandlerOK(slot'[q])
    BY <1>12, <1>15 DEF GroupsInv
  <1>22. \A q \in Req : Told(slot[q])'
    <2>1. ASSUME NEW q \in Req, q # r
          PROVE  Told(slot[q])'
      <3>1. Told(slot[q]) /\ slot'[q] = slot[q] /\ slot[q] \in Handler
        BY <1>14, <1>15, <2>1 DEF GroupsInv
      <3>2. slot[q].due \subseteq User /\ slot[q].banned \subseteq User
        BY <3>1 DEF Handler
      <3>3. \A w \in slot[q].due \cup slot[q].banned : claim'[w] = claim[w]
        BY <1>16, <1>17, <3>1, <3>2 DEF Told
      <3> QED
        BY <1>6, <1>8, <3>1, <3>3 DEF Told
    <2>2. Told(slot[r])'
      <3>1. CASE s.todo # {u}
        <4>1. s.due = {} /\ s.banned = {}
          BY <1>2, <1>3 DEF HandlerOK, Changing
        <4> QED
          BY <1>11, <1>15, <3>1, <4>1 DEF Told
      <3>2. CASE s.todo = {u}
        BY <1>9, <1>15, <3>2 DEF Told, Idle
      <3> QED
        BY <3>1, <3>2
    <2> QED
      BY <2>1, <2>2
  <1>23. \A q \in Req : NoClaim(slot[q])'
    <2>1. NoClaim(slot[r])'
      BY <1>2, <1>4, <1>13, <1>15, <1>16 DEF NoClaim
    <2>2. ASSUME NEW q \in Req, q # r, NEW w \in Touched(slot[q])
          PROVE  claim'[w] = "unsure"
      <3>1. claim[w] = "unsure" /\ w \in User
        BY <1>14, GroupsAssumption DEF GroupsInv, NoClaim, Touched, Subjects, Handler
      <3>2. w \in Subjects(s) => s.clash
        BY <1>1, <1>4, <2>2 DEF GroupsInv, Clashing
      <3> QED
        BY <1>16, <3>1, <3>2
    <2> QED
      BY <1>15, <2>1, <2>2 DEF NoClaim
  <1>24. \A q \in Req : Underway(slot[q])'
    <2>1. Underway(slot[r])'
      <3>1. CASE s.todo # {u}
        <4>1. Subjects(t) = Subjects(s)
          BY <1>11, <3>1 DEF Subjects
        <4> QED
          BY <1>2, <1>4, <1>6, <1>8, <1>11, <1>15, <3>1, <4>1 DEF Underway
      <3>2. CASE s.todo = {u}
        BY <1>9, <1>15, <3>2 DEF Underway, Idle
      <3> QED
        BY <3>1, <3>2
    <2>2. ASSUME NEW q \in Req, q # r
          PROVE  Underway(slot[q])'
      <3>1. Underway(slot[q]) /\ HandlerOK(slot[q]) /\ slot'[q] = slot[q] /\ slot[q] \in Handler
        BY <1>14, <1>15, <2>2 DEF GroupsInv
      <3>2. slot[q].pc = "cache" => /\ Touched(slot[q]) = Subjects(slot[q])
                                    /\ Subjects(slot[q]) \subseteq User
        BY <3>1, GroupsAssumption DEF HandlerOK, Touched, Changing, Subjects, Handler
      <3>3. slot[q].pc = "cache" /\ ~slot[q].clash => u \notin Subjects(slot[q])
        BY <1>1, <1>7, <2>2, <3>2 DEF GroupsInv, Clashing
      <3> QED
        BY <1>6, <1>8, <3>1, <3>2, <3>3 DEF Underway
    <2> QED
      BY <2>1, <2>2
  <1>25. \A p, q \in Req : p # q => Clashing(slot'[p], slot'[q])
    <2>1. \A p, q \in Req : p # q => Clashing(slot[p], slot[q])
      BY DEF GroupsInv
    <2> QED
      BY <1>1, <1>11, <1>13, <1>15, <2>1 DEF Clashing
  <1> QED
    BY <1>18, <1>19, <1>20, <1>21, <1>22, <1>23, <1>24, <1>25 DEF GroupsInv
-----------------------------------------------------------------------------
(***************************************************************************)
(* The other awaits.                                                       *)
(***************************************************************************)

\* An answer that shows the group, on an answer 200 only: the caller is a member.
LEMMA ShowInv ==
    ASSUME GroupsInv, NEW r \in Req, NEW pc, Show(r, pc), slot[r].by \in Members,
           \/ slot[r].pc = "members" /\ pc = "end"
           \/ slot[r].pc = "rows" /\ pc = "hgetall"
    PROVE  GroupsInv'
  <1>1. PICK s : s = slot[r]
    OBVIOUS
  <1>2. s \in Handler /\ HandlerOK(s) /\ Told(s) /\ MembershipSettled /\ s.by \in Members
    BY <1>1 DEF GroupsInv, Types
  <1>3. s.op \in {"get", "list"} /\ s.pushed = {} /\ s.acked = {} /\ s.due = {}
    BY <1>1, <1>2 DEF HandlerOK
  <1>4. PICK t : t = [s EXCEPT !.pc = pc, !.posted = {s.by}]
    OBVIOUS
  <1>5. /\ t \in Handler /\ t.op = s.op /\ t.by = s.by /\ t.who = s.who /\ t.pc = pc
        /\ t.posted = {s.by} /\ t.pushed = {} /\ t.acked = {} /\ t.due = {}
        /\ t.banned = s.banned
    BY <1>2, <1>3, <1>4 DEF Handler, Pc
  <1>6. HandlerOK(t)
    BY <1>1, <1>2, <1>3, <1>5 DEF HandlerOK, Changing
  <1>7. s.by \notin s.banned
    BY <1>2 DEF Told, MembershipSettled, Members
  <1>8. Told(t) /\ t.pc \notin {"write", "cache"}
    BY <1>2, <1>3, <1>5, <1>7 DEF Told
  <1>9. slot' = [slot EXCEPT ![r] = t] /\ UNCHANGED <<role, cached, redis, claim, lost>>
    <2>1. slot \in [Req -> Handler]
      BY DEF GroupsInv, Types
    <2> QED
      BY <1>1, <1>4, <2>1 DEF Show, pgVars
  <1>10. UnreadCovers' /\ unread' \in [User -> Nat] /\ bumps' \in [User -> Nat]
           /\ unseen' \in [User -> Nat]
    BY DEF GroupsInv, Types, UnreadCovers, Show, unreadVars
  <1> QED
    BY <1>5, <1>6, <1>8, <1>9, <1>10, OneSlot

\* A handler goes on to its next await and nothing else changes but a counter.
LEMMA MoveInv ==
    ASSUME GroupsInv, NEW r \in Req, NEW pc, slot' = [slot EXCEPT ![r].pc = pc],
           \/ slot[r].pc = "row" /\ pc = "members"
           \/ slot[r].pc = "check" /\ slot[r].op = "read" /\ pc = "hdel"
           \/ slot[r].pc = "hdel" /\ slot[r].op = "read" /\ pc = "fallback"
           \/ slot[r].pc = "hdel" /\ slot[r].op # "read" /\ pc = "resolve"
           \/ slot[r].pc = "resolve" /\ pc = "fallback" /\ (redis => cached = {}),
           UNCHANGED <<role, cached, redis, claim, lost>>,
           unread' \in [User -> Nat], bumps' \in [User -> Nat], unseen' \in [User -> Nat],
           UnreadCovers'
    PROVE  GroupsInv'
  <1>1. PICK s : s = slot[r]
    OBVIOUS
  <1>2. s \in Handler /\ HandlerOK(s) /\ Told(s) /\ MembershipSettled /\ slot \in [Req -> Handler]
    BY <1>1 DEF GroupsInv, Types
  <1>3. PICK t : t = [s EXCEPT !.pc = pc]
    OBVIOUS
  <1>4. /\ t \in Handler /\ t.op = s.op /\ t.by = s.by /\ t.who = s.who /\ t.pc = pc
        /\ t.todo = s.todo /\ t.posted = s.posted /\ t.pushed = s.pushed /\ t.acked = s.acked
        /\ t.due = s.due /\ t.banned = s.banned
    BY <1>2, <1>3 DEF Handler, Pc
  <1>5. HandlerOK(t)
    BY <1>1, <1>2, <1>4 DEF HandlerOK, Changing
  <1>6. redis /\ ~lost /\ pc = "fallback" => s.due = {}
    <2>1. CASE s.op = "read"
      BY <1>2, <2>1 DEF HandlerOK
    <2>2. CASE s.op # "read" /\ redis /\ ~lost /\ pc = "fallback"
      <3>1. cached = {}
        BY <1>1, <2>2
      <3>2. \A u \in s.due : u \in User /\ claim[u] = "in"
        BY <1>2 DEF Told, Handler
      <3> QED
        BY <1>2, <2>2, <3>1, <3>2 DEF MembershipSettled
    <2> QED
      BY <2>1, <2>2
  <1>7. Told(t) /\ t.pc \notin {"write", "cache"}
    BY <1>2, <1>4, <1>6 DEF Told
  <1>8. slot' = [slot EXCEPT ![r] = t]
    BY <1>1, <1>2, <1>3
  <1> QED
    BY <1>4, <1>5, <1>7, <1>8, OneSlot

\* Counters that do not change.
LEMMA SameCounters ==
    ASSUME GroupsInv, UNCHANGED <<unread, bumps, unseen, redis>>
    PROVE  /\ UnreadCovers' /\ unread' \in [User -> Nat] /\ bumps' \in [User -> Nat]
           /\ unseen' \in [User -> Nat]
  BY DEF GroupsInv, Types, UnreadCovers

\* HDEL: the counter is zero, and nothing is left that it should cover.
LEMMA HdelInv ==
    ASSUME GroupsInv, NEW r \in Req, HdelUnread(r)
    PROVE  GroupsInv'
  <1>1. slot[r] \in Handler /\ HandlerOK(slot[r]) /\ slot[r].pc = "hdel"
    BY DEF GroupsInv, Types, HdelUnread
  <1>2. slot[r].by \in User
    BY <1>1 DEF Handler
  <1>3. unread' \in [User -> Nat] /\ bumps' \in [User -> Nat] /\ unseen' \in [User -> Nat]
    BY <1>2 DEF GroupsInv, Types, HdelUnread
  <1>4. UnreadCovers'
    BY <1>2 DEF GroupsInv, Types, UnreadCovers, HdelUnread
  <1>5. PICK pc : pc = IF slot[r].op = "read" THEN "fallback" ELSE "resolve"
    OBVIOUS
  <1>6. slot' = [slot EXCEPT ![r].pc = pc] /\ UNCHANGED <<role, cached, redis, claim, lost>>
    BY <1>5 DEF HdelUnread, pgVars
  <1> QED
    BY <1>1, <1>3, <1>4, <1>5, <1>6, MoveInv

\* The members are found, in Redis or in PostgreSQL: they are none of those the
\* handler must not tell, and of Redis all of those it must.
LEMMA FoundInv ==
    ASSUME GroupsInv, NEW r \in Req, NEW found \in SUBSET User,
           slot[r].pc \in {"resolve", "fallback"},
           found \subseteq Members \/ found \subseteq cached,
           slot[r].pc = "resolve" => found = cached,
           RunOn(r, [slot[r] EXCEPT !.todo = found \ {slot[r].by}]),
           UNCHANGED <<pgVars, cached, redis, online, unreadVars, claim, lost>>
    PROVE  GroupsInv'
  <1>1. PICK s : s = slot[r]
    OBVIOUS
  <1>2. s \in Handler /\ HandlerOK(s) /\ Told(s) /\ MembershipSettled
    BY <1>1 DEF GroupsInv, Types
  <1>3. PICK h : h = [s EXCEPT !.todo = found \ {s.by}]
    OBVIOUS
  <1>4. /\ h \in Handler /\ h.op = s.op /\ h.by = s.by /\ h.who = s.who /\ h.pc = s.pc
        /\ h.todo = found \ {s.by} /\ h.posted = s.posted /\ h.pushed = s.pushed
        /\ h.acked = s.acked /\ h.due = s.due /\ h.banned = s.banned
    BY <1>2, <1>3 DEF Handler
  <1>5. s.posted = {} /\ s.pushed = {} /\ s.acked = {} /\ s.due \subseteq User
           /\ s.banned \subseteq User
    BY <1>1, <1>2 DEF HandlerOK, Handler
  <1>6. ~lost => found \cap s.banned = {}
    BY <1>2, <1>5 DEF Told, MembershipSettled
  <1>7. redis /\ ~lost => s.due \subseteq found
    <2>1. CASE s.pc = "resolve"
      BY <1>1, <1>2, <1>5, <2>1 DEF Told, MembershipSettled
    <2>2. CASE s.pc = "fallback"
      BY <1>2, <2>2 DEF Told
    <2> QED
      BY <1>1, <2>1, <2>2
  <1>8. Looping(h)
    BY <1>1, <1>2, <1>4, <1>5, <1>6, <1>7 DEF Looping, HandlerOK, Told
  <1>9. RunOn(r, h)
    BY <1>1, <1>3
  <1>10. UNCHANGED <<role, cached, redis, claim, lost, unread, bumps, unseen>>
    BY DEF pgVars, unreadVars
  <1>11. PICK t \in Handler : /\ slot' = [slot EXCEPT ![r] = t]
                              /\ HandlerOK(t) /\ Told(t) /\ t.pc \in {"push", "end"}
    BY <1>4, <1>8, <1>9, RunOnOK
  <1> QED
    BY <1>10, <1>11, SameCounters, OneSlot

\* LPUSH: one more member is told, or Redis is gone; the increment is under way.
LEMMA PushedInv ==
    ASSUME GroupsInv, NEW r \in Req, Pushed(r)
    PROVE  GroupsInv'
  <1>1. PICK s : s = slot[r]
    OBVIOUS
  <1>2. s \in Handler /\ HandlerOK(s) /\ Told(s) /\ s.pc = "push"
    BY <1>1 DEF GroupsInv, Types, Pushed
  <1>3. s.who \in s.todo /\ s.who \in User /\ s.op \in {"tcp", "ws"}
    BY <1>2 DEF HandlerOK, Handler
  <1>4. PICK p : p = IF redis THEN s.pushed \cup {s.who} ELSE s.pushed
    OBVIOUS
  <1>5. PICK h : h = [s EXCEPT !.todo = @ \ {s.who}, !.pushed = p]
    OBVIOUS
  <1>6. /\ h \in Handler /\ h.op = s.op /\ h.by = s.by /\ h.who = s.who /\ h.pc = s.pc
        /\ h.todo = s.todo \ {s.who} /\ h.posted = s.posted /\ h.pushed = p
        /\ h.acked = s.acked /\ h.due = s.due /\ h.banned = s.banned
    BY <1>2, <1>3, <1>4, <1>5 DEF Handler
  <1>7. Looping(h)
    BY <1>2, <1>3, <1>4, <1>6 DEF Looping, HandlerOK, Told
  <1>8. RunOn(r, h)
    BY <1>1, <1>4, <1>5 DEF Pushed
  <1>9. PICK t \in Handler : /\ slot' = [slot EXCEPT ![r] = t]
                             /\ HandlerOK(t) /\ Told(t) /\ t.pc \in {"push", "end"}
    BY <1>6, <1>7, <1>8, RunOnOK
  <1>10. UNCHANGED <<role, cached, redis, claim, lost, unread>>
    BY DEF Pushed, pgVars
  <1>11. /\ bumps' = [bumps EXCEPT ![s.who] = @ + 1]
         /\ unseen' \in {unseen, [unseen EXCEPT ![s.who] = @ + 1]}
    BY <1>1 DEF Pushed, Unseen
  <1>12. unread' \in [User -> Nat] /\ bumps' \in [User -> Nat] /\ unseen' \in [User -> Nat]
    BY <1>3, <1>10, <1>11 DEF GroupsInv, Types
  <1>13. UnreadCovers'
    BY <1>3, <1>10, <1>11 DEF GroupsInv, Types, UnreadCovers
  <1> QED
    BY <1>9, <1>10, <1>12, <1>13, OneSlot
-----------------------------------------------------------------------------
(***************************************************************************)
(* Every step.                                                             *)
(***************************************************************************)

\* The first step of every handler.
LEMMA RequestInv ==
    ASSUME GroupsInv, NEW r \in Req, Request(r)
    PROVE  GroupsInv'
  <1>1. CASE PostGroups(r)
    <2>1. PICK s : s = Started("create", Creator, Creator, "write")
      OBVIOUS
    <2>2. "create" \in Op /\ "write" \in Pc /\ Creator \in User /\ MemberIds \subseteq User
      BY GroupsAssumption DEF Op, Pc
    <2>3. Beginning(s, "create", Creator, Creator, "write")
      BY <2>1, <2>2, StartedOK
    <2>4. /\ s \in Handler /\ s.op = "create" /\ s.todo = {} /\ s.posted = {} /\ s.pushed = {}
          /\ s.acked = {} /\ s.due = {} /\ s.banned = {} /\ s.op \in Changing
      BY <2>3 DEF Beginning, Changing
    <2>5. PICK us \in SUBSET User : us = MemberIds \cup {Creator}
      BY <2>2
    <2>6. EnterWrite(r, s, us) /\ us = IF s.op = "patch" THEN {} ELSE Subjects(s)
      BY <1>1, <2>1, <2>4, <2>5 DEF PostGroups, Subjects
    <2>7. UNCHANGED <<pgVars, cached, redis, unreadVars, lost>>
      BY <1>1 DEF PostGroups
    <2> QED
      BY <2>4, <2>6, <2>7, EnterWriteInv
  <1>2. ASSUME NEW u \in User, NEW w \in User, PostMembers(r, u, w)
        PROVE  GroupsInv'
    BY <1>2, StartInv DEF PostMembers
  <1>3. ASSUME NEW u \in User, NEW w \in User, DeleteMember(r, u, w)
        PROVE  GroupsInv'
    <2>1. CASE u # w /\ Start(r, "remove", u, w, "check")
      BY <2>1, StartInv
    <2>2. CASE /\ u = w /\ EnterWrite(r, Started("remove", u, w, "write"), {w})
               /\ UNCHANGED <<pgVars, cached, redis, online, unreadVars, lost>>
      <3>1. PICK s : s = Started("remove", u, w, "write")
        OBVIOUS
      <3>2. "remove" \in Op /\ "write" \in Pc
        BY DEF Op, Pc
      <3>3. Beginning(s, "remove", u, w, "write")
        BY <3>1, <3>2, StartedOK
      <3>4. /\ s \in Handler /\ s.op = "remove" /\ s.who = w /\ s.todo = {} /\ s.posted = {}
            /\ s.pushed = {} /\ s.acked = {} /\ s.due = {} /\ s.banned = {} /\ s.op \in Changing
        BY <3>3 DEF Beginning, Changing
      <3>5. PICK us \in SUBSET User : us = {w}
        OBVIOUS
      <3>6. EnterWrite(r, s, us) /\ us = IF s.op = "patch" THEN {} ELSE Subjects(s)
        BY <2>2, <3>1, <3>4, <3>5 DEF Subjects
      <3>7. UNCHANGED <<pgVars, cached, redis, unreadVars, lost>>
        BY <2>2
      <3> QED
        BY <3>4, <3>6, <3>7, EnterWriteInv
    <2> QED
      BY <1>3, <2>1, <2>2 DEF DeleteMember
  <1>4. ASSUME NEW u \in User,
               \/ GetGroup(r, u) \/ PatchGroup(r, u) \/ ListConversations(r, u)
               \/ PostRead(r, u) \/ WsRead(r, u) \/ Typing(r, u)
        PROVE  GroupsInv'
    <2>1. CASE GetGroup(r, u)
      BY <2>1, StartInv DEF GetGroup
    <2>2. CASE PatchGroup(r, u)
      BY <2>2, StartInv DEF PatchGroup
    <2>3. CASE ListConversations(r, u)
      BY <2>3, StartInv DEF ListConversations
    <2>4. CASE PostRead(r, u)
      BY <2>4, StartInv DEF PostRead
    <2>5. CASE WsRead(r, u)
      BY <2>5, StartInv DEF WsRead
    <2>6. CASE Typing(r, u)
      BY <2>6, StartInv DEF Typing
    <2> QED
      BY <1>4, <2>1, <2>2, <2>3, <2>4, <2>5, <2>6
  <1>5. ASSUME NEW u \in User, GroupChat(r, u, "tcp") \/ GroupChat(r, u, "ws")
        PROVE  GroupsInv'
    BY <1>5, GroupChatInv
  <1> QED
    BY <1>1, <1>2, <1>3, <1>4, <1>5 DEF Request

\* SELECT role, and on to the write.
LEMMA AdminCheckInv ==
    ASSUME GroupsInv, NEW r \in Req, AdminCheck(r)
    PROVE  GroupsInv'
  <1>1. PICK s : s = slot[r]
    OBVIOUS
  <1>2. CASE Answer(r)
    BY <1>2, AnswerInv
  <1>3. CASE /\ EnterWrite(r, s, IF s.op = "patch" THEN {} ELSE {s.who})
             /\ UNCHANGED <<pgVars, cached, redis, online, unreadVars, lost>>
    <2>1. /\ s \in Handler /\ HandlerOK(s) /\ s.pc = "check" /\ s.op \in {"patch", "add", "remove"}
      BY <1>1 DEF AdminCheck, GroupsInv, Types
    <2>2. /\ s.op \in Changing /\ s.posted = {} /\ s.pushed = {} /\ s.acked = {} /\ s.due = {}
          /\ s.banned = {} /\ s.who \in User /\ s.todo \subseteq User
      BY <2>1 DEF HandlerOK, Changing, Handler
    <2>3. PICK us \in SUBSET User : us = IF s.op = "patch" THEN {} ELSE {s.who}
      BY <2>2
    <2>4. EnterWrite(r, s, us) /\ us = IF s.op = "patch" THEN {} ELSE Subjects(s)
      BY <1>3, <2>1, <2>3 DEF Subjects
    <2>5. UNCHANGED <<pgVars, cached, redis, unreadVars, lost>>
      BY <1>3
    <2> QED
      BY <2>1, <2>2, <2>4, <2>5, EnterWriteInv
  <1> QED
    BY <1>1, <1>2, <1>3 DEF AdminCheck

\* The awaits of every handler.
LEMMA StepInv ==
    ASSUME GroupsInv, NEW r \in Req, Step(r)
    PROVE  GroupsInv'
  <1>1. CASE GroupRow(r)
    <2>1. CASE Answer(r)
      BY <2>1, AnswerInv
    <2>2. CASE slot[r].pc = "row" /\ slot' = [slot EXCEPT ![r].pc = "members"]
                 /\ UNCHANGED <<pgVars, cached, redis, online, unreadVars, claim, lost>>
      BY <2>2, MoveInv, SameCounters DEF pgVars, unreadVars
    <2> QED
      BY <1>1, <2>1, <2>2 DEF GroupRow
  <1>2. CASE GroupMembers(r)
    BY <1>2, AnswerInv, ShowInv DEF GroupMembers
  <1>3. CASE ConversationRows(r)
    BY <1>3, AnswerInv, ShowInv DEF ConversationRows
  <1>4. CASE HgetallUnread(r) \/ PgThrows(r) \/ Return(r)
    BY <1>4, AnswerInv DEF HgetallUnread, PgThrows, Return
  <1>5. CASE MemberCheck(r)
    <2>1. CASE Answer(r)
      BY <2>1, AnswerInv
    <2>2. CASE slot[r].pc = "check" /\ slot[r].op = "read" /\ slot' = [slot EXCEPT ![r].pc = "hdel"]
                 /\ UNCHANGED <<pgVars, cached, redis, online, unreadVars, claim, lost>>
      BY <2>2, MoveInv, SameCounters DEF pgVars, unreadVars
    <2> QED
      BY <1>5, <2>1, <2>2 DEF MemberCheck
  <1>6. CASE Resolve(r)
    <2>1. PICK found : found = IF redis THEN cached ELSE {}
      OBVIOUS
    <2>2. /\ slot[r].pc = "resolve"
          /\ UNCHANGED <<pgVars, cached, redis, online, unreadVars, claim, lost>>
      BY <1>6 DEF Resolve
    <2>3. CASE found = {} /\ slot' = [slot EXCEPT ![r].pc = "fallback"]
      <3>1. UNCHANGED <<role, cached, redis, claim, lost, unread, bumps, unseen>>
        BY <2>2 DEF pgVars, unreadVars
      <3> QED
        BY <2>1, <2>2, <2>3, <3>1, MoveInv, SameCounters
    <2>4. CASE found # {} /\ RunOn(r, [slot[r] EXCEPT !.todo = found \ {slot[r].by}])
      <3>1. found = cached /\ found \in SUBSET User
        BY <2>1, <2>4 DEF GroupsInv, Types
      <3> QED
        BY <2>2, <2>4, <3>1, FoundInv
    <2> QED
      BY <1>6, <2>1, <2>3, <2>4 DEF Resolve
  <1>7. CASE Fallback(r)
    <2>1. PICK found \in {Members, {}} :
             RunOn(r, [slot[r] EXCEPT !.todo = found \ {slot[r].by}])
      BY <1>7 DEF Fallback
    <2>2. found \in SUBSET User /\ found \subseteq Members /\ slot[r].pc = "fallback"
      BY <1>7, <2>1 DEF Members, Fallback
    <2>3. UNCHANGED <<pgVars, cached, redis, online, unreadVars, claim, lost>>
      BY <1>7 DEF Fallback
    <2> QED
      BY <2>1, <2>2, <2>3, FoundInv
  <1> QED
    BY <1>1, <1>2, <1>3, <1>4, <1>5, <1>6, <1>7, AdminCheckInv, WriteInv, CacheInv, HdelInv,
       PushedInv DEF Step

\* The steps that leave the handlers alone.
LEMMA AroundInv ==
    ASSUME GroupsInv, slot' = slot, UNCHANGED <<role, cached, claim, lost>>,
           redis' \in BOOLEAN, redis' => redis,
           unread' \in [User -> Nat], bumps' \in [User -> Nat], unseen' \in [User -> Nat],
           UnreadCovers'
    PROVE  GroupsInv'
  <1>1. Types'
    BY DEF GroupsInv, Types
  <1>2. MembershipSettled'
    BY DEF GroupsInv, MembershipSettled, Members
  <1>3. \A r \in Req : HandlerOK(slot'[r])
    BY DEF GroupsInv
  <1>4. \A r \in Req : Told(slot[r])'
    BY DEF GroupsInv, Told
  <1>5. \A r \in Req : NoClaim(slot[r])' /\ Underway(slot[r])'
    BY DEF GroupsInv, NoClaim, Underway
  <1>6. \A q, r \in Req : q # r => Clashing(slot'[q], slot'[r])
    BY DEF GroupsInv
  <1> QED
    BY <1>1, <1>2, <1>3, <1>4, <1>5, <1>6 DEF GroupsInv

\* No handler runs: at the start, and after a restart.
LEMMA AllIdle ==
    ASSUME Types, MembershipSettled, UnreadCovers, slot = [r \in Req |-> Idle]
    PROVE  GroupsInv
  <1>1. \A r \in Req : HandlerOK(slot[r]) /\ Told(slot[r])
    BY IdleOK
  <1>2. \A r \in Req : Touched(slot[r]) = {} /\ NoClaim(slot[r]) /\ Underway(slot[r])
    BY DEF Idle, Touched, NoClaim, Underway
  <1> QED
    BY <1>1, <1>2 DEF GroupsInv, Clashing

\* What is left to be counted when n increments are lost.
LEMMA UncountedLess ==
    ASSUME GroupsInv, NEW u \in User, NEW n \in Nat
    PROVE  /\ Uncounted(u, n) \in Nat /\ Uncounted(u, n) <= unseen[u]
           /\ unseen[u] <= Uncounted(u, n) + n
           /\ \A c \in Nat : c + n >= unseen[u] => c >= Uncounted(u, n)
  <1>1. PICK m \in Nat : m = unseen[u]
    BY DEF GroupsInv, Types
  <1> QED
    BY <1>1 DEF Uncounted

\* Every step keeps the invariant.
LEMMA GroupsStep ==
    ASSUME GroupsInv, [Next]_vars
    PROVE  GroupsInv'
  <1>1. ASSUME NEW r \in Req, Request(r) \/ Step(r)
        PROVE  GroupsInv'
    BY <1>1, RequestInv, StepInv
  <1>2. ASSUME NEW u \in User, HincrbyUnread(u)
        PROVE  GroupsInv'
    <2>0. /\ unread \in [User -> Nat] /\ bumps \in [User -> Nat] /\ unseen \in [User -> Nat]
          /\ bumps[u] > 0 /\ bumps' = [bumps EXCEPT ![u] = @ - 1]
          /\ \A w \in User : unread[w] + bumps[w] >= unseen[w]
      BY <1>2 DEF GroupsInv, Types, UnreadCovers, HincrbyUnread
    <2>1. unread' \in [User -> Nat] /\ bumps' \in [User -> Nat] /\ unseen' \in [User -> Nat]
      <3>1. bumps' \in [User -> Nat] /\ unread' \in [User -> Nat]
        BY <1>2, <2>0 DEF HincrbyUnread
      <3>2. Uncounted(u, 1) \in Nat
        BY UncountedLess
      <3> QED
        BY <1>2, <2>0, <3>1, <3>2 DEF HincrbyUnread
    <2>2. UnreadCovers'
      <3>1. CASE redis
        <4>1. unread' = [unread EXCEPT ![u] = @ + 1] /\ unseen' = unseen
          BY <1>2, <3>1 DEF HincrbyUnread
        <4> QED
          BY <2>0, <4>1 DEF UnreadCovers
      <3>2. CASE ~redis
        <4>1. PICK m : m = Uncounted(u, 1)
          OBVIOUS
        <4>2. unread' = unread /\ unseen' = [unseen EXCEPT ![u] = m]
          BY <1>2, <3>2, <4>1 DEF HincrbyUnread
        <4>3. m \in Nat /\ \A c \in Nat : c + 1 >= unseen[u] => c >= m
          BY <4>1, UncountedLess
        <4>4. unread[u] + (bumps[u] - 1) >= m
          <5>1. PICK c \in Nat : c = unread[u] + (bumps[u] - 1)
            BY <2>0
          <5>2. c + 1 = unread[u] + bumps[u]
            BY <2>0, <5>1
          <5> QED
            BY <2>0, <4>3, <5>1, <5>2
        <4> QED
          BY <2>0, <4>2, <4>3, <4>4 DEF UnreadCovers
      <3> QED
        BY <3>1, <3>2
    <2>3. UNCHANGED <<slot, role, cached, claim, lost, redis>> /\ redis \in BOOLEAN
      BY <1>2 DEF HincrbyUnread, pgVars, GroupsInv, Types
    <2> QED
      BY <2>1, <2>2, <2>3, AroundInv
  <1>3. CASE UNCHANGED <<slot, role, cached, claim, lost, redis, unread, bumps, unseen>>
    <2>1. redis \in BOOLEAN
      BY DEF GroupsInv, Types
    <2> QED
      BY <1>3, <2>1, SameCounters, AroundInv
  <1>4. CASE RedisFail
    <2>1. UNCHANGED <<slot, role, cached, claim, lost, unread, bumps, unseen>> /\ redis' = FALSE
      BY <1>4 DEF RedisFail, pgVars, unreadVars
    <2>2. UnreadCovers'
      BY <2>1 DEF GroupsInv, UnreadCovers
    <2>3. unread' \in [User -> Nat] /\ bumps' \in [User -> Nat] /\ unseen' \in [User -> Nat]
      BY <2>1 DEF GroupsInv, Types
    <2> QED
      BY <2>1, <2>2, <2>3, AroundInv
  <1>5. CASE Restart
    <2>1. slot' = [r \in Req |-> Idle] /\ UNCHANGED <<role, cached, claim, lost, unread>>
      BY <1>5 DEF Restart, pgVars
    <2>2. /\ unread \in [User -> Nat] /\ bumps \in [User -> Nat]
          /\ \A w \in User : unread[w] + bumps[w] >= unseen[w]
      BY DEF GroupsInv, Types, UnreadCovers
    <2>3. \A w \in User : Uncounted(w, bumps[w]) \in Nat /\ unread[w] >= Uncounted(w, bumps[w])
      BY <2>2, UncountedLess
    <2>4. bumps' = [w \in User |-> 0] /\ unseen' = [w \in User |-> Uncounted(w, bumps[w])]
      BY <1>5 DEF Restart
    <2>5. bumps' \in [User -> Nat] /\ unseen' \in [User -> Nat]
      BY <2>3, <2>4
    <2>6. Types'
      BY <1>5, <2>1, <2>5, IdleOK DEF GroupsInv, Types, Restart
    <2>7. MembershipSettled'
      BY <2>1 DEF GroupsInv, MembershipSettled, Members
    <2>8. UnreadCovers'
      BY <2>2, <2>1, <2>3, <2>4 DEF UnreadCovers
    <2>9. \A r \in Req : slot'[r] = Idle /\ HandlerOK(slot'[r])
      BY <2>1, IdleOK
    <2>10. \A r \in Req : Told(slot[r])'
      BY <2>9 DEF Told, Idle
    <2>11. \A r \in Req : Touched(slot'[r]) = {} /\ NoClaim(slot[r])' /\ Underway(slot[r])'
      BY <2>9 DEF Idle, Touched, NoClaim, Underway
    <2> QED
      BY <2>6, <2>7, <2>8, <2>9, <2>10, <2>11 DEF GroupsInv, Clashing
  <1> QED
    BY <1>1, <1>2, <1>3, <1>4, <1>5 DEF Next, vars, pgVars, unreadVars, Connect, Disconnect

-----------------------------------------------------------------------------
\* The inductive invariant holds in every reachable state.
THEOREM GroupsInvariant == Spec => []GroupsInv
  <1>1. Init => GroupsInv
    <2> SUFFICES ASSUME Init PROVE GroupsInv
      OBVIOUS
    <2>1. Types
      BY IdleOK DEF Init, Types
    <2>2. MembershipSettled /\ UnreadCovers
      BY DEF Init, MembershipSettled, UnreadCovers, Members
    <2> QED
      BY <2>1, <2>2, AllIdle DEF Init
  <1>2. GroupsInv /\ [Next]_vars => GroupsInv'
    BY GroupsStep
  <1> QED
    BY <1>1, <1>2, PTL DEF Spec

\* For any number of handlers that add and remove members at the same time, with
\* transactions in doubt and restarts in between: an acknowledged membership, or
\* its end, is so in PostgreSQL and in the Redis set (GroupsHandler).
THEOREM MembershipsSettled == Spec => []MembershipSettled
  <1>1. GroupsInv => MembershipSettled
    BY DEF GroupsInv
  <1> QED
    BY <1>1, GroupsInvariant, PTL

\* A group message that is through has reached every member it was owed to
\* (deliver_group_message of both session classes).
THEOREM FanoutComplete == Spec => []FanoutReaches
  <1>1. GroupsInv => FanoutReaches
    BY DEF GroupsInv, Told, FanoutReaches
  <1> QED
    BY <1>1, GroupsInvariant, PTL

\* No fan-out or listing reaches a user who was removed before it began, and none
\* its sender.
THEOREM FanoutPrivate == Spec => []FanoutSound
  <1>1. GroupsInv => FanoutSound
    BY DEF GroupsInv, Told, HandlerOK, FanoutSound
  <1> QED
    BY <1>1, GroupsInvariant, PTL

\* A message pushed while its reader is not reading stays counted until a read that
\* arrives after it (hincrby_unread, hdel_unread); one pushed between the arrival of a
\* read and its HDEL need not be.
THEOREM UnreadNeverShort == Spec => []UnreadCovers
  <1>1. GroupsInv => UnreadCovers
    BY DEF GroupsInv
  <1> QED
    BY <1>1, GroupsInvariant, PTL

-----------------------------------------------------------------------------
(***************************************************************************)
(* Roles: AdminOnly is inductive beside the types.                         *)
(***************************************************************************)

\* Who may get as far as a write: the creator, or a member who leaves.
Entitled(s) ==
    s.pc \in {"write", "cache"} => s.by = Creator \/ (s.op = "remove" /\ s.by = s.who)

\* One handler moves on and the tables stay.
LEMMA EntitledMove ==
    ASSUME AdminOnly, slot \in [Req -> Handler], NEW r \in Req, NEW t,
           slot' = [slot EXCEPT ![r] = t], Entitled(t), UNCHANGED pgVars
    PROVE  AdminOnly'
  <1>1. \A q \in Req : slot'[q] = slot[q] \/ slot'[q] = t
    OBVIOUS
  <1> QED
    BY <1>1 DEF AdminOnly, Entitled, pgVars

\* Handlers that only answer.
LEMMA AnswerEntitled ==
    ASSUME AdminOnly, slot \in [Req -> Handler], NEW r \in Req, Answer(r)
    PROVE  AdminOnly'
  <1>1. Entitled(Idle)
    BY DEF Entitled, Idle
  <1> QED
    BY <1>1, EntitledMove DEF Answer

\* Handlers that go on to another await without a write.
LEMMA MoveEntitled ==
    ASSUME AdminOnly, slot \in [Req -> Handler], NEW r \in Req, NEW pc \in Pc \ {"write", "cache"},
           NEW posted,
           slot' = [slot EXCEPT ![r].pc = pc] \/ slot' = [slot EXCEPT ![r].pc = pc, ![r].posted = posted],
           UNCHANGED pgVars
    PROVE  AdminOnly'
  <1>1. PICK h : h = slot[r]
    OBVIOUS
  <1>2. PICK t : \/ t = [h EXCEPT !.pc = pc] /\ slot' = [slot EXCEPT ![r] = t]
                 \/ t = [h EXCEPT !.pc = pc, !.posted = posted] /\ slot' = [slot EXCEPT ![r] = t]
    BY <1>1
  <1>3. h \in Handler
    BY <1>1
  <1>4. t.pc = pc
    BY <1>2, <1>3 DEF Handler
  <1> QED
    BY <1>2, <1>4, EntitledMove DEF Entitled

\* A fan-out never gets to a write.
LEMMA RunOnEntitled ==
    ASSUME AdminOnly, slot \in [Req -> Handler], NEW r \in Req, NEW s \in Handler, RunOn(r, s),
           UNCHANGED pgVars
    PROVE  AdminOnly'
  <1>1. CASE s.op \notin {"tcp", "ws"}
    <2>1. PICK t : t = [s EXCEPT !.pc = "end", !.todo = {},
                                 !.posted = @ \cup (s.todo \cap online)]
      OBVIOUS
    <2>2. slot' = [slot EXCEPT ![r] = t] /\ t.pc = "end"
      BY <1>1, <2>1 DEF RunOn, Handler
    <2> QED
      BY <2>2, EntitledMove DEF Entitled
  <1>2. CASE s.op \in {"tcp", "ws"}
    <2>1. PICK S \in SUBSET (s.todo \cap online) :
             LET t == [s EXCEPT !.posted = @ \cup S,
                                !.acked = IF s.op = "tcp" /\ s.by \in online
                                          THEN @ \cup S ELSE @]
             IN \/ /\ S = s.todo
                   /\ slot' = [slot EXCEPT ![r] = [t EXCEPT !.pc = "end", !.todo = {},
                                                            !.spawned = {"store", "activity"}]]
                \/ \E m \in s.todo \ online :
                      slot' = [slot EXCEPT ![r] = [t EXCEPT !.pc = "push", !.todo = s.todo \ S,
                                                            !.who = m]]
      BY <1>2 DEF RunOn
    <2>2. PICK a : a = IF s.op = "tcp" /\ s.by \in online THEN s.acked \cup S ELSE s.acked
      OBVIOUS
    <2>3. PICK p : p = [s EXCEPT !.posted = @ \cup S, !.acked = a]
      OBVIOUS
    <2>4. DOMAIN p = DOMAIN s /\ "pc" \in DOMAIN s
      BY <2>3 DEF Handler
    <2>5. CASE slot' = [slot EXCEPT ![r] = [p EXCEPT !.pc = "end", !.todo = {},
                                                     !.spawned = {"store", "activity"}]]
      <3>1. PICK t : t = [p EXCEPT !.pc = "end", !.todo = {}, !.spawned = {"store", "activity"}]
        OBVIOUS
      <3>2. slot' = [slot EXCEPT ![r] = t] /\ t.pc = "end"
        BY <2>4, <2>5, <3>1
      <3> QED
        BY <3>2, EntitledMove DEF Entitled
    <2>6. ASSUME NEW m,
                 slot' = [slot EXCEPT ![r] = [p EXCEPT !.pc = "push", !.todo = s.todo \ S,
                                                       !.who = m]]
          PROVE  AdminOnly'
      <3>1. PICK t : t = [p EXCEPT !.pc = "push", !.todo = s.todo \ S, !.who = m]
        OBVIOUS
      <3>2. slot' = [slot EXCEPT ![r] = t] /\ t.pc = "push"
        BY <2>4, <2>6, <3>1
      <3> QED
        BY <3>2, EntitledMove DEF Entitled
    <2> QED
      BY <2>1, <2>2, <2>3, <2>5, <2>6
  <1> QED
    BY <1>1, <1>2

\* Who enters a write is entitled to it; the others stay where they are.
LEMMA EnterWriteEntitled ==
    ASSUME AdminOnly, slot \in [Req -> Handler], NEW r \in Req, NEW s \in Handler,
           NEW us, EnterWrite(r, s, us),
           s.by = Creator \/ (s.op = "remove" /\ s.by = s.who), UNCHANGED pgVars
    PROVE  AdminOnly'
  <1>1. PICK c : c = \E p \in Req \ {r} : Touched(slot[p]) \cap us # {}
    OBVIOUS
  <1>2. PICK t : t = [s EXCEPT !.pc = "write", !.clash = c]
    OBVIOUS
  <1>3. slot'[r] = t /\ t.by = s.by /\ t.op = s.op /\ t.who = s.who
    BY <1>1, <1>2 DEF EnterWrite, Handler
  <1>4. ASSUME NEW q \in Req, q # r
        PROVE  /\ slot'[q].pc = slot[q].pc /\ slot'[q].by = slot[q].by
               /\ slot'[q].op = slot[q].op /\ slot'[q].who = slot[q].who
    <2>1. PICK k : k = (slot[q].clash \/ Touched(slot[q]) \cap us # {})
      OBVIOUS
    <2>2. PICK h : h = slot[q]
      OBVIOUS
    <2>3. slot'[q] = [h EXCEPT !.clash = k, !.due = @ \ us, !.banned = @ \ us]
      BY <1>4, <2>1, <2>2 DEF EnterWrite
    <2>4. PICK n : n = [h EXCEPT !.clash = k, !.due = @ \ us, !.banned = @ \ us]
      OBVIOUS
    <2>5. n.pc = h.pc /\ n.by = h.by /\ n.op = h.op /\ n.who = h.who
      BY <2>2, <2>4 DEF Handler
    <2> QED
      BY <2>2, <2>3, <2>4, <2>5
  <1>5. \A q \in Req : Entitled(slot'[q])
    BY <1>3, <1>4 DEF Entitled, AdminOnly
  <1> QED
    BY <1>5 DEF AdminOnly, Entitled, pgVars

\* A transaction makes nobody but the creator an admin, and only the creator's
\* sets the name.
LEMMA WriteEntitled ==
    ASSUME AdminOnly, GroupsInv, NEW r \in Req, Write(r)
    PROVE  AdminOnly'
  <1>1. PICK s : s = slot[r]
    OBVIOUS
  <1>2. /\ s \in Handler /\ s.op \in Changing /\ s.pc = "write" /\ Entitled(s)
        /\ slot \in [Req -> Handler] /\ role \in [User -> {"none", "member", "admin"}]
    BY <1>1 DEF GroupsInv, Types, HandlerOK, Write, AdminOnly, Entitled
  <1>3. PICK t : t = [s EXCEPT !.pc = "cache", !.todo = Subjects(s)]
    OBVIOUS
  <1>4. t.by = s.by /\ t.op = s.op /\ t.who = s.who
    BY <1>2, <1>3 DEF Handler
  <1>5. Entitled(t) /\ Entitled(Idle)
    BY <1>2, <1>4 DEF Entitled, Idle
  <1>6. slot' = [slot EXCEPT ![r] = t] \/ slot' = [slot EXCEPT ![r] = Idle]
    BY <1>1, <1>3 DEF Write
  <1>7. \A q \in Req : slot'[q] = slot[q] \/ slot'[q] = t \/ slot'[q] = Idle
    BY <1>2, <1>6
  <1>8. \A q \in Req : Entitled(slot'[q])
    BY <1>5, <1>7 DEF AdminOnly, Entitled
  <1>9. \A u \in User : Rows(s)[u] = "admin" => u = Creator
    BY <1>2 DEF Rows, AdminOnly, Changing
  <1>10. role' = role \/ role' = Rows(s)
    BY <1>1 DEF Write, pgVars
  <1>11. name' = name \/ (s.op \in {"create", "patch"} /\ name' = s.by)
    BY <1>1 DEF Write, pgVars
  <1>12. name' \in {"none", Creator}
    BY <1>2, <1>11 DEF AdminOnly, Entitled
  <1> QED
    BY <1>8, <1>9, <1>10, <1>12 DEF AdminOnly, Entitled

\* The commands to Redis change no role.
LEMMA CacheEntitled ==
    ASSUME AdminOnly, slot \in [Req -> Handler], NEW r \in Req, Cache(r)
    PROVE  AdminOnly'
  <1>1. PICK s : s = slot[r]
    OBVIOUS
  <1>2. s \in Handler /\ Entitled(s) /\ s.pc = "cache"
    BY <1>1 DEF Cache, AdminOnly, Entitled
  <1>3. PICK u \in s.todo : slot' = [slot EXCEPT ![r].todo = @ \ {u}] \/ slot' = [slot EXCEPT ![r] = Idle]
    BY <1>1 DEF Cache
  <1>4. PICK t : t = [s EXCEPT !.todo = @ \ {u}]
    OBVIOUS
  <1>5. Entitled(t) /\ Entitled(Idle)
    BY <1>2, <1>4 DEF Entitled, Idle, Handler
  <1>6. slot' = [slot EXCEPT ![r] = t] \/ slot' = [slot EXCEPT ![r] = Idle]
    BY <1>1, <1>3, <1>4
  <1>7. UNCHANGED pgVars
    BY DEF Cache
  <1> QED
    BY <1>5, <1>6, <1>7, EntitledMove

\* The handlers that start by a read.
LEMMA StartEntitled ==
    ASSUME AdminOnly, slot \in [Req -> Handler], NEW r \in Req, NEW op, NEW by, NEW who,
           NEW pc \in Pc \ {"write", "cache"}, Start(r, op, by, who, pc)
    PROVE  AdminOnly'
  <1>1. op \in Op /\ by \in User /\ who \in User
    BY GroupsAssumption DEF Start
  <1>2. Beginning(Started(op, by, who, pc), op, by, who, pc)
    BY <1>1, StartedOK
  <1>3. Entitled(Started(op, by, who, pc))
    BY <1>2 DEF Beginning, Entitled
  <1> QED
    BY <1>3, EntitledMove DEF Start

\* The first step of every handler.
LEMMA RequestEntitled ==
    ASSUME AdminOnly, slot \in [Req -> Handler], NEW r \in Req, Request(r)
    PROVE  AdminOnly'
  <1>0. {"create", "remove", "tcp", "ws"} \subseteq Op /\ {"write", "resolve"} \subseteq Pc
    BY DEF Op, Pc
  <1>1. CASE PostGroups(r)
    <2>1. PICK t : t = Started("create", Creator, Creator, "write")
      OBVIOUS
    <2>2. Beginning(t, "create", Creator, Creator, "write")
      BY <1>0, <2>1, StartedOK, GroupsAssumption
    <2>3. t \in Handler /\ t.by = Creator
      BY <2>2 DEF Beginning
    <2> QED
      BY <1>1, <2>1, <2>3, EnterWriteEntitled DEF PostGroups
  <1>2. ASSUME NEW u \in User, NEW w \in User, DeleteMember(r, u, w)
        PROVE  AdminOnly'
    <2>1. CASE Start(r, "remove", u, w, "check")
      BY <2>1, StartEntitled DEF Pc
    <2>2. CASE u = w /\ EnterWrite(r, Started("remove", u, w, "write"), {w}) /\ UNCHANGED pgVars
      <3>1. PICK t : t = Started("remove", u, w, "write")
        OBVIOUS
      <3>2. Beginning(t, "remove", u, w, "write")
        BY <1>0, <3>1, StartedOK
      <3>3. t \in Handler /\ t.op = "remove" /\ t.by = u /\ t.who = w
        BY <3>2 DEF Beginning
      <3> QED
        BY <2>2, <3>1, <3>3, EnterWriteEntitled
    <2> QED
      BY <1>2, <2>1, <2>2 DEF DeleteMember
  <1>3. ASSUME NEW u \in User, NEW kind \in {"tcp", "ws"}, GroupChat(r, u, kind)
        PROVE  AdminOnly'
    <2>1. PICK sp : sp = IF kind = "ws" THEN {"store"} ELSE {}
      OBVIOUS
    <2>2. PICK h : h = Started(kind, u, u, "resolve")
      OBVIOUS
    <2>3. Beginning(h, kind, u, u, "resolve")
      BY <1>0, <2>2, StartedOK
    <2>4. PICK t : t = [h EXCEPT !.spawned = sp]
      OBVIOUS
    <2>5. Entitled(t)
      BY <2>3, <2>4 DEF Beginning, Entitled, Handler
    <2>6. slot' = [slot EXCEPT ![r] = t] /\ UNCHANGED pgVars
      BY <1>3, <2>1, <2>2, <2>4 DEF GroupChat
    <2> QED
      BY <2>5, <2>6, EntitledMove
  <1>4. ASSUME NEW u \in User,
               \/ GetGroup(r, u) \/ PatchGroup(r, u) \/ ListConversations(r, u)
               \/ PostRead(r, u) \/ WsRead(r, u) \/ Typing(r, u)
               \/ \E w \in User : PostMembers(r, u, w)
        PROVE  AdminOnly'
    BY <1>4, StartEntitled DEF GetGroup, PatchGroup, ListConversations, PostRead, WsRead,
         Typing, PostMembers, Pc
  <1> QED
    BY <1>1, <1>2, <1>3, <1>4 DEF Request

\* The check of the role, the only way to another user's row or the name.
LEMMA AdminCheckEntitled ==
    ASSUME AdminOnly, slot \in [Req -> Handler], NEW r \in Req, AdminCheck(r)
    PROVE  AdminOnly'
  <1>1. CASE Answer(r)
    BY <1>1, AnswerEntitled
  <1>2. CASE ~Answer(r)
    <2>1. PICK s : s = slot[r]
      OBVIOUS
    <2>2. s \in Handler
      BY <2>1
    <2>3. s.by \in User /\ role[s.by] = "admin" /\ UNCHANGED pgVars
      BY <1>2, <2>1, <2>2 DEF AdminCheck, Handler
    <2>4. s.by = Creator
      BY <2>3 DEF AdminOnly
    <2>5. PICK us : EnterWrite(r, s, us)
      BY <1>2, <2>1 DEF AdminCheck
    <2> QED
      BY <2>2, <2>3, <2>4, <2>5, EnterWriteEntitled
  <1> QED
    BY <1>1, <1>2

\* Every step keeps the roles.
LEMMA AdminStep == GroupsInv /\ AdminOnly /\ [Next]_vars => AdminOnly'
  <1> SUFFICES ASSUME GroupsInv, AdminOnly, [Next]_vars PROVE AdminOnly'
    OBVIOUS
  <1>1. slot \in [Req -> Handler]
    BY DEF GroupsInv, Types
  <1>2. ASSUME NEW r \in Req, Request(r) PROVE AdminOnly'
    BY <1>1, <1>2, RequestEntitled
  <1>3. ASSUME NEW r \in Req, Step(r) PROVE AdminOnly'
    <2>1. CASE Answer(r)
      BY <1>1, <2>1, AnswerEntitled
    <2>2. CASE Write(r) \/ Cache(r) \/ AdminCheck(r)
      BY <1>1, <2>2, WriteEntitled, CacheEntitled, AdminCheckEntitled
    <2>3. CASE Show(r, "end") \/ Show(r, "hgetall")
      <3>1. PICK posted : posted = {slot[r].by}
        OBVIOUS
      <3>2. PICK pc \in {"end", "hgetall"} : Show(r, pc)
        BY <2>3
      <3> QED
        BY <1>1, <3>1, <3>2, MoveEntitled DEF Show, Pc
    <2>4. CASE ~Answer(r) /\ (GroupRow(r) \/ MemberCheck(r))
      BY <1>1, <2>4, MoveEntitled DEF GroupRow, MemberCheck, Pc
    <2>5. CASE HdelUnread(r)
      <3>1. PICK pc \in {"fallback", "resolve"} :
               pc = IF slot[r].op = "read" THEN "fallback" ELSE "resolve"
        OBVIOUS
      <3>2. slot' = [slot EXCEPT ![r].pc = pc] /\ UNCHANGED pgVars
        BY <2>5, <3>1 DEF HdelUnread
      <3> QED
        BY <1>1, <3>2, MoveEntitled DEF Pc
    <2>6. CASE Resolve(r) \/ Fallback(r)
      <3>1. CASE slot' = [slot EXCEPT ![r].pc = "fallback"] /\ UNCHANGED pgVars
        BY <1>1, <3>1, MoveEntitled DEF Pc
      <3>2. CASE ~(slot' = [slot EXCEPT ![r].pc = "fallback"])
        <4>1. UNCHANGED pgVars
          BY <2>6 DEF Resolve, Fallback
        <4>2. PICK s : s = slot[r]
          OBVIOUS
        <4>3. s \in Handler /\ cached \subseteq User /\ Members \subseteq User
          BY <1>1, <4>2 DEF GroupsInv, Types, Members
        <4>4. PICK found \in SUBSET User : RunOn(r, [s EXCEPT !.todo = found \ {s.by}])
          BY <2>6, <3>2, <4>2, <4>3 DEF Resolve, Fallback
        <4>5. [s EXCEPT !.todo = found \ {s.by}] \in Handler
          BY <4>3 DEF Handler
        <4> QED
          BY <1>1, <4>1, <4>4, <4>5, RunOnEntitled
      <3> QED
        BY <2>6, <3>1, <3>2 DEF Resolve, Fallback
    <2>7. CASE Pushed(r)
      <3>1. PICK s : s = slot[r]
        OBVIOUS
      <3>2. PICK p : p = IF redis THEN s.pushed \cup {s.who} ELSE s.pushed
        OBVIOUS
      <3>3. s \in Handler /\ s.who \in User
        BY <1>1, <3>1 DEF Handler
      <3>4. RunOn(r, [s EXCEPT !.todo = @ \ {s.who}, !.pushed = p]) /\ UNCHANGED pgVars
        BY <2>7, <3>1, <3>2 DEF Pushed
      <3>5. [s EXCEPT !.todo = @ \ {s.who}, !.pushed = p] \in Handler
        BY <3>2, <3>3 DEF Handler
      <3> QED
        BY <1>1, <3>4, <3>5, RunOnEntitled
    <2> QED
      BY <1>3, <2>1, <2>2, <2>3, <2>4, <2>5, <2>6, <2>7
      DEF Step, GroupRow, GroupMembers, ConversationRows, HgetallUnread, PgThrows,
          MemberCheck, Return
  <1>4. CASE Restart
    <2>1. \A r \in Req : Entitled(slot'[r])
      BY <1>4 DEF Restart, Entitled, Idle
    <2> QED
      BY <1>4, <2>1 DEF Restart, AdminOnly, Entitled, pgVars
  <1>5. CASE UNCHANGED <<pgVars, slot>>
    BY <1>5 DEF AdminOnly, pgVars
  <1>6. ASSUME NEW u \in User, HincrbyUnread(u) \/ Connect(u) \/ Disconnect(u)
        PROVE  UNCHANGED <<pgVars, slot>>
    BY <1>6 DEF HincrbyUnread, Connect, Disconnect
  <1>7. RedisFail => UNCHANGED <<pgVars, slot>>
    BY DEF RedisFail
  <1> QED
    BY <1>2, <1>3, <1>4, <1>5, <1>6, <1>7 DEF Next, vars

\* Only the creator, who alone is ever an admin, changes the name or the membership
\* of another user, although the role is read in one await and the row written in a
\* later one (add_member, remove_member and update_group of GroupsHandler).
THEOREM RolesKept == Spec => []AdminOnly
  <1>1. Init => AdminOnly
    BY DEF Init, AdminOnly, Idle
  <1>2. GroupsInv /\ AdminOnly /\ [Next]_vars => AdminOnly'
    BY AdminStep
  <1> QED
    BY <1>1, <1>2, GroupsInvariant, PTL DEF Spec
=============================================================================
