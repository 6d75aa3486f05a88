-------------------------------- MODULE PgPool --------------------------------
(***************************************************************************)
(* PgPool: the blocking pool of PostgreSQL connections.  Threads call      *)
(* execute(); the mutex makes acquire() and release() atomic, everything   *)
(* in between runs without a lock on the slot the thread holds.            *)
(*                                                                         *)
(* A slot's connection is "open" (works), "dead" (is_open() says TRUE but  *)
(* the server has dropped it, so the next use throws broken_connection) or *)
(* "closed".  Ages and idle times are abstracted to a choice: ensure may   *)
(* find a slot due for recycling or for a probe at any checkout.           *)
(***************************************************************************)
EXTENDS Integers, Sequences, FiniteSets

CONSTANTS Thread,   \* threads that call execute()
          Slot,     \* indices of connections_
          NoSlot    \* no index

ASSUME PoolAssumption == IsFiniteSet(Slot) /\ IsFiniteSet(Thread) /\ NoSlot \notin Slot

RetryClass == {"ReadOnly", "RetrySafeWrite", "NonRetryableWrite"}

VARIABLES
    pc,         \* where the thread is in execute()
    cls,        \* retry_class of its call
    index,      \* index[t]: the slot it holds, or NoSlot
    outcome,    \* "none", "ok" or "thrown"
    effects,    \* history: how often the call's transaction was committed
    free_list,  \* free_list_
    conn,       \* state of each slot's connection
    db          \* PostgreSQL accepts connections

vars == <<pc, cls, index, outcome, effects, free_list, conn, db>>

\* The free list after the constructor: every slot once, in some order.
Orders(S) ==
    {f \in [1 .. Cardinality(S) -> S] :
        \A s \in S : \E i \in DOMAIN f : \A j \in DOMAIN f : f[j] = s <=> j = i}

Init ==
    /\ pc = [t \in Thread |-> "idle"]
    /\ cls = [t \in Thread |-> "ReadOnly"]
    /\ index = [t \in Thread |-> NoSlot]
    /\ outcome = [t \in Thread |-> "none"]
    /\ effects = [t \in Thread |-> 0]
    /\ free_list \in Orders(Slot)
    /\ conn = [s \in Slot |-> "open"]
    /\ db = TRUE

Goto(t, from, to) == pc[t] = from /\ pc' = [pc EXCEPT ![t] = to]

\* execute(): a new call, of any class.
Call(t, c) ==
    /\ Goto(t, "idle", "acquire")
    /\ cls' = [cls EXCEPT ![t] = c]
    /\ outcome' = [outcome EXCEPT ![t] = "none"]
    /\ effects' = [effects EXCEPT ![t] = 0]
    /\ UNCHANGED <<index, free_list, conn, db>>

\* acquire(): wait until the free list is not empty, take its last index.
Acquire(t) ==
    /\ free_list # <<>>
    /\ Goto(t, "acquire", "ensure")
    /\ index' = [index EXCEPT ![t] = free_list[Len(free_list)]]
    /\ free_list' = SubSeq(free_list, 1, Len(free_list) - 1)
    /\ UNCHANGED <<cls, outcome, effects, conn, db>>

\* release(): on every way out of execute().
Release(t) ==
    /\ Goto(t, "release", "idle")
    /\ free_list' = Append(free_list, index[t])
    /\ index' = [index EXCEPT ![t] = NoSlot]
    /\ UNCHANGED <<cls, outcome, effects, conn, db>>

-----------------------------------------------------------------------------
Leave(t, o) == outcome' = [outcome EXCEPT ![t] = o]

\* ensure_connection(): open, not too old, and not idle for long or probed well.
EnsureKeeps(t) ==
    /\ Goto(t, "ensure", "func")
    /\ conn[index[t]] \in {"open", "dead"}
    /\ UNCHANGED <<cls, index, outcome, effects, free_list, conn, db>>

\* recreate_connection(): the new connection replaces the old one only if it
\* can be established.
Recreate(t, from, to, failed) ==
    \/ /\ db
       /\ Goto(t, from, to)
       /\ conn' = [conn EXCEPT ![index[t]] = "open"]
       /\ UNCHANGED outcome
    \/ /\ ~db
       /\ Goto(t, from, failed)
       /\ outcome' = [outcome EXCEPT ![t] = IF failed = "release" THEN "thrown" ELSE @]
       /\ UNCHANGED conn

\* ensure_connection(): not open, too old, or the probe finds it dead.  Its own
\* broken_connection is caught like one of func.
EnsureRecreates(t) ==
    /\ Recreate(t, "ensure", "func", "broken")
    /\ UNCHANGED <<cls, index, effects, free_list, db>>

\* What func can do with the connection: commit and return; break, before the
\* commit or with the commit in doubt; throw something else.
FuncReturns(t, at) ==
    /\ Goto(t, at, "release")
    /\ conn[index[t]] = "open"
    /\ Leave(t, "ok")
    /\ effects' = [effects EXCEPT ![t] = @ + 1]
    /\ UNCHANGED conn

FuncBreaks(t, at, to) ==
    /\ Goto(t, at, to)
    /\ conn' = [conn EXCEPT ![index[t]] = "closed"]
    /\ outcome' = [outcome EXCEPT ![t] = IF to = "release" THEN "thrown" ELSE @]
    /\ \/ UNCHANGED effects
       \/ conn[index[t]] = "open" /\ effects' = [effects EXCEPT ![t] = @ + 1]

FuncThrows(t, at) ==
    /\ Goto(t, at, "release")
    /\ conn[index[t]] = "open"
    /\ Leave(t, "thrown")
    /\ UNCHANGED <<effects, conn>>

Func(t) ==
    /\ FuncReturns(t, "func") \/ FuncBreaks(t, "func", "broken") \/ FuncThrows(t, "func")
    /\ UNCHANGED <<cls, index, free_list, db>>

\* Mutant: every class is retried.
AlwaysRetry(c) == c \in RetryClass

ShouldRetryOnce(c) == c # "NonRetryableWrite"

\* Mutant: the rethrow forgets the release.
GiveUpLeaks(t) ==
    /\ ~ShouldRetryOnce(cls[t])
    /\ Goto(t, "broken", "idle")
    /\ Leave(t, "thrown")
    /\ index' = [index EXCEPT ![t] = NoSlot]
    /\ UNCHANGED <<cls, effects, free_list, conn, db>>

\* The handler of broken_connection.
GiveUp(t) ==
    /\ ~ShouldRetryOnce(cls[t])
    /\ Goto(t, "broken", "release")
    /\ Leave(t, "thrown")
    /\ UNCHANGED <<cls, index, effects, free_list, conn, db>>

Retry(t) ==
    /\ ShouldRetryOnce(cls[t])
    /\ Recreate(t, "broken", "again", "release")
    /\ UNCHANGED <<cls, index, effects, free_list, db>>

FuncAgain(t) ==
    /\ FuncReturns(t, "again") \/ FuncBreaks(t, "again", "release") \/ FuncThrows(t, "again")
    /\ UNCHANGED <<cls, index, free_list, db>>

\* PostgreSQL restarts: every connection it had is dead.
DbDown ==
    /\ db
    /\ db' = FALSE
    /\ conn' = [s \in Slot |-> IF conn[s] = "open" THEN "dead" ELSE conn[s]]
    /\ UNCHANGED <<pc, cls, index, outcome, effects, free_list>>

DbUp ==
    /\ ~db
    /\ db' = TRUE
    /\ UNCHANGED <<pc, cls, index, outcome, effects, free_list, conn>>

Step(t) ==
    \/ Acquire(t) \/ EnsureKeeps(t) \/ EnsureRecreates(t) \/ Func(t)
    \/ GiveUp(t) \/ Retry(t) \/ FuncAgain(t) \/ Release(t)

Next ==
    \/ \E t \in Thread : Step(t) \/ \E c \in RetryClass : Call(t, c)
    \/ DbDown \/ DbUp

Safety == Init /\ [][Next]_vars

\* Threads are scheduled, and func and the connection attempt return or throw.
Spec == Safety /\ \A t \in Thread : WF_vars(Step(t))

-----------------------------------------------------------------------------
Inside == {"ensure", "func", "broken", "again", "release"}

\* The types of the state; a thread holds a slot exactly between acquire() and
\* release().
TypeOK ==
    /\ pc \in [Thread -> Inside \cup {"idle", "acquire"}]
    /\ cls \in [Thread -> RetryClass]
    /\ index \in [Thread -> Slot \cup {NoSlot}]
    /\ \A t \in Thread : index[t] # NoSlot <=> pc[t] \in Inside
    /\ outcome \in [Thread -> {"none", "ok", "thrown"}]
    /\ effects \in [Thread -> 0 .. 2]
    /\ free_list \in Seq(Slot)
    /\ conn \in [Slot -> {"open", "dead", "closed"}]
    /\ db \in BOOLEAN

\* Two threads never use one connection, and none uses a connection that is in
\* the free list, in which none appears twice: a release on every path, and
\* never two.
Exclusive ==
    /\ \A t, u \in Thread : t # u /\ index[t] # NoSlot => index[t] # index[u]
    /\ \A t \in Thread, i \in 1 .. Len(free_list) : index[t] # free_list[i]
    /\ \A i, j \in 1 .. Len(free_list) : free_list[i] = free_list[j] => i = j

\* No slot leaks: every connection is in the free list or held by a call that
\* is still running, whatever was thrown.
NoSlotLost ==
    \A s \in Slot :
        \/ \E i \in 1 .. Len(free_list) : free_list[i] = s
        \/ \E t \in Thread : index[t] = s

\* A NonRetryableWrite is committed at most once, also when the connection
\* breaks with the commit in doubt, and a call that returns has committed at
\* least once.
CommitBound ==
    \A t \in Thread :
        /\ cls[t] = "NonRetryableWrite" => effects[t] <= 1
        /\ outcome[t] = "ok" => effects[t] >= 1

\* "Pool size == thread_count so acquire() never blocks in practice."
NeverBlocks == \A t \in Thread : pc[t] = "acquire" => free_list # <<>>

\* Every call of execute() ends, with PostgreSQL down as well.
CallsEnd == \A t \in Thread : pc[t] # "idle" ~> pc[t] = "idle"
=============================================================================
