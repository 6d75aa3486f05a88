------------------------------ MODULE RateLimit ------------------------------
(***************************************************************************)
(* The token buckets: TokenBucket::consume() of a TCP session (the bucket  *)
(* is full when the session is constructed) and RateLimiter::allow(key)    *)
(* (the keys in Lazy: the first request creates the bucket and is          *)
(* granted).                                                               *)
(*                                                                         *)
(* Time is counted in the ticks in which a bucket gains one unit; a        *)
(* request costs Cost units, so a tick is 1 / (refill_rate * Cost) seconds *)
(* and fractions of a token exist as in the code's doubles.                *)
(***************************************************************************)
EXTENDS Integers, Sequences

CONSTANTS Key,          \* sessions, or keys of the RateLimiter
          Capacity,     \* max_tokens, in units
          Cost,         \* units of one token
          Lazy,         \* the keys whose bucket the first request creates
          MaxTime,      \* bound: ticks
          MaxGrants     \* bound: requests granted per key

ASSUME RateAssumption ==
    /\ Capacity \in Nat /\ Cost \in Nat \ {0} /\ Cost <= Capacity
    /\ Lazy \subseteq Key
    /\ MaxTime \in Nat /\ MaxGrants \in Nat

VARIABLES now,          \* steady_clock
          tokens,       \* tokens[k], in units
          last_refill,  \* last_refill[k]
          known,        \* known[k]: the bucket exists
          spent,        \* history: units granted to k so far
          grants        \* history: grants[k] = sequence of [at, before]: when, and
                        \* what k had spent before

vars == <<now, tokens, last_refill, known, spent, grants>>

Init ==
    /\ now = 0
    /\ tokens = [k \in Key |-> IF k \in Lazy THEN 0 ELSE Capacity]
    /\ last_refill = [k \in Key |-> 0]
    /\ known = [k \in Key |-> k \notin Lazy]
    /\ spent = [k \in Key |-> 0]
    /\ grants = [k \in Key |-> <<>>]

Tick ==
    /\ now < MaxTime
    /\ now' = now + 1
    /\ UNCHANGED <<tokens, last_refill, known, spent, grants>>

\* What the bucket holds when it is looked at now.
Refilled(k) ==
    LET t == tokens[k] + (now - last_refill[k])
    IN IF t > Capacity THEN Capacity ELSE t

Grant(k, left) ==
    /\ Len(grants[k]) < MaxGrants
    /\ tokens' = [tokens EXCEPT ![k] = left - Cost]
    /\ spent' = [spent EXCEPT ![k] = @ + Cost]
    /\ grants' = [grants EXCEPT ![k] = Append(@, [at |-> now, before |-> spent[k]])]

\* Mutant: the first request is not charged.
FirstFree(k) ==
    /\ ~known[k]
    /\ Grant(k, Capacity + Cost)
    /\ known' = [known EXCEPT ![k] = TRUE]
    /\ last_refill' = [last_refill EXCEPT ![k] = now]
    /\ UNCHANGED now

\* The first request of a key the RateLimiter does not know.
First(k) ==
    /\ ~known[k]
    /\ Grant(k, Capacity)
    /\ known' = [known EXCEPT ![k] = TRUE]
    /\ last_refill' = [last_refill EXCEPT ![k] = now]
    /\ UNCHANGED now

Allow(k) ==
    /\ known[k] /\ Refilled(k) >= Cost
    /\ Grant(k, Refilled(k))
    /\ last_refill' = [last_refill EXCEPT ![k] = now]
    /\ UNCHANGED <<now, known>>

\* Mutant: a refusal throws away the fraction of a token.
RefuseEmpties(k) ==
    /\ known[k] /\ Refilled(k) < Cost
    /\ tokens' = [tokens EXCEPT ![k] = 0]
    /\ last_refill' = [last_refill EXCEPT ![k] = now]
    /\ UNCHANGED <<now, known, spent, grants>>

Refuse(k) ==
    /\ known[k] /\ Refilled(k) < Cost
    /\ tokens' = [tokens EXCEPT ![k] = Refilled(k)]
    /\ last_refill' = [last_refill EXCEPT ![k] = now]
    /\ UNCHANGED <<now, known, spent, grants>>

Next == Tick \/ \E k \in Key : First(k) \/ Allow(k) \/ Refuse(k)

Spec == Init /\ [][Next]_vars

-----------------------------------------------------------------------------
GrantRecord == [at : Nat, before : Nat]

\* The types of the state.
TypeOK ==
    /\ now \in Nat
    /\ tokens \in [Key -> 0 .. Capacity]
    /\ last_refill \in [Key -> Nat]
    /\ known \in [Key -> BOOLEAN]
    /\ spent \in [Key -> Nat]
    /\ grants \in [Key -> Seq(GrantRecord)]

\* "5 messages/second, burst of 20": between any two grants of a key, both
\* included, no more was granted than a full bucket and the refill of the time
\* between them, in whatever rhythm requests were made and refused.
WindowBound ==
    \A k \in Key : \A i, j \in 1 .. Len(grants[k]) :
        i <= j => grants[k][j].before + Cost - grants[k][i].before
                     <= Capacity + (grants[k][j].at - grants[k][i].at)

\* "excess returns ERROR frame", and nothing but excess does: a request that
\* would be refused now would exceed a full bucket and the refill of the window
\* since some earlier grant.  Refusals themselves cost nothing.
OnlyExcessRefused ==
    \A k \in Key : known[k] /\ Refilled(k) < Cost =>
        \E i \in 1 .. Len(grants[k]) :
            spent[k] + Cost - grants[k][i].before > Capacity + (now - grants[k][i].at)
=============================================================================
