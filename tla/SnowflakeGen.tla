----------------------------- MODULE SnowflakeGen -----------------------------
(***************************************************************************)
(* SnowflakeGen::next(): message, user and group ids.  The mutex is held   *)
(* for the whole call, so calls do not overlap; the clock moves between    *)
(* them and during the spin.  An id is the pair <<milliseconds, sequence>>:*)
(* the shifts of the code put the two (and the constant machine id) in     *)
(* bit fields of their own, so pairs compare like the numbers as long as   *)
(* the sequence stays within its field.                                    *)
(***************************************************************************)
EXTENDS Integers, Sequences

CONSTANTS MaxSeq,       \* 0xFFF in the code
          ClockSteps,   \* by how much system_clock may change at once
          MaxClock,     \* bound: largest reading of the clock
          MaxIds        \* bound: ids drawn in a behaviour

ASSUME SnowflakeAssumption ==
    /\ MaxSeq \in Nat
    /\ ClockSteps \subseteq Int
    /\ MaxClock \in Nat /\ MaxIds \in Nat

VARIABLES clock,        \* system_clock, in ms since EPOCH_MS
          last_ms,      \* last_ms_
          sequence,     \* sequence_
          spinning,     \* a call is in the spin loop, holding the mutex
          issued,       \* the ids returned so far
          overflowed    \* history: a call has gone through the spin loop

genVars == <<clock, last_ms, sequence, spinning, issued, overflowed>>

GenInit ==
    /\ clock = 1
    /\ last_ms = 0
    /\ sequence = 0
    /\ spinning = FALSE
    /\ issued = <<>>
    /\ overflowed = FALSE

Tick ==
    /\ \E d \in ClockSteps : clock' = clock + d
    /\ clock' \in 0 .. MaxClock
    /\ UNCHANGED <<last_ms, sequence, spinning, issued, overflowed>>

\* Mutant: last_ms_ is never brought up to date.
NextFreshForgets ==
    /\ ~spinning /\ clock # last_ms /\ Len(issued) < MaxIds
    /\ sequence' = 0
    /\ issued' = Append(issued, <<clock, 0>>)
    /\ UNCHANGED <<clock, last_ms, spinning, overflowed>>

\* A call in a millisecond other than the last one's.
NextFresh ==
    /\ ~spinning /\ clock # last_ms /\ Len(issued) < MaxIds
    /\ sequence' = 0
    /\ last_ms' = clock
    /\ issued' = Append(issued, <<clock, 0>>)
    /\ UNCHANGED <<clock, spinning, overflowed>>

\* A call in the same millisecond, with room in the sequence.
NextInSequence ==
    /\ ~spinning /\ clock = last_ms /\ Len(issued) < MaxIds
    /\ sequence + 1 <= MaxSeq
    /\ sequence' = sequence + 1
    /\ issued' = Append(issued, <<clock, sequence + 1>>)
    /\ UNCHANGED <<clock, last_ms, spinning, overflowed>>

\* The sequence is exhausted: spin on the clock.
SpinStart ==
    /\ ~spinning /\ clock = last_ms /\ Len(issued) < MaxIds
    /\ sequence + 1 > MaxSeq
    /\ spinning' = TRUE
    /\ overflowed' = TRUE
    /\ UNCHANGED <<clock, last_ms, sequence, issued>>

\* Mutant: the sequence restarts without waiting for the clock.
SpinSkipped ==
    /\ spinning
    /\ spinning' = FALSE
    /\ sequence' = 0
    /\ issued' = Append(issued, <<clock, 0>>)
    /\ UNCHANGED <<clock, last_ms, overflowed>>

\* The clock has moved: restart the sequence.  last_ms_ is not assigned here.
SpinEnd ==
    /\ spinning /\ clock # last_ms
    /\ spinning' = FALSE
    /\ sequence' = 0
    /\ issued' = Append(issued, <<clock, 0>>)
    /\ UNCHANGED <<clock, last_ms, overflowed>>

GenNext == Tick \/ NextFresh \/ NextInSequence \/ SpinStart \/ SpinEnd

GenSpec == GenInit /\ [][GenNext]_genVars

-----------------------------------------------------------------------------
Less(a, b) == a[1] < b[1] \/ (a[1] = b[1] /\ a[2] < b[2])
LessEq(a, b) == a = b \/ Less(a, b)

\* The types of the state; the sequence always fits its field.
GenTypeOK ==
    /\ clock \in Nat /\ last_ms \in Nat
    /\ sequence \in 0 .. MaxSeq
    /\ spinning \in BOOLEAN /\ overflowed \in BOOLEAN
    /\ issued \in Seq(Nat \X (0 .. MaxSeq))

\* Under a clock that does not go back, ids never decrease...
NonDecreasing ==
    \A i, j \in 1 .. Len(issued) : i < j => LessEq(issued[i], issued[j])

\* ...and increase strictly as long as no millisecond has used up its sequence.
IncreasingUntilOverflow ==
    ~overflowed => \A i, j \in 1 .. Len(issued) : i < j => Less(issued[i], issued[j])

\* Even after an overflow the damage is bounded: no id is returned three times.
AtMostTwice ==
    \A i, j, k \in 1 .. Len(issued) :
        i < j /\ j < k => ~(issued[i] = issued[j] /\ issued[j] = issued[k])

\* "Returns the next unique ID."  Violated after an overflow.
Unique == \A i, j \in 1 .. Len(issued) : i # j => issued[i] # issued[j]
=============================================================================
