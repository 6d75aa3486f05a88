---------------------------- MODULE ResourceProofs ----------------------------
(***************************************************************************)
(* Theorems about the two resources that the whole server shares.          *)
(*                                                                         *)
(* SnowflakeGen, for every sequence limit and any number of ids, as long   *)
(* as the clock never goes back (ClockSteps \subseteq Nat).                *)
(*                                                                         *)
(* PgPool, for any number of threads and connections.                      *)
(***************************************************************************)
EXTENDS SnowflakeGen, PgPool, SequenceTheorems, FiniteSetTheorems, TLAPS

-----------------------------------------------------------------------------
(***************************************************************************)
(* The id generator.                                                       *)
(***************************************************************************)

\* What was issued, seen from the generator's state.  After a spin the ids of
\* the new millisecond lie above last_ms_, which the code leaves behind; each
\* of them has sequence 0, and none is issued while a call spins.
IssuedBound ==
    \A i \in 1 .. Len(issued) :
        /\ issued[i][1] <= clock
        /\ issued[i][1] > last_ms => issued[i][2] = 0
        /\ clock = last_ms /\ issued[i][1] = last_ms => issued[i][2] <= sequence
        /\ spinning \/ ~overflowed => issued[i][1] <= last_ms

\* A repeated id belongs to a millisecond last_ms_ has caught up with.
RepeatsSettled ==
    \A i, j \in 1 .. Len(issued) :
        i < j /\ issued[i] = issued[j] => issued[j][1] <= last_ms

\* The inductive invariant.
GenInv ==
    /\ GenTypeOK
    /\ last_ms <= clock
    /\ spinning => overflowed
    /\ IssuedBound
    /\ NonDecreasing
    /\ IncreasingUntilOverflow
    /\ RepeatsSettled
    /\ AtMostTwice

-----------------------------------------------------------------------------
\* What holds of a new id x that is above everything issued holds of the list
\* with x at its end.
LEMMA AppendIssued ==
    ASSUME GenTypeOK, NEW x \in Nat \X (0 .. MaxSeq), issued' = Append(issued, x)
    PROVE  /\ issued' \in Seq(Nat \X (0 .. MaxSeq))
           /\ Len(issued) \in Nat
           /\ Len(issued') = Len(issued) + 1
           /\ \A i \in 1 .. Len(issued) : issued'[i] = issued[i]
           /\ issued'[Len(issued) + 1] = x
           /\ \A i \in 1 .. Len(issued') : i \in 1 .. Len(issued) \/ i = Len(issued) + 1
  <1>1. issued \in Seq(Nat \X (0 .. MaxSeq))
    BY DEF GenTypeOK
  <1> QED
    BY <1>1, AppendProperties, LenProperties

\* Appending an id that is at least every issued one keeps the order.
LEMMA AppendOrder ==
    ASSUME GenTypeOK, NEW x \in Nat \X (0 .. MaxSeq), issued' = Append(issued, x),
           NonDecreasing,
           \A i \in 1 .. Len(issued) : LessEq(issued[i], x)
    PROVE  NonDecreasing'
  BY AppendIssued DEF NonDecreasing

\* Appending an id above every issued one keeps the order strict.
LEMMA AppendStrict ==
    ASSUME GenTypeOK, NEW x \in Nat \X (0 .. MaxSeq), issued' = Append(issued, x),
           \A i, j \in 1 .. Len(issued) : i < j => Less(issued[i], issued[j]),
           \A i \in 1 .. Len(issued) : Less(issued[i], x)
    PROVE  \A i, j \in 1 .. Len(issued') : i < j => Less(issued'[i], issued'[j])
  BY AppendIssued

\* Appending an id that no two issued ones equal keeps the multiplicity.
LEMMA AppendTwice ==
    ASSUME GenTypeOK, NEW x \in Nat \X (0 .. MaxSeq), issued' = Append(issued, x),
           AtMostTwice,
           \A i, j \in 1 .. Len(issued) :
               i < j /\ issued[i] = issued[j] => issued[j] # x
    PROVE  AtMostTwice'
  BY AppendIssued DEF AtMostTwice

-----------------------------------------------------------------------------
\* The clock moves forward and nothing else changes.
LEMMA TickInv ==
    ASSUME ClockSteps \subseteq Nat, GenInv, Tick
    PROVE  GenInv'
  <1>1. /\ clock' \in Nat /\ clock <= clock'
        /\ UNCHANGED <<last_ms, sequence, spinning, issued, overflowed>>
    BY SnowflakeAssumption DEF GenInv, GenTypeOK, Tick
  <1>2. clock' = last_ms => clock = last_ms
    BY <1>1 DEF GenInv, GenTypeOK
  <1>3. IssuedBound'
    <2>1. \A i \in 1 .. Len(issued) : issued[i][1] \in Nat
      BY ElementOfSeq DEF GenInv, GenTypeOK
    <2> QED
      BY <1>1, <1>2, <2>1 DEF GenInv, GenTypeOK, IssuedBound
  <1>4. GenTypeOK' /\ (last_ms <= clock)' /\ (spinning => overflowed)'
    BY <1>1 DEF GenInv, GenTypeOK
  <1>5. NonDecreasing' /\ IncreasingUntilOverflow' /\ RepeatsSettled' /\ AtMostTwice'
    BY <1>1 DEF GenInv, NonDecreasing, IncreasingUntilOverflow, RepeatsSettled, AtMostTwice
  <1> QED
    BY <1>3, <1>4, <1>5 DEF GenInv

\* The ids are pairs of numbers.
LEMMA IdTypes ==
    ASSUME GenTypeOK, NEW i \in 1 .. Len(issued)
    PROVE  /\ issued[i] \in Nat \X (0 .. MaxSeq)
           /\ issued[i] = <<issued[i][1], issued[i][2]>>
           /\ issued[i][1] \in Nat /\ issued[i][2] \in Nat
  <1>1. issued[i] \in Nat \X (0 .. MaxSeq)
    BY ElementOfSeq DEF GenTypeOK
  <1> QED
    BY <1>1

\* A call in a new millisecond: everything issued is below <<clock, 0>>, except
\* perhaps the id of a spin that ended in this millisecond, which it repeats.
LEMMA NextFreshInv ==
    ASSUME GenInv, NextFresh
    PROVE  GenInv'
  <1> DEFINE x == <<clock, 0>>
  <1>0. GenTypeOK /\ x \in Nat \X (0 .. MaxSeq) /\ last_ms < clock
    BY SnowflakeAssumption DEF GenInv, GenTypeOK, NextFresh
  <1>1. /\ issued' = Append(issued, x) /\ last_ms' = clock /\ sequence' = 0
        /\ UNCHANGED <<clock, spinning, overflowed>> /\ ~spinning
    BY DEF NextFresh
  <1>2. /\ issued' \in Seq(Nat \X (0 .. MaxSeq))
        /\ Len(issued) \in Nat /\ Len(issued') = Len(issued) + 1
        /\ \A i \in 1 .. Len(issued) : issued'[i] = issued[i]
        /\ issued'[Len(issued) + 1] = x
        /\ \A i \in 1 .. Len(issued') : i \in 1 .. Len(issued) \/ i = Len(issued) + 1
    BY <1>0, <1>1, AppendIssued
  <1>3. \A i \in 1 .. Len(issued) :
            /\ LessEq(issued[i], x)
            /\ ~overflowed => Less(issued[i], x)
            /\ issued[i][1] <= clock
            /\ issued[i][1] = clock => issued[i][2] = 0
            /\ issued[i][1] <= last_ms => issued[i] # x
    <2> SUFFICES ASSUME NEW i \in 1 .. Len(issued)
                 PROVE  /\ LessEq(issued[i], x)
                        /\ ~overflowed => Less(issued[i], x)
                        /\ issued[i][1] <= clock
                        /\ issued[i][1] = clock => issued[i][2] = 0
                        /\ issued[i][1] <= last_ms => issued[i] # x
      OBVIOUS
    <2>1. /\ issued[i] = <<issued[i][1], issued[i][2]>>
          /\ issued[i][1] \in Nat /\ issued[i][2] \in Nat
      BY <1>0, IdTypes
    <2>2. /\ issued[i][1] <= clock
          /\ issued[i][1] > last_ms => issued[i][2] = 0
          /\ ~overflowed => issued[i][1] <= last_ms
      BY DEF GenInv, IssuedBound
    <2>3. clock \in Nat /\ last_ms \in Nat
      BY <1>0 DEF GenTypeOK
    <2>4. CASE issued[i][1] = clock
      BY <1>0, <2>1, <2>2, <2>3, <2>4 DEF LessEq, Less
    <2>5. CASE issued[i][1] < clock
      BY <1>0, <2>1, <2>2, <2>3, <2>5 DEF LessEq, Less
    <2> QED
      BY <2>1, <2>2, <2>3, <2>4, <2>5
  <1>4. GenTypeOK' /\ (last_ms <= clock)' /\ (spinning => overflowed)'
    BY <1>0, <1>1, <1>2, SnowflakeAssumption DEF GenInv, GenTypeOK
  <1>5. IssuedBound'
    BY <1>0, <1>1, <1>2, <1>3, IdTypes DEF IssuedBound
  <1>6. NonDecreasing'
    BY <1>0, <1>1, <1>3, AppendOrder DEF GenInv
  <1>7. IncreasingUntilOverflow'
    BY <1>0, <1>1, <1>3, AppendStrict DEF GenInv, IncreasingUntilOverflow
  <1>8. RepeatsSettled'
    <2> SUFFICES ASSUME NEW i \in 1 .. Len(issued'), NEW j \in 1 .. Len(issued'),
                        i < j, issued'[i] = issued'[j]
                 PROVE  issued'[j][1] <= last_ms'
      BY DEF RepeatsSettled
    <2>1. CASE j = Len(issued) + 1
      BY <1>0, <1>1, <1>2, <2>1
    <2>2. CASE j \in 1 .. Len(issued)
      <3>1. issued'[j] = issued[j] /\ issued[j][1] <= clock
        BY <1>2, <1>3, <2>2
      <3> QED
        BY <1>1, <3>1
    <2> QED
      BY <1>2, <2>1, <2>2
  <1>9. AtMostTwice'
    BY <1>0, <1>1, <1>3, AppendTwice DEF GenInv, RepeatsSettled
  <1> QED
    BY <1>4, <1>5, <1>6, <1>7, <1>8, <1>9 DEF GenInv

\* A call in the same millisecond: the new id is above everything issued.
LEMMA NextInSequenceInv ==
    ASSUME GenInv, NextInSequence
    PROVE  GenInv'
  <1> DEFINE x == <<clock, sequence + 1>>
  <1>0. GenTypeOK /\ x \in Nat \X (0 .. MaxSeq) /\ last_ms = clock /\ sequence + 1 \in 0 .. MaxSeq
    BY SnowflakeAssumption DEF GenInv, GenTypeOK, NextInSequence
  <1>1. /\ issued' = Append(issued, x) /\ sequence' = sequence + 1
        /\ UNCHANGED <<clock, last_ms, spinning, overflowed>>
    BY DEF NextInSequence
  <1>2. /\ issued' \in Seq(Nat \X (0 .. MaxSeq))
        /\ Len(issued) \in Nat /\ Len(issued') = Len(issued) + 1
        /\ \A i \in 1 .. Len(issued) : issued'[i] = issued[i]
        /\ issued'[Len(issued) + 1] = x
        /\ \A i \in 1 .. Len(issued') : i \in 1 .. Len(issued) \/ i = Len(issued) + 1
    BY <1>0, <1>1, AppendIssued
  <1>3. \A i \in 1 .. Len(issued) :
            /\ LessEq(issued[i], x)
            /\ Less(issued[i], x)
            /\ issued[i][1] <= clock
            /\ issued[i][1] = clock => issued[i][2] <= sequence
            /\ issued[i] # x
    BY <1>0, IdTypes DEF GenInv, GenTypeOK, IssuedBound, LessEq, Less
  <1>4. GenTypeOK' /\ (last_ms <= clock)' /\ (spinning => overflowed)'
    BY <1>0, <1>1, <1>2, SnowflakeAssumption DEF GenInv, GenTypeOK
  <1>5. IssuedBound'
    <2>1. clock \in Nat /\ last_ms = clock /\ sequence \in Nat
      BY <1>0 DEF GenTypeOK
    <2>2. ASSUME NEW i \in 1 .. Len(issued')
          PROVE  issued'[i][1] <= clock /\ (issued'[i][1] = clock => issued'[i][2] <= sequence + 1)
      <3>1. CASE i = Len(issued) + 1
        BY <1>2, <2>1, <3>1
      <3>2. CASE i \in 1 .. Len(issued)
        <4>1. issued'[i] = issued[i] /\ issued[i][1] \in Nat /\ issued[i][2] \in Nat
          BY <1>0, <1>2, <3>2, IdTypes
        <4>2. issued[i][1] <= clock /\ (issued[i][1] = clock => issued[i][2] <= sequence)
          BY <1>3, <3>2
        <4> QED
          BY <2>1, <4>1, <4>2
      <3> QED
        BY <1>2, <2>2, <3>1, <3>2
    <2>3. \A i \in 1 .. Len(issued') : ~(issued'[i][1] > clock)
      <3> TAKE i \in 1 .. Len(issued')
      <3>1. issued'[i][1] \in Nat
        BY <1>0, <1>2, IdTypes
      <3> QED
        BY <2>1, <2>2, <3>1
    <2> QED
      BY <1>1, <2>1, <2>2, <2>3 DEF IssuedBound
  <1>6. NonDecreasing'
    BY <1>0, <1>1, <1>3, AppendOrder DEF GenInv
  <1>7. IncreasingUntilOverflow'
    BY <1>0, <1>1, <1>3, AppendStrict DEF GenInv, IncreasingUntilOverflow
  <1>8. RepeatsSettled'
    BY <1>0, <1>1, <1>2, <1>3, IdTypes DEF GenInv, RepeatsSettled
  <1>9. AtMostTwice'
    BY <1>0, <1>1, <1>3, AppendTwice DEF GenInv
  <1> QED
    BY <1>4, <1>5, <1>6, <1>7, <1>8, <1>9 DEF GenInv

\* The spin begins in the millisecond of last_ms_: nothing lies above it.
LEMMA SpinStartInv ==
    ASSUME GenInv, SpinStart
    PROVE  GenInv'
  <1>1. /\ clock = last_ms /\ spinning' = TRUE /\ overflowed' = TRUE
        /\ UNCHANGED <<clock, last_ms, sequence, issued>>
    BY DEF SpinStart
  <1>2. IssuedBound'
    BY <1>1 DEF GenInv, IssuedBound
  <1>3. GenTypeOK' /\ (last_ms <= clock)' /\ (spinning => overflowed)'
    BY <1>1 DEF GenInv, GenTypeOK
  <1>4. NonDecreasing' /\ IncreasingUntilOverflow' /\ RepeatsSettled' /\ AtMostTwice'
    BY <1>1 DEF GenInv, NonDecreasing, IncreasingUntilOverflow, RepeatsSettled, AtMostTwice
  <1> QED
    BY <1>2, <1>3, <1>4 DEF GenInv

\* The spin ends: everything issued is below <<clock, 0>>.
LEMMA SpinEndInv ==
    ASSUME GenInv, SpinEnd
    PROVE  GenInv'
  <1> DEFINE x == <<clock, 0>>
  <1>0. GenTypeOK /\ x \in Nat \X (0 .. MaxSeq) /\ last_ms < clock /\ spinning /\ overflowed
    BY SnowflakeAssumption DEF GenInv, GenTypeOK, SpinEnd
  <1>1. /\ issued' = Append(issued, x) /\ sequence' = 0 /\ spinning' = FALSE
        /\ UNCHANGED <<clock, last_ms, overflowed>>
    BY DEF SpinEnd
  <1>2. /\ issued' \in Seq(Nat \X (0 .. MaxSeq))
        /\ Len(issued) \in Nat /\ Len(issued') = Len(issued) + 1
        /\ \A i \in 1 .. Len(issued) : issued'[i] = issued[i]
        /\ issued'[Len(issued) + 1] = x
        /\ \A i \in 1 .. Len(issued') : i \in 1 .. Len(issued) \/ i = Len(issued) + 1
    BY <1>0, <1>1, AppendIssued
  <1>3. \A i \in 1 .. Len(issued) :
            /\ LessEq(issued[i], x)
            /\ issued[i][1] <= last_ms
            /\ issued[i] # x
    BY <1>0, IdTypes DEF GenInv, GenTypeOK, IssuedBound, LessEq, Less
  <1>4. GenTypeOK' /\ (last_ms <= clock)' /\ (spinning => overflowed)'
    BY <1>0, <1>1, <1>2, SnowflakeAssumption DEF GenInv, GenTypeOK
  <1>5. IssuedBound'
    BY <1>0, <1>1, <1>2, <1>3, IdTypes DEF GenTypeOK, IssuedBound
  <1>6. NonDecreasing'
    BY <1>0, <1>1, <1>3, AppendOrder DEF GenInv
  <1>7. IncreasingUntilOverflow'
    BY <1>0, <1>1 DEF IncreasingUntilOverflow
  <1>8. RepeatsSettled'
    BY <1>0, <1>1, <1>2, <1>3, IdTypes DEF GenInv, RepeatsSettled
  <1>9. AtMostTwice'
    BY <1>0, <1>1, <1>3, AppendTwice DEF GenInv
  <1> QED
    BY <1>4, <1>5, <1>6, <1>7, <1>8, <1>9 DEF GenInv

\* next() keeps the invariant whatever the sequence limit, if the clock never
\* goes back.
THEOREM GenInvariant ==
    ASSUME ClockSteps \subseteq Nat
    PROVE  GenSpec => []GenInv
  <1>1. GenInit => GenInv
    <2> SUFFICES ASSUME GenInit PROVE GenInv
      OBVIOUS
    <2>1. issued = <<>> /\ Len(issued) = 0 /\ issued \in Seq(Nat \X (0 .. MaxSeq))
      BY EmptySeq DEF GenInit
    <2>2. /\ clock \in Nat /\ last_ms \in Nat /\ sequence \in 0 .. MaxSeq
          /\ last_ms <= clock
      BY SnowflakeAssumption DEF GenInit
    <2>3. spinning \in BOOLEAN /\ overflowed \in BOOLEAN /\ (spinning => overflowed)
      BY DEF GenInit
    <2>4. IssuedBound /\ NonDecreasing /\ IncreasingUntilOverflow /\ RepeatsSettled /\ AtMostTwice
      BY <2>1 DEF IssuedBound, NonDecreasing, IncreasingUntilOverflow, RepeatsSettled, AtMostTwice
    <2> QED
      BY <2>1, <2>2, <2>3, <2>4 DEF GenInv, GenTypeOK
  <1>2. GenInv /\ [GenNext]_genVars => GenInv'
    <2> SUFFICES ASSUME GenInv, [GenNext]_genVars PROVE GenInv'
      OBVIOUS
    <2>1. CASE UNCHANGED genVars
      BY <2>1 DEF genVars, GenInv, GenTypeOK, IssuedBound, NonDecreasing, IncreasingUntilOverflow,
                  RepeatsSettled, AtMostTwice
    <2> QED
      BY <2>1, TickInv, NextFreshInv, NextInSequenceInv, SpinStartInv, SpinEndInv DEF GenNext
  <1> QED
    BY <1>1, <1>2, PTL DEF GenSpec

\* next() never returns an id below an earlier one, and while no millisecond has
\* used up its sequence it returns ever larger ids.
THEOREM IdsOrdered ==
    ASSUME ClockSteps \subseteq Nat
    PROVE  GenSpec => [](NonDecreasing /\ IncreasingUntilOverflow)
  <1>1. GenInv => NonDecreasing /\ IncreasingUntilOverflow
    BY DEF GenInv
  <1> QED
    BY <1>1, GenInvariant, PTL

\* However often the sequence overflows, next() returns no id three times.
THEOREM IdsAtMostTwice ==
    ASSUME ClockSteps \subseteq Nat
    PROVE  GenSpec => []AtMostTwice
  <1>1. GenInv => AtMostTwice
    BY DEF GenInv
  <1> QED
    BY <1>1, GenInvariant, PTL
-----------------------------------------------------------------------------
(***************************************************************************)
(* The connection pool.                                                    *)
(***************************************************************************)

\* How far a call may have got, by where it is: this is what makes CommitBound
\* inductive.
CallProgress ==
    \A t \in Thread :
        /\ pc[t] \in {"acquire", "ensure", "func"} => effects[t] = 0
        /\ pc[t] \in {"broken", "again"} => effects[t] <= 1
        /\ pc[t] = "again" => ShouldRetryOnce(cls[t])
        /\ pc[t] \in {"acquire", "ensure", "func", "broken", "again"} => outcome[t] = "none"

\* The inductive invariant.
PoolInv == TypeOK /\ Exclusive /\ NoSlotLost /\ CallProgress /\ CommitBound

-----------------------------------------------------------------------------
\* Taking the last element off a nonempty sequence.
LEMMA PopLast ==
    ASSUME NEW S, NEW q \in Seq(S), q # <<>>
    PROVE  /\ Len(q) \in Nat /\ Len(q) \in 1 .. Len(q) /\ q[Len(q)] \in S
           /\ SubSeq(q, 1, Len(q) - 1) \in Seq(S)
           /\ Len(SubSeq(q, 1, Len(q) - 1)) = Len(q) - 1
           /\ \A i \in 1 .. Len(q) - 1 : SubSeq(q, 1, Len(q) - 1)[i] = q[i]
           /\ \A i \in 1 .. Len(q) : i \in 1 .. Len(q) - 1 \/ i = Len(q)
  <1>1. Len(q) \in Nat \ {0}
    BY EmptySeq
  <1>2. \A i \in 1 .. Len(q) : q[i] \in S
    BY ElementOfSeq
  <1> DEFINE n == Len(q) - 1
  <1>3. n \in Int /\ 1 \in Int /\ \A i \in 1 .. n : q[i] \in S
    BY <1>1, <1>2
  <1>4. /\ SubSeq(q, 1, n) \in Seq(S)
        /\ Len(SubSeq(q, 1, n)) = IF 1 <= n THEN n - 1 + 1 ELSE 0
        /\ \A i \in 1 .. n - 1 + 1 : SubSeq(q, 1, n)[i] = q[1 + i - 1]
    <2> HIDE DEF n
    <2> QED
      BY <1>3, SubSeqProperties
  <1>5. Len(SubSeq(q, 1, n)) = Len(q) - 1
    <2>1. n \in Nat
      BY <1>1
    <2>2. Len(SubSeq(q, 1, n)) = n
      <3> HIDE DEF n
      <3>1. n - 1 + 1 = n /\ (~(1 <= n) => n = 0)
        BY <2>1
      <3> QED
        BY <1>4, <3>1
    <2> QED
      BY <2>2
  <1>6. \A i \in 1 .. Len(q) - 1 : SubSeq(q, 1, n)[i] = q[i]
    <2>1. n - 1 + 1 = Len(q) - 1 /\ \A i \in 1 .. Len(q) - 1 : 1 + i - 1 = i
      BY <1>1
    <2> QED
      BY <1>4, <2>1
  <1> QED
    BY <1>1, <1>2, <1>4, <1>5, <1>6

\* Putting an element at the end.
LEMMA PushLast ==
    ASSUME NEW S, NEW q \in Seq(S), NEW s \in S
    PROVE  /\ Len(q) \in Nat
           /\ Append(q, s) \in Seq(S)
           /\ Len(Append(q, s)) = Len(q) + 1
           /\ \A i \in 1 .. Len(q) : Append(q, s)[i] = q[i]
           /\ Append(q, s)[Len(q) + 1] = s
           /\ \A i \in 1 .. Len(q) + 1 : i \in 1 .. Len(q) \/ i = Len(q) + 1
  BY AppendProperties, LenProperties

\* acquire() moves one index from the free list to the thread.
LEMMA AcquireInv ==
    ASSUME PoolInv, NEW t \in Thread, Acquire(t)
    PROVE  PoolInv'
  <1> DEFINE n == Len(free_list)
             s == free_list[n]
  <1>0. TypeOK /\ Exclusive /\ NoSlotLost /\ CallProgress /\ CommitBound
    BY DEF PoolInv
  <1>1. /\ free_list # <<>> /\ pc[t] = "acquire" /\ pc' = [pc EXCEPT ![t] = "ensure"]
        /\ index' = [index EXCEPT ![t] = s]
        /\ free_list' = SubSeq(free_list, 1, n - 1)
        /\ UNCHANGED <<cls, outcome, effects, conn, db>>
    BY DEF Acquire, Goto
  <1>2. free_list \in Seq(Slot)
    BY <1>0 DEF TypeOK
  <1>3. /\ n \in Nat /\ n \in 1 .. n /\ s \in Slot
        /\ SubSeq(free_list, 1, n - 1) \in Seq(Slot)
        /\ Len(SubSeq(free_list, 1, n - 1)) = n - 1
        /\ \A i \in 1 .. n - 1 : SubSeq(free_list, 1, n - 1)[i] = free_list[i]
        /\ \A i \in 1 .. n : i \in 1 .. n - 1 \/ i = n
    BY <1>1, <1>2, PopLast
  <1> HIDE DEF n
  <1>4. /\ free_list' \in Seq(Slot) /\ Len(free_list') = n - 1
        /\ \A i \in 1 .. n - 1 : free_list'[i] = free_list[i] /\ i \in 1 .. n /\ i # n
    BY <1>1, <1>3
  <1>5. index[t] = NoSlot /\ index'[t] = s /\ \A u \in Thread \ {t} : index'[u] = index[u]
    BY <1>0, <1>1 DEF TypeOK, Inside
  <1>6. TypeOK'
    BY <1>0, <1>1, <1>3, <1>4, PoolAssumption DEF TypeOK, Inside
  <1>7. Exclusive'
    <2>1. \A u \in Thread : index[u] # s
      BY <1>0, <1>3 DEF Exclusive, n
    <2>2. \A i, j \in 1 .. n : free_list[i] = free_list[j] => i = j
      BY <1>0 DEF Exclusive, n
    <2>3. \A u, v \in Thread : u # v /\ index'[u] # NoSlot => index'[u] # index'[v]
      BY <1>0, <1>5, <2>1 DEF Exclusive
    <2>4. \A u \in Thread, i \in 1 .. Len(free_list') : index'[u] # free_list'[i]
      <3>1. \A u \in Thread, i \in 1 .. n : index[u] # free_list[i]
        BY <1>0 DEF Exclusive, n
      <3>2. \A i \in 1 .. n - 1 : s # free_list[i]
        BY <1>3, <1>4, <2>2
      <3> QED
        BY <1>4, <1>5, <3>1, <3>2
    <2>5. \A i, j \in 1 .. Len(free_list') : free_list'[i] = free_list'[j] => i = j
      BY <1>4, <2>2
    <2> QED
      BY <2>3, <2>4, <2>5 DEF Exclusive
  <1>8. NoSlotLost'
    <2> SUFFICES ASSUME NEW r \in Slot
                 PROVE  \/ \E i \in 1 .. Len(free_list') : free_list'[i] = r
                        \/ \E u \in Thread : index'[u] = r
      BY DEF NoSlotLost
    <2>1. CASE r = s
      BY <1>5, <2>1
    <2>2. CASE r # s /\ \E i \in 1 .. n : free_list[i] = r
      BY <1>3, <1>4, <2>2
    <2>3. CASE \E u \in Thread : index[u] = r
      BY <1>5, <2>3, PoolAssumption
    <2> QED
      BY <1>0, <2>1, <2>2, <2>3 DEF NoSlotLost, n
  <1>9. CallProgress' /\ CommitBound'
    BY <1>0, <1>1 DEF TypeOK, CallProgress, CommitBound
  <1> QED
    BY <1>6, <1>7, <1>8, <1>9 DEF PoolInv

\* release() moves the thread's index back to the free list.
LEMMA ReleaseInv ==
    ASSUME PoolInv, NEW t \in Thread, Release(t)
    PROVE  PoolInv'
  <1> DEFINE n == Len(free_list)
             s == index[t]
  <1>0. TypeOK /\ Exclusive /\ NoSlotLost /\ CallProgress /\ CommitBound
    BY DEF PoolInv
  <1>1. /\ pc[t] = "release" /\ pc' = [pc EXCEPT ![t] = "idle"]
        /\ index' = [index EXCEPT ![t] = NoSlot]
        /\ free_list' = Append(free_list, s)
        /\ UNCHANGED <<cls, outcome, effects, conn, db>>
    BY DEF Release, Goto
  <1>2. free_list \in Seq(Slot) /\ s \in Slot /\ s # NoSlot
    BY <1>0, <1>1, PoolAssumption DEF TypeOK, Inside
  <1>3. /\ n \in Nat /\ free_list' \in Seq(Slot) /\ Len(free_list') = n + 1
        /\ \A i \in 1 .. n : free_list'[i] = free_list[i]
        /\ free_list'[n + 1] = s
        /\ \A i \in 1 .. n + 1 : i \in 1 .. n \/ i = n + 1
    BY <1>1, <1>2, PushLast
  <1>4. index'[t] = NoSlot /\ \A u \in Thread \ {t} : index'[u] = index[u]
    BY <1>0, <1>1 DEF TypeOK
  <1>5. TypeOK'
    BY <1>0, <1>1, <1>3 DEF TypeOK, Inside
  <1> HIDE DEF n
  <1>6. Exclusive'
    <2>1. \A u, v \in Thread : u # v /\ index'[u] # NoSlot => index'[u] # index'[v]
      BY <1>0, <1>4 DEF Exclusive
    <2>2. \A u \in Thread, i \in 1 .. n : index[u] # free_list[i]
      BY <1>0 DEF Exclusive, n
    <2>3. \A u \in Thread, i \in 1 .. n + 1 : index'[u] # free_list'[i]
      <3> SUFFICES ASSUME NEW u \in Thread, NEW i \in 1 .. n + 1
                   PROVE  index'[u] # free_list'[i]
        OBVIOUS
      <3>1. free_list'[i] \in Slot
        BY <1>3, ElementOfSeq
      <3>2. CASE u = t
        BY <1>4, <3>1, <3>2, PoolAssumption
      <3>3. CASE u # t /\ i = n + 1
        BY <1>0, <1>2, <1>3, <1>4, <3>3 DEF Exclusive
      <3>4. CASE u # t /\ i \in 1 .. n
        BY <1>3, <1>4, <2>2, <3>4
      <3> QED
        BY <1>3, <3>2, <3>3, <3>4
    <2>4. \A i, j \in 1 .. n + 1 : free_list'[i] = free_list'[j] => i = j
      <3>1. \A i, j \in 1 .. n : free_list[i] = free_list[j] => i = j
        BY <1>0 DEF Exclusive, n
      <3> QED
        BY <1>3, <2>2, <3>1
    <2> QED
      BY <1>3, <2>1, <2>3, <2>4 DEF Exclusive
  <1>7. NoSlotLost'
    <2> SUFFICES ASSUME NEW r \in Slot
                 PROVE  \/ \E i \in 1 .. Len(free_list') : free_list'[i] = r
                        \/ \E u \in Thread : index'[u] = r
      BY DEF NoSlotLost
    <2>0. n + 1 \in 1 .. n + 1 /\ \A i \in 1 .. n : i \in 1 .. n + 1
      BY <1>3
    <2>1. CASE r = s
      BY <1>3, <2>0, <2>1
    <2>2. CASE \E i \in 1 .. n : free_list[i] = r
      BY <1>3, <2>0, <2>2
    <2>3. CASE \E u \in Thread : index[u] = r /\ r # s
      BY <1>4, <2>3
    <2> QED
      BY <1>0, <2>1, <2>2, <2>3 DEF NoSlotLost, n
  <1>8. CallProgress' /\ CommitBound'
    BY <1>0, <1>1 DEF TypeOK, CallProgress, CommitBound
  <1> QED
    BY <1>5, <1>6, <1>7, <1>8 DEF PoolInv

-----------------------------------------------------------------------------
\* Steps that neither take nor give back a slot.
LEMMA SlotsStay ==
    ASSUME PoolInv, index' = index, free_list' = free_list
    PROVE  Exclusive' /\ NoSlotLost'
  BY DEF PoolInv, Exclusive, NoSlotLost

\* A new call starts from nothing.
LEMMA CallInv ==
    ASSUME PoolInv, NEW t \in Thread, NEW c \in RetryClass, Call(t, c)
    PROVE  PoolInv'
  <1>1. Exclusive' /\ NoSlotLost'
    BY SlotsStay DEF Call
  <1>2. TypeOK'
    BY DEF PoolInv, TypeOK, Inside, Call, Goto
  <1>3. CallProgress' /\ CommitBound'
    BY DEF PoolInv, TypeOK, CallProgress, CommitBound, Call, Goto
  <1> QED
    BY <1>1, <1>2, <1>3 DEF PoolInv

\* ensure_connection() runs before func has had any effect.
LEMMA EnsureInv ==
    ASSUME PoolInv, NEW t \in Thread, EnsureKeeps(t) \/ EnsureRecreates(t)
    PROVE  PoolInv'
  <1>1. Exclusive' /\ NoSlotLost'
    BY SlotsStay DEF EnsureKeeps, EnsureRecreates
  <1>2. TypeOK'
    BY DEF PoolInv, TypeOK, Inside, EnsureKeeps, EnsureRecreates, Recreate, Goto
  <1>3. CallProgress' /\ CommitBound'
    BY DEF PoolInv, TypeOK, CallProgress, CommitBound, EnsureKeeps, EnsureRecreates, Recreate, Goto
  <1> QED
    BY <1>1, <1>2, <1>3 DEF PoolInv

\* The first run of func commits at most once.
LEMMA FuncInv ==
    ASSUME PoolInv, NEW t \in Thread, Func(t)
    PROVE  PoolInv'
  <1>1. Exclusive' /\ NoSlotLost'
    BY SlotsStay DEF Func
  <1>2. TypeOK'
    <2>1. pc[t] = "func" /\ effects[t] = 0
      BY DEF PoolInv, TypeOK, CallProgress, Func, FuncReturns, FuncBreaks, FuncThrows, Goto
    <2>2. CASE FuncReturns(t, "func")
      BY <2>1, <2>2 DEF PoolInv, TypeOK, Inside, Func, FuncReturns, Leave, Goto
    <2>3. CASE FuncBreaks(t, "func", "broken")
      BY <2>1, <2>3 DEF PoolInv, TypeOK, Inside, Func, FuncBreaks, Goto
    <2>4. CASE FuncThrows(t, "func")
      BY <2>1, <2>4 DEF PoolInv, TypeOK, Inside, Func, FuncThrows, Leave, Goto
    <2> QED
      BY <2>2, <2>3, <2>4 DEF Func
  <1>3. CallProgress' /\ CommitBound'
    <2>1. pc[t] = "func" /\ effects[t] = 0 /\ UNCHANGED cls
      BY DEF PoolInv, TypeOK, CallProgress, Func, FuncReturns, FuncBreaks, FuncThrows, Goto
    <2>2. CASE FuncReturns(t, "func")
      BY <2>1, <2>2 DEF PoolInv, TypeOK, CallProgress, CommitBound, FuncReturns, Leave, Goto
    <2>3. CASE FuncBreaks(t, "func", "broken")
      BY <2>1, <2>3 DEF PoolInv, TypeOK, CallProgress, CommitBound, FuncBreaks, Goto
    <2>4. CASE FuncThrows(t, "func")
      BY <2>1, <2>4 DEF PoolInv, TypeOK, CallProgress, CommitBound, FuncThrows, Leave, Goto
    <2> QED
      BY <2>2, <2>3, <2>4 DEF Func
  <1> QED
    BY <1>1, <1>2, <1>3 DEF PoolInv

\* The handler sends a NonRetryableWrite away and only the others to "again".
LEMMA HandlerInv ==
    ASSUME PoolInv, NEW t \in Thread, GiveUp(t) \/ Retry(t)
    PROVE  PoolInv'
  <1>1. Exclusive' /\ NoSlotLost'
    BY SlotsStay DEF GiveUp, Retry
  <1>2. TypeOK'
    BY DEF PoolInv, TypeOK, Inside, GiveUp, Retry, Recreate, Leave, Goto
  <1>3. CallProgress' /\ CommitBound'
    BY DEF PoolInv, TypeOK, CallProgress, CommitBound, ShouldRetryOnce, GiveUp, Retry, Recreate, Leave, Goto
  <1> QED
    BY <1>1, <1>2, <1>3 DEF PoolInv

\* The second run of func: only in calls that may commit twice.
LEMMA FuncAgainInv ==
    ASSUME PoolInv, NEW t \in Thread, FuncAgain(t)
    PROVE  PoolInv'
  <1>1. Exclusive' /\ NoSlotLost'
    BY SlotsStay DEF FuncAgain
  <1>2. TypeOK'
    <2>1. pc[t] = "again" /\ effects[t] \in 0 .. 1 /\ effects[t] + 1 \in 0 .. 2
      BY DEF PoolInv, TypeOK, CallProgress, FuncAgain, FuncReturns, FuncBreaks, FuncThrows, Goto
    <2>2. CASE FuncReturns(t, "again")
      BY <2>1, <2>2 DEF PoolInv, TypeOK, Inside, FuncAgain, FuncReturns, Leave, Goto
    <2>3. CASE FuncBreaks(t, "again", "release")
      BY <2>1, <2>3 DEF PoolInv, TypeOK, Inside, FuncAgain, FuncBreaks, Goto
    <2>4. CASE FuncThrows(t, "again")
      BY <2>1, <2>4 DEF PoolInv, TypeOK, Inside, FuncAgain, FuncThrows, Leave, Goto
    <2> QED
      BY <2>2, <2>3, <2>4 DEF FuncAgain
  <1>3. CallProgress' /\ CommitBound'
    BY DEF PoolInv, TypeOK, CallProgress, CommitBound, ShouldRetryOnce, FuncAgain, FuncReturns, FuncBreaks,
           FuncThrows, Leave, Goto
  <1> QED
    BY <1>1, <1>2, <1>3 DEF PoolInv

\* PostgreSQL goes down and comes up.
LEMMA DbInv ==
    ASSUME PoolInv, DbDown \/ DbUp
    PROVE  PoolInv'
  <1>1. Exclusive' /\ NoSlotLost'
    BY SlotsStay DEF DbDown, DbUp
  <1>2. TypeOK'
    BY DEF PoolInv, TypeOK, Inside, DbDown, DbUp
  <1>3. CallProgress' /\ CommitBound'
    BY DEF PoolInv, CallProgress, CommitBound, DbDown, DbUp
  <1> QED
    BY <1>1, <1>2, <1>3 DEF PoolInv

-----------------------------------------------------------------------------
\* The constructor fills the free list with every slot once.
LEMMA InitInv ==
    ASSUME Init
    PROVE  PoolInv
  <1> DEFINE n == Cardinality(Slot)
  <1>1. n \in Nat
    BY PoolAssumption, FS_CardinalityType
  <1>2. /\ free_list \in [1 .. n -> Slot]
        /\ \A s \in Slot : \E i \in 1 .. n : \A j \in 1 .. n : free_list[j] = s <=> j = i
    BY DEF Init, Orders
  <1> HIDE DEF n
  <1>3. free_list \in Seq(Slot) /\ Len(free_list) = n
    BY <1>1, <1>2, SeqDef
  <1>4. TypeOK
    BY <1>3 DEF Init, TypeOK, Inside, RetryClass
  <1>5. Exclusive
    <2>1. \A i, j \in 1 .. n : free_list[i] = free_list[j] => i = j
      BY <1>2
    <2>2. \A t \in Thread : index[t] = NoSlot
      BY DEF Init
    <2> QED
      BY <1>2, <1>3, <2>1, <2>2, PoolAssumption DEF Exclusive
  <1>6. NoSlotLost
    BY <1>2, <1>3 DEF NoSlotLost
  <1>7. CallProgress /\ CommitBound
    BY DEF Init, CallProgress, CommitBound
  <1> QED
    BY <1>4, <1>5, <1>6, <1>7 DEF PoolInv

\* execute() keeps the pool's books whatever is thrown and wherever.
THEOREM PoolInvariant == Safety => []PoolInv
  <1>1. PoolInv /\ [Next]_vars => PoolInv'
    <2> SUFFICES ASSUME PoolInv, [Next]_vars PROVE PoolInv'
      OBVIOUS
    <2>1. CASE UNCHANGED vars
      BY <2>1 DEF vars, PoolInv, TypeOK, Exclusive, NoSlotLost, CallProgress, CommitBound
    <2>2. ASSUME NEW t \in Thread, Step(t)
          PROVE  PoolInv'
      BY <2>2, AcquireInv, EnsureInv, FuncInv, HandlerInv, FuncAgainInv, ReleaseInv DEF Step
    <2> QED
      BY <2>1, <2>2, CallInv, DbInv DEF Next
  <1> QED
    BY <1>1, InitInv, PTL DEF Safety

\* A thread holds a slot exactly between acquire() and release().
THEOREM PoolTypes == Safety => []TypeOK
  <1>1. PoolInv => TypeOK
    BY DEF PoolInv
  <1> QED
    BY <1>1, PoolInvariant, PTL

\* No connection is used by two threads, none is lost, for any pool size.
THEOREM SlotsAccounted == Safety => [](Exclusive /\ NoSlotLost)
  <1>1. PoolInv => Exclusive /\ NoSlotLost
    BY DEF PoolInv
  <1> QED
    BY <1>1, PoolInvariant, PTL

\* A NonRetryableWrite is committed at most once by one call of execute().
THEOREM CommitsBounded == Safety => []CommitBound
  <1>1. PoolInv => CommitBound
    BY DEF PoolInv
  <1> QED
    BY <1>1, PoolInvariant, PTL

\* With at least as many connections as threads, acquire() never waits: were the
\* free list empty, every slot would be held by another thread.
THEOREM AcquireNeverBlocks ==
    ASSUME Cardinality(Thread) <= Cardinality(Slot)
    PROVE  Safety => []NeverBlocks
  <1>1. PoolInv => NeverBlocks
    <2> SUFFICES ASSUME PoolInv, NEW t \in Thread, pc[t] = "acquire", free_list = <<>>
                 PROVE  FALSE
      BY DEF NeverBlocks
    <2> DEFINE Others == Thread \ {t}
               holder == [s \in Slot |-> CHOOSE u \in Others : index[u] = s]
    <2>1. index[t] = NoSlot /\ Len(free_list) = 0
      BY DEF PoolInv, TypeOK, Inside
    <2>2. \A s \in Slot : \E u \in Others : index[u] = s
      BY <2>1, PoolAssumption DEF PoolInv, NoSlotLost
    <2>3. \A s \in Slot : holder[s] \in Others /\ index[holder[s]] = s
      BY <2>2
    <2>4. holder \in [Slot -> Others]
      BY <2>3
    <2>5. /\ IsFiniteSet(Others) /\ Cardinality(Others) = Cardinality(Thread) - 1
          /\ Cardinality(Slot) \in Nat /\ Cardinality(Thread) \in Nat
      BY PoolAssumption, FS_RemoveElement, FS_CardinalityType
    <2>6. Cardinality(Others) < Cardinality(Slot)
      BY <2>5
    <2> HIDE DEF holder, Others
    <2>7. \E r, s \in Slot : r # s /\ holder[r] = holder[s]
      BY <2>4, <2>5, <2>6, PoolAssumption, FS_PigeonHole
    <2> QED
      BY <2>3, <2>7
  <1> QED
    BY <1>1, PoolInvariant, PTL
=============================================================================
