--------------------------- MODULE MessageMergeProofs ---------------------------
(***************************************************************************)
(* Theorems about MessageMerge, for any texts, any page size and any       *)
(* number of messages.                                                     *)
(***************************************************************************)
EXTENDS MessageMerge, SequenceTheorems, FiniteSetTheorems, WellFoundedInduction, TLAPS

-----------------------------------------------------------------------------
(***************************************************************************)
(* Induction, from the least counterexample: the numbers are well ordered. *)
(***************************************************************************)

\* A nonempty set of numbers has a least one.
LEMMA LeastNat ==
    ASSUME NEW S \in SUBSET Nat, S # {}
    PROVE  \E x \in S : \A y \in S : x <= y
  <1> DEFINE R == OpToRel(<, Nat)
  <1>1. IsWellFoundedOn(R, Nat)
    BY NatLessThanWellFounded
  <1>2. \A x, y \in Nat : x < y => <<x, y>> \in R
    BY DEF OpToRel
  <1> HIDE DEF R
  <1>3. PICK x \in S : \A y \in S : ~(<<y, x>> \in R)
    BY <1>1, WFMin
  <1>4. ASSUME NEW y \in S PROVE x <= y
    <2>1. ~(y < x)
      BY <1>2, <1>3
    <2> QED
      BY <2>1
  <1> QED
    BY <1>4

\* The numbers up to k, one after the other.
LEMMA UpTo ==
    ASSUME NEW k \in Nat, NEW T \in SUBSET Nat, 0 \in T,
           \A n \in T : n < k => n + 1 \in T
    PROVE  \A n \in 0 .. k : n \in T
  <1> DEFINE C == {n \in 0 .. k : n \notin T}
  <1> SUFFICES ASSUME C # {} PROVE FALSE
    OBVIOUS
  <1>1. C \in SUBSET Nat /\ \A n \in 0 .. k : n \in C \/ n \in T
    OBVIOUS
  <1>2. \A n \in C : n \in 0 .. k /\ n \notin T
    OBVIOUS
  <1> HIDE DEF C
  <1>3. PICK x \in C : \A y \in C : x <= y
    BY <1>1, LeastNat
  <1>4. x # 0 /\ x - 1 \in 0 .. k /\ ~(x <= x - 1)
    BY <1>2, <1>3
  <1>5. x - 1 \in T /\ x - 1 < k
    BY <1>1, <1>2, <1>3, <1>4
  <1> QED
    BY <1>2, <1>3, <1>5

\* Min of a nonempty set of numbers.
LEMMA MinNat ==
    ASSUME NEW S \in SUBSET Nat, S # {}
    PROVE  Min(S) \in S /\ \A y \in S : Min(S) <= y
  BY LeastNat DEF Min

\* A nonempty set of numbers with a bound has a greatest one.
LEMMA GreatestNat ==
    ASSUME NEW k \in Nat, NEW S \in SUBSET (0 .. k), S # {}
    PROVE  \E x \in S : \A y \in S : y <= x
  <1> DEFINE T == {k - x : x \in S}
  <1>1. T \in SUBSET Nat /\ T # {}
    <2>1. \A x \in S : k - x \in Nat
      OBVIOUS
    <2> QED
      BY <2>1
  <1>2. PICK t \in T : \A u \in T : t <= u
    BY <1>1, LeastNat
  <1>3. PICK x \in S : t = k - x
    BY <1>2
  <1>4. ASSUME NEW y \in S PROVE y <= x
    <2>1. k - x <= k - y
      BY <1>2, <1>3
    <2> QED
      BY <2>1
  <1> QED
    BY <1>4

-----------------------------------------------------------------------------
(***************************************************************************)
(* The two recursive functions.                                            *)
(***************************************************************************)

\* The lists a merge goes through: g[i] after i messages.
MergeSteps(g, v, ms, near, k) ==
    g = [i \in 0 .. k |-> IF i = 0 THEN v ELSE Merge(g[i - 1], ms[i], near)]

\* mergeConversationMessages() merges one message after the other.
LEMMA MergeUnfolds ==
    ASSUME NEW v, NEW S, NEW ms \in Seq(S), NEW near
    PROVE  \E g : /\ g[0] = v
                  /\ \A i \in 1 .. Len(ms) : g[i] = Merge(g[i - 1], ms[i], near)
                  /\ MergeConversationMessages(v, ms, near) = g[Len(ms)]
  <1> DEFINE T == {k \in Nat : \E g : MergeSteps(g, v, ms, near, k)}
  <1>1. 0 \in T
    <2> DEFINE g == [i \in 0 .. 0 |-> v]
    <2>1. MergeSteps(g, v, ms, near, 0)
      BY DEF MergeSteps
    <2> QED
      BY <2>1
  <1>2. ASSUME NEW k \in T PROVE k + 1 \in T
    <2>1. PICK g : MergeSteps(g, v, ms, near, k)
      BY <1>2
    <2> DEFINE h == [i \in 0 .. k + 1 |-> IF i = k + 1 THEN Merge(g[k], ms[k + 1], near) ELSE g[i]]
    <2>2. g = [i \in 0 .. k |-> IF i = 0 THEN v ELSE Merge(g[i - 1], ms[i], near)]
      BY <2>1 DEF MergeSteps
    <2>3. \A i \in 0 .. k : g[i] = IF i = 0 THEN v ELSE Merge(g[i - 1], ms[i], near)
      BY <2>2
    <2>4. \A i \in 0 .. k : h[i] = g[i]
      OBVIOUS
    <2>5. \A i \in 0 .. k + 1 : h[i] = IF i = 0 THEN v ELSE Merge(h[i - 1], ms[i], near)
      <3> SUFFICES ASSUME NEW i \in 0 .. k + 1
                   PROVE  h[i] = IF i = 0 THEN v ELSE Merge(h[i - 1], ms[i], near)
        OBVIOUS
      <3>1. CASE i = k + 1
        BY <2>4, <3>1
      <3>2. CASE i # k + 1
        <4>1. i \in 0 .. k /\ h[i] = g[i] /\ (i # 0 => h[i - 1] = g[i - 1])
          BY <2>4, <3>2
        <4> QED
          BY <2>3, <4>1
      <3> QED
        BY <3>1, <3>2
    <2>6. h = [i \in 0 .. k + 1 |-> h[i]]
      OBVIOUS
    <2> HIDE DEF h
    <2>7. MergeSteps(h, v, ms, near, k + 1)
      BY <2>5, <2>6 DEF MergeSteps
    <2> QED
      BY <2>7
  <1>3. Len(ms) \in T
    <2>1. Len(ms) \in Nat /\ Len(ms) \in 0 .. Len(ms) /\ T \in SUBSET Nat
      OBVIOUS
    <2> HIDE DEF T
    <2> QED
      BY <1>1, <1>2, <2>1, UpTo
  <1> DEFINE g == CHOOSE g : MergeSteps(g, v, ms, near, Len(ms))
  <1>4. MergeSteps(g, v, ms, near, Len(ms))
    BY <1>3
  <1>5. MergeConversationMessages(v, ms, near) = g[Len(ms)]
    BY DEF MergeConversationMessages, MergeSteps
  <1> HIDE DEF g
  <1>6. g = [i \in 0 .. Len(ms) |-> IF i = 0 THEN v ELSE Merge(g[i - 1], ms[i], near)]
    BY <1>4 DEF MergeSteps
  <1>7. \A i \in 0 .. Len(ms) : g[i] = IF i = 0 THEN v ELSE Merge(g[i - 1], ms[i], near)
    BY <1>6
  <1> QED
    BY <1>5, <1>7
\* The lists a removal goes through: g[i] keeps what it keeps of the first i.
RemoveSteps(g, v, n, k) ==
    g = [i \in 0 .. k |-> IF i = 0 THEN <<>>
                          ELSE IF v[i].id = n THEN g[i - 1] ELSE Append(g[i - 1], v[i])]

\* removeMessage() looks at one message after the other.
LEMMA RemoveUnfolds ==
    ASSUME NEW S, NEW v \in Seq(S), NEW n
    PROVE  \E g : /\ g[0] = <<>>
                  /\ \A i \in 1 .. Len(v) :
                        g[i] = IF v[i].id = n THEN g[i - 1] ELSE Append(g[i - 1], v[i])
                  /\ RemoveMessage(v, n) = g[Len(v)]
  <1> DEFINE T == {k \in Nat : \E g : RemoveSteps(g, v, n, k)}
             Then(w, i) == IF v[i].id = n THEN w ELSE Append(w, v[i])
  <1>1. 0 \in T
    <2> DEFINE g == [i \in 0 .. 0 |-> <<>>]
    <2>1. RemoveSteps(g, v, n, 0)
      BY DEF RemoveSteps
    <2> QED
      BY <2>1
  <1>2. ASSUME NEW k \in T PROVE k + 1 \in T
    <2>1. PICK g : RemoveSteps(g, v, n, k)
      BY <1>2
    <2> DEFINE h == [i \in 0 .. k + 1 |-> IF i = k + 1 THEN Then(g[k], k + 1) ELSE g[i]]
    <2>2. g = [i \in 0 .. k |-> IF i = 0 THEN <<>> ELSE Then(g[i - 1], i)]
      BY <2>1 DEF RemoveSteps
    <2> HIDE DEF Then
    <2>3. \A i \in 0 .. k : g[i] = IF i = 0 THEN <<>> ELSE Then(g[i - 1], i)
      BY <2>2
    <2>4. \A i \in 0 .. k : h[i] = g[i]
      OBVIOUS
    <2>5. \A i \in 0 .. k + 1 : h[i] = IF i = 0 THEN <<>> ELSE Then(h[i - 1], i)
      <3> SUFFICES ASSUME NEW i \in 0 .. k + 1
                   PROVE  h[i] = IF i = 0 THEN <<>> ELSE Then(h[i - 1], i)
        OBVIOUS
      <3>1. CASE i = k + 1
        BY <2>4, <3>1
      <3>2. CASE i # k + 1
        <4>1. i \in 0 .. k /\ h[i] = g[i] /\ (i # 0 => h[i - 1] = g[i - 1])
          BY <2>4, <3>2
        <4> QED
          BY <2>3, <4>1
      <3> QED
        BY <3>1, <3>2
    <2>6. h = [i \in 0 .. k + 1 |-> h[i]]
      OBVIOUS
    <2> HIDE DEF h
    <2>7. h = [i \in 0 .. k + 1 |-> IF i = 0 THEN <<>> ELSE Then(h[i - 1], i)]
      BY <2>5, <2>6
    <2> USE DEF Then
    <2>8. RemoveSteps(h, v, n, k + 1)
      BY <2>7 DEF RemoveSteps
    <2> QED
      BY <2>8
  <1>3. Len(v) \in T
    <2>1. Len(v) \in Nat /\ Len(v) \in 0 .. Len(v) /\ T \in SUBSET Nat
      OBVIOUS
    <2> HIDE DEF T
    <2> QED
      BY <1>1, <1>2, <2>1, UpTo
  <1> DEFINE g == CHOOSE g : RemoveSteps(g, v, n, Len(v))
  <1>4. RemoveSteps(g, v, n, Len(v))
    BY <1>3
  <1>5. RemoveMessage(v, n) = g[Len(v)]
    BY DEF RemoveMessage, RemoveSteps
  <1> HIDE DEF g
  <1>6. g = [i \in 0 .. Len(v) |-> IF i = 0 THEN <<>> ELSE Then(g[i - 1], i)]
    BY <1>4 DEF RemoveSteps
  <1> HIDE DEF Then
  <1>7. \A i \in 0 .. Len(v) : g[i] = IF i = 0 THEN <<>> ELSE Then(g[i - 1], i)
    BY <1>6
  <1>8. g[0] = <<>> /\ \A i \in 1 .. Len(v) : g[i] = Then(g[i - 1], i)
    BY <1>7
  <1>9. \A i \in 1 .. Len(v) :
           g[i] = IF v[i].id = n THEN g[i - 1] ELSE Append(g[i - 1], v[i])
    BY <1>8 DEF Then
  <1> HIDE DEF g
  <1> QED
    BY <1>5, <1>8, <1>9

-----------------------------------------------------------------------------
(***************************************************************************)
(* The inductive invariant.                                                *)
(***************************************************************************)

\* A list in which an id leads to one message, and what is pending has no id yet.
Tidy(v) ==
    /\ v \in Seq(Entry)
    /\ \A i, j \in DOMAIN v : v[i].id = v[j].id => i = j
    /\ \A i \in DOMAIN v : v[i].pending => v[i].id < 0

\* The list shows message n with the text and the side of m.
Shows(v, n, m) == \E i \in DOMAIN v : v[i].id = n /\ v[i].content = m.content /\ v[i].own = m.own

\* The ids of optimistic messages are used up in order.
TempIds == \A i \in DOMAIN view : -view[i].id <= sends

\* Only what the server has deleted is removed.
DeletesTrue ==
    \A n \in DOMAIN msgs : [type |-> "delete", id |-> n] \in news => msgs[n].life = "deleted"

\* Down to the cursor, or altogether when there is no more, the browser was given
\* what the history held.
PagedSoFar ==
    history.loaded =>
        \A n \in base \cap Saved :
            (history.cursor = None \/ n >= history.cursor \/ ~history.more) => n \in got

\* A page on its way goes on where the cursor stands, and is full if it leaves out more.
PageNext ==
    history.loading =>
        /\ history.loaded => history.cursor # None
        /\ \A n \in base \cap Saved :
              (history.loaded => n < history.cursor) =>
                  n \in page \/ (Cardinality(page) = PageSize /\ \A m \in page : n < m)

\* What is shown, and what it needs.
ListInv ==
    /\ Tidy(view) /\ TempIds
    /\ \A n \in got : Shows(view, n, msgs[n])

\* How the loading of the history stands.
PagingInv ==
    /\ \A n \in base : msgs[n].life # "new"
    /\ DeletesTrue /\ PagedSoFar /\ PageNext

MergeInv == TypeOK /\ Len(msgs) <= MaxMsg /\ ListInv /\ PagingInv

\* Of list v, with the sends in P parted: what waits for a message of the server is the
\* only entry of its text, and an entry whose message the server has waits for it, while
\* the list does not show that message.
Matched(v, P) ==
    /\ \A i \in DOMAIN v : v[i].id <= Len(msgs)
    /\ \A i \in DOMAIN v : v[i].pending => v[i].own
    /\ \A i, j \in DOMAIN v :
          v[i].pending /\ v[j].pending /\ v[i].content = v[j].content => i = j
    /\ \A i \in DOMAIN v, n \in DOMAIN msgs :
          msgs[n].own /\ msgs[n].send \notin P /\ v[i].id = -msgs[n].send =>
              v[i].pending /\ v[i].content = msgs[n].content /\ WithId(v, n) = {}

\* What the server has of the user's was sent, and the rest is not announced as own.
SendsTrue ==
    \A n \in DOMAIN msgs :
        /\ msgs[n].own => msgs[n].send \in 1 .. sends
        /\ [type |-> "chat", id |-> n] \in news => ~msgs[n].own

SendInv == SendsTrue /\ Matched(view, parted)

-----------------------------------------------------------------------------
(***************************************************************************)
(* What the functions on the list do to it.                                *)
(***************************************************************************)

\* ReceiptsUp, of two lists.
RanksUp(v, w) ==
    \A i \in DOMAIN v, j \in DOMAIN w :
        v[i].id = w[j].id => ReceiptRank[w[j].status] >= ReceiptRank[v[i].status]

\* w is v with message n at t: where that message was, where one without an id was,
\* or at the end.
Puts(v, w, t, n) ==
    /\ w \in Seq(Entry) /\ t \in DOMAIN w /\ w[t].id = n
    /\ DOMAIN v \subseteq DOMAIN w /\ DOMAIN w \subseteq DOMAIN v \cup {t}
    /\ \A i \in DOMAIN v : i # t => w[i] = v[i]
    /\ \A i \in DOMAIN v : v[i].id = n =>
          i = t /\ ReceiptRank[w[t].status] >= ReceiptRank[v[t].status]
    /\ t \in DOMAIN v => v[t].id = n \/ v[t].id < 0

\* w came of v by messages and receipts of the server: no id is lost or new but theirs,
\* no tick goes back, and what v shows rightly w does.
Follows(v, w) ==
    /\ RanksUp(v, w)
    /\ \A i \in DOMAIN v : v[i].id > 0 => \E j \in DOMAIN w : w[j].id = v[i].id
    /\ \A j \in DOMAIN w : w[j].id < 0 => \E i \in DOMAIN v : v[i].id = w[j].id
    /\ \A n \in DOMAIN msgs : Shows(v, n, msgs[n]) => Shows(w, n, msgs[n])

\* The ranks are numbers, and a merged status is the higher one.
LEMMA Ranks ==
    ASSUME NEW s \in DOMAIN ReceiptRank, NEW t \in DOMAIN ReceiptRank
    PROVE  /\ ReceiptRank[s] \in Int /\ ReceiptRank[s] <= ReceiptRank["read"]
           /\ MergeReceiptStatus(s, t) \in DOMAIN ReceiptRank
           /\ ReceiptRank[MergeReceiptStatus(s, t)] >= ReceiptRank[s]
  BY DEF ReceiptRank, MergeReceiptStatus

\* The fields of what is on a list.
LEMMA EntryTypes ==
    ASSUME NEW v \in Seq(Entry), NEW i \in DOMAIN v
    PROVE  /\ v[i] \in Entry /\ v[i].id \in Int /\ v[i].id # 0
           /\ -MaxSend <= v[i].id /\ v[i].id <= MaxMsg
           /\ v[i].status \in DOMAIN ReceiptRank /\ v[i].pending \in BOOLEAN
           /\ v[i].content \in Content /\ v[i].own \in BOOLEAN
  <1>1. v[i] \in Entry
    OBVIOUS
  <1>2. MaxSend \in Nat /\ MaxMsg \in Nat
    BY MergeAssumption
  <1> QED
    BY <1>1, <1>2 DEF Entry

\* A message put in its place leaves the list tidy.
LEMMA PutsTidy ==
    ASSUME NEW v, NEW w, NEW t, NEW n, Tidy(v), Puts(v, w, t, n), w[t].pending => n < 0
    PROVE  Tidy(w)
  <1>1. \A i \in DOMAIN w : i # t => i \in DOMAIN v /\ w[i] = v[i] /\ v[i].id # n
    BY DEF Puts
  <1>2. ASSUME NEW i \in DOMAIN w, NEW j \in DOMAIN w, w[i].id = w[j].id
        PROVE  i = j
    <2>1. CASE i = t \/ j = t
      BY <1>1, <1>2, <2>1 DEF Puts
    <2>2. CASE i # t /\ j # t
      BY <1>1, <1>2, <2>2 DEF Tidy
    <2> QED
      BY <2>1, <2>2
  <1>3. \A i \in DOMAIN w : w[i].pending => w[i].id < 0
    BY <1>1 DEF Tidy, Puts
  <1> QED
    BY <1>2, <1>3 DEF Tidy, Puts

\* Its ticks do not go back.
LEMMA PutsRanks ==
    ASSUME NEW v, NEW w, NEW t, NEW n, Tidy(v), Puts(v, w, t, n)
    PROVE  RanksUp(v, w)
  <1> SUFFICES ASSUME NEW i \in DOMAIN v, NEW j \in DOMAIN w, v[i].id = w[j].id
               PROVE  ReceiptRank[w[j].status] >= ReceiptRank[v[i].status]
    BY DEF RanksUp
  <1>1. CASE j = t
    BY <1>1 DEF Puts
  <1>2. CASE j # t
    <2>1. j \in DOMAIN v /\ w[j] = v[j] /\ i = j
      BY <1>2 DEF Puts, Tidy
    <2>2. v[i] \in Entry
      BY DEF Tidy
    <2>3. v[i].status \in DOMAIN ReceiptRank
      BY <2>2 DEF Entry
    <2> QED
      BY <2>1, <2>3, Ranks
  <1> QED
    BY <1>1, <1>2

\* A message of the server put in its place carries everything on, if it shows that
\* message at least as the list did.
LEMMA PutsFollows ==
    ASSUME TypeOK, NEW v, NEW w, NEW t, NEW n, Tidy(v), Puts(v, w, t, n), n > 0,
           n \in DOMAIN msgs => (Shows(v, n, msgs[n]) => Shows(w, n, msgs[n]))
    PROVE  Follows(v, w)
  <1>1. \A i \in DOMAIN v : v[i].id > 0 => \E j \in DOMAIN w : w[j].id = v[i].id
    <2> SUFFICES ASSUME NEW i \in DOMAIN v, v[i].id > 0
                 PROVE  \E j \in DOMAIN w : w[j].id = v[i].id
      OBVIOUS
    <2>1. i \in DOMAIN w /\ v[i].id \in Int
      BY EntryTypes DEF Puts, Tidy
    <2>2. CASE i = t
      BY <2>1, <2>2 DEF Puts
    <2>3. CASE i # t
      BY <2>1, <2>3 DEF Puts
    <2> QED
      BY <2>2, <2>3
  <1>2. \A j \in DOMAIN w : w[j].id < 0 => \E i \in DOMAIN v : v[i].id = w[j].id
    <2> SUFFICES ASSUME NEW j \in DOMAIN w, w[j].id < 0
                 PROVE  \E i \in DOMAIN v : v[i].id = w[j].id
      OBVIOUS
    <2>1. j # t
      <3>1. w[t].id = n /\ n \in Int
        BY EntryTypes DEF Puts
      <3> QED
        BY <3>1
    <2> QED
      BY <2>1 DEF Puts
  <1>3. ASSUME NEW k \in DOMAIN msgs, Shows(v, k, msgs[k])
        PROVE  Shows(w, k, msgs[k])
    <2>1. CASE k = n
      BY <1>3, <2>1
    <2>2. CASE k # n
      <3>1. PICK i \in DOMAIN v : /\ v[i].id = k /\ v[i].content = msgs[k].content
                                  /\ v[i].own = msgs[k].own
        BY <1>3 DEF Shows
      <3>2. i # t
        <4> SUFFICES ASSUME i = t PROVE FALSE
          OBVIOUS
        <4>1. v[t].id < 0
          BY <2>2, <3>1 DEF Puts
        <4>2. k < 0 /\ k \in Nat
          BY <3>1, <4>1 DEF TypeOK
        <4> QED
          BY <4>2
      <3> QED
        BY <3>1, <3>2 DEF Puts, Shows
    <2> QED
      BY <2>1, <2>2
  <1> QED
    BY <1>1, <1>2, <1>3, PutsRanks DEF Follows

\* One thing after the other.
LEMMA FollowsOn ==
    ASSUME NEW u \in Seq(Entry), NEW v \in Seq(Entry), NEW w \in Seq(Entry),
           Follows(u, v), Follows(v, w)
    PROVE  Follows(u, w)
  <1>1. \A i \in DOMAIN u : u[i].id > 0 => \E j \in DOMAIN w : w[j].id = u[i].id
    BY DEF Follows
  <1>2. \A j \in DOMAIN w : w[j].id < 0 => \E i \in DOMAIN u : u[i].id = w[j].id
    BY DEF Follows
  <1>3. \A n \in DOMAIN msgs : Shows(u, n, msgs[n]) => Shows(w, n, msgs[n])
    BY DEF Follows
  <1>4. ASSUME NEW i \in DOMAIN u, NEW j \in DOMAIN w, u[i].id = w[j].id
        PROVE  ReceiptRank[w[j].status] >= ReceiptRank[u[i].status]
    <2>1. u[i].id \in Int /\ u[i].id # 0
      BY EntryTypes
    <2>2. PICK k \in DOMAIN v : v[k].id = u[i].id
      <3>1. CASE u[i].id > 0
        BY <3>1 DEF Follows
      <3>2. CASE u[i].id < 0
        BY <1>4, <3>2 DEF Follows
      <3> QED
        BY <2>1, <3>1, <3>2
    <2>3. /\ ReceiptRank[v[k].status] >= ReceiptRank[u[i].status]
          /\ ReceiptRank[w[j].status] >= ReceiptRank[v[k].status]
      BY <1>4, <2>2 DEF Follows, RanksUp
    <2>4. /\ ReceiptRank[v[k].status] \in Int /\ ReceiptRank[u[i].status] \in Int
          /\ ReceiptRank[w[j].status] \in Int
      BY EntryTypes, Ranks
    <2> QED
      BY <2>3, <2>4
  <1> QED
    BY <1>1, <1>2, <1>3, <1>4 DEF Follows, RanksUp

\* Nothing happened yet.
LEMMA FollowsSelf ==
    ASSUME NEW v, Tidy(v)
    PROVE  Follows(v, v)
  <1>1. ASSUME NEW i \in DOMAIN v, NEW j \in DOMAIN v, v[i].id = v[j].id
        PROVE  ReceiptRank[v[j].status] >= ReceiptRank[v[i].status]
    <2>1. i = j
      BY <1>1 DEF Tidy
    <2>2. ReceiptRank[v[i].status] \in Int
      BY EntryTypes, Ranks DEF Tidy
    <2> QED
      BY <2>1, <2>2
  <1> QED
    BY <1>1 DEF Follows, RanksUp

\* The first message with an id.
LEMMA FirstOf ==
    ASSUME NEW v \in Seq(Entry), NEW S \in SUBSET DOMAIN v, S # {}
    PROVE  Min(S) \in S /\ Min(S) \in DOMAIN v
  <1>1. S \in SUBSET Nat
    OBVIOUS
  <1> QED
    BY <1>1, MinNat

\* One round of mergeConversationMessages() puts the message in its place.
LEMMA MergePuts ==
    ASSUME NEW v, NEW m \in Entry, NEW near, Tidy(v), m.pending => m.id < 0
    PROVE  \E t : LET w == Merge(v, m, near) IN
              /\ Puts(v, w, t, m.id)
              /\ w[t].content = m.content /\ w[t].own = m.own
              /\ w[t].pending => m.pending
              /\ t \in DOMAIN v => ~w[t].pending /\ (v[t].id # m.id => SameDelivered(v[t], m, near))
              /\ t \notin DOMAIN v => w[t] = m /\ \A i \in DOMAIN v : ~SameDelivered(v[i], m, near)
  <1> DEFINE w == Merge(v, m, near)
             exact == WithId(v, m.id)
             optimistic == {i \in DOMAIN v : SameDelivered(v[i], m, near)}
             on(i) == [m EXCEPT !.pending = FALSE, !.status = MergeReceiptStatus(v[i].status, @)]
  <1>1. v \in Seq(Entry) /\ exact \in SUBSET DOMAIN v /\ optimistic \in SUBSET DOMAIN v
    BY DEF Tidy, WithId
  <1>2. /\ m.id \in Int /\ m.status \in DOMAIN ReceiptRank
        /\ m.content \in Content /\ m.own \in BOOLEAN
    <2>1. MaxSend \in Nat /\ MaxMsg \in Nat
      BY MergeAssumption
    <2> QED
      BY <2>1 DEF Entry
  <1>3. ASSUME NEW i \in DOMAIN v
        PROVE  /\ on(i) \in Entry /\ on(i).id = m.id /\ on(i).pending = FALSE
               /\ on(i).content = m.content /\ on(i).own = m.own
               /\ ReceiptRank[on(i).status] >= ReceiptRank[v[i].status]
    <2>1. v[i].status \in DOMAIN ReceiptRank
      BY <1>1, EntryTypes
    <2>2. /\ MergeReceiptStatus(v[i].status, m.status) \in DOMAIN ReceiptRank
          /\ ReceiptRank[MergeReceiptStatus(v[i].status, m.status)] >= ReceiptRank[v[i].status]
      BY <1>2, <2>1, Ranks
    <2> QED
      BY <2>2 DEF Entry
  <1>4. ASSUME NEW t \in DOMAIN v, w = [v EXCEPT ![t] = on(t)],
               v[t].id = m.id \/ (v[t].id < 0 /\ exact = {} /\ SameDelivered(v[t], m, near))
        PROVE  /\ Puts(v, w, t, m.id)
               /\ w[t].content = m.content /\ w[t].own = m.own
               /\ ~w[t].pending /\ (v[t].id # m.id => SameDelivered(v[t], m, near))
    <2> HIDE DEF on, w
    <2>1. on(t) \in Entry
      BY <1>3
    <2>2. w \in Seq(Entry) /\ DOMAIN w = DOMAIN v /\ w[t] = on(t)
      BY <1>1, <1>4, <2>1
    <2>3. \A i \in DOMAIN v : i # t => w[i] = v[i]
      BY <1>1, <1>4
    <2>4. \A i \in DOMAIN v : v[i].id = m.id => i = t
      BY <1>4 DEF Tidy, WithId
    <2> QED
      BY <1>3, <1>4, <2>2, <2>3, <2>4 DEF Puts
  <1>5. CASE exact # {}
    <2>1. Min(exact) \in exact /\ Min(exact) \in DOMAIN v
      BY <1>1, <1>5, FirstOf
    <2>2. w = [v EXCEPT ![Min(exact)] = on(Min(exact))] /\ v[Min(exact)].id = m.id
      BY <1>5, <2>1 DEF Merge, WithId
    <2> HIDE DEF on, w, exact
    <2> QED
      BY <1>4, <2>1, <2>2 DEF w
  <1>6. CASE exact = {} /\ optimistic # {}
    <2>1. Min(optimistic) \in optimistic /\ Min(optimistic) \in DOMAIN v
      BY <1>1, <1>6, FirstOf
    <2>2. w = [v EXCEPT ![Min(optimistic)] = on(Min(optimistic))]
      BY <1>6 DEF Merge
    <2>3. v[Min(optimistic)].id < 0 /\ SameDelivered(v[Min(optimistic)], m, near)
      BY <2>1 DEF SameDelivered, Tidy
    <2> HIDE DEF on, w, exact, optimistic
    <2> QED
      BY <1>4, <1>6, <2>1, <2>2, <2>3 DEF w
  <1>7. CASE exact = {} /\ optimistic = {}
    <2>1. w = Append(v, m)
      BY <1>7 DEF Merge
    <2> DEFINE t == Len(v) + 1
    <2>2. /\ w \in Seq(Entry) /\ DOMAIN w = DOMAIN v \cup {t} /\ t \in DOMAIN w /\ t \notin DOMAIN v
          /\ w[t] = m /\ \A i \in DOMAIN v : w[i] = v[i]
      <3> HIDE DEF w
      <3> QED
        BY <1>1, <2>1
    <2> HIDE DEF w, t
    <2>3. Puts(v, w, t, m.id) /\ \A i \in DOMAIN v : ~SameDelivered(v[i], m, near)
      BY <1>7, <2>2 DEF Puts, WithId
    <2> QED
      BY <2>2, <2>3 DEF w
  <1> QED
    BY <1>5, <1>6, <1>7

\* What the browser makes of a message of the server.
LEMMA ServerEntry ==
    ASSUME TypeOK, Len(msgs) <= MaxMsg, NEW n \in DOMAIN msgs
    PROVE  /\ FromServer(n) \in Entry /\ FromServer(n).id = n /\ n \in Nat /\ n > 0
           /\ FromServer(n).pending = FALSE
           /\ FromServer(n).content = msgs[n].content /\ FromServer(n).own = msgs[n].own
  <1>1. n \in 1 .. Len(msgs) /\ Len(msgs) \in Nat
    BY DEF TypeOK
  <1>2. n \in (-MaxSend .. MaxMsg) \ {0}
    BY <1>1, MergeAssumption
  <1>3. /\ msgs[n].content \in Content /\ msgs[n].own \in BOOLEAN
    <2>1. msgs \in Seq(Sent)
      BY DEF TypeOK
    <2>2. msgs[n] \in Sent
      BY <2>1
    <2> QED
      BY <2>2 DEF Sent
  <1> QED
    BY <1>1, <1>2, <1>3 DEF FromServer, Entry, ReceiptRank

\* Merging one message of the server.
LEMMA MergeOne ==
    ASSUME TypeOK, Len(msgs) <= MaxMsg, NEW v, Tidy(v), NEW n \in DOMAIN msgs, NEW near
    PROVE  /\ Tidy(Merge(v, FromServer(n), near))
           /\ Follows(v, Merge(v, FromServer(n), near))
           /\ Shows(Merge(v, FromServer(n), near), n, msgs[n])
  <1> DEFINE m == FromServer(n)
             w == Merge(v, m, near)
  <1>1. /\ m \in Entry /\ m.id = n /\ n > 0 /\ m.pending = FALSE
        /\ m.content = msgs[n].content /\ m.own = msgs[n].own
    BY ServerEntry
  <1> HIDE DEF m
  <1>2. PICK t : /\ Puts(v, w, t, m.id)
                 /\ w[t].content = m.content /\ w[t].own = m.own
                 /\ w[t].pending => m.pending
    BY <1>1, MergePuts
  <1> HIDE DEF w
  <1>3. Shows(w, n, msgs[n])
    BY <1>1, <1>2 DEF Puts, Shows
  <1>4. Tidy(w)
    BY <1>1, <1>2, PutsTidy
  <1>5. Follows(v, w)
    BY <1>1, <1>2, <1>3, PutsFollows
  <1> QED
    BY <1>3, <1>4, <1>5 DEF w, m

\* The messages of the server.
LEMMA Numbers ==
    ASSUME TypeOK
    PROVE  /\ Len(msgs) \in Nat /\ DOMAIN msgs = 1 .. Len(msgs)
           /\ \A n \in DOMAIN msgs : n \in Nat /\ n > 0
           /\ Saved \subseteq DOMAIN msgs
           /\ \A S \in SUBSET DOMAIN msgs : IsFiniteSet(S) /\ Cardinality(S) \in Nat
  <1>1. Len(msgs) \in Nat /\ DOMAIN msgs = 1 .. Len(msgs)
    BY DEF TypeOK
  <1>2. IsFiniteSet(1 .. Len(msgs))
    BY <1>1, FS_Interval
  <1>3. \A S \in SUBSET DOMAIN msgs : IsFiniteSet(S) /\ Cardinality(S) \in Nat
    BY <1>1, <1>2, FS_Subset, FS_CardinalityType
  <1> QED
    BY <1>1, <1>3 DEF Saved

\* The send of a message of the server.
LEMMA SendType ==
    ASSUME TypeOK, NEW n \in DOMAIN msgs
    PROVE  msgs[n].send \in Nat /\ msgs[n].own \in BOOLEAN /\ msgs[n].content \in Content
  <1>1. msgs[n] \in Sent
    BY DEF TypeOK
  <1> QED
    BY <1>1, MergeAssumption DEF Sent

\* More sends that are parted.
LEMMA MatchedMore ==
    ASSUME NEW v, NEW P, NEW Q, Matched(v, P), P \subseteq Q
    PROVE  Matched(v, Q)
  BY DEF Matched

\* Entries that are marked or removed: what stops waiting is parted.
LEMMA MatchedLess ==
    ASSUME TypeOK, NEW v, NEW w, NEW P, NEW Q, Matched(v, P), P \subseteq Q, Tidy(v), Tidy(w),
           \A j \in DOMAIN w : \E i \in DOMAIN v :
               /\ w[j].id = v[i].id /\ w[j].content = v[i].content /\ w[j].own = v[i].own
               /\ w[j].pending => v[i].pending
               /\ v[i].pending => w[j].pending \/ -v[i].id \in Q
    PROVE  Matched(w, Q)
  <1>1. ASSUME NEW j \in DOMAIN w
        PROVE  w[j].id <= Len(msgs) /\ (w[j].pending => w[j].own)
    BY DEF Matched
  <1>2. ASSUME NEW j \in DOMAIN w, NEW l \in DOMAIN w, w[j].pending, w[l].pending,
               w[j].content = w[l].content
        PROVE  j = l
    <2>1. PICK i \in DOMAIN v : w[j].id = v[i].id /\ w[j].content = v[i].content /\ v[i].pending
      BY <1>2
    <2>2. PICK k \in DOMAIN v : w[l].id = v[k].id /\ w[l].content = v[k].content /\ v[k].pending
      BY <1>2
    <2>3. i = k
      BY <1>2, <2>1, <2>2 DEF Matched
    <2> QED
      BY <2>1, <2>2, <2>3 DEF Tidy
  <1>3. ASSUME NEW j \in DOMAIN w, NEW n \in DOMAIN msgs, msgs[n].own, msgs[n].send \notin Q,
               w[j].id = -msgs[n].send
        PROVE  w[j].pending /\ w[j].content = msgs[n].content /\ WithId(w, n) = {}
    <2>1. PICK i \in DOMAIN v : /\ w[j].id = v[i].id /\ w[j].content = v[i].content
                                /\ v[i].pending => w[j].pending \/ -v[i].id \in Q
      OBVIOUS
    <2>2. v[i].pending /\ v[i].content = msgs[n].content /\ WithId(v, n) = {}
      BY <1>3, <2>1 DEF Matched
    <2>3. -v[i].id = msgs[n].send
      BY <1>3, <2>1, SendType
    <2>4. WithId(w, n) = {}
      BY <2>2 DEF WithId
    <2> QED
      BY <1>3, <2>1, <2>2, <2>3, <2>4
  <1> QED
    BY <1>1, <1>2, <1>3 DEF Matched

\* Message n put in its place, beside no entry that still waits for it.
LEMMA MatchedPuts ==
    ASSUME TypeOK, SendsTrue, NEW v, NEW w, NEW t, NEW n \in DOMAIN msgs, NEW P, Matched(v, P),
           Puts(v, w, t, n), ~w[t].pending,
           msgs[n].own /\ msgs[n].send \notin P =>
               \A i \in DOMAIN v : i # t => v[i].id # -msgs[n].send
    PROVE  Matched(w, P)
  <1>1. \A i \in DOMAIN w : i # t => i \in DOMAIN v /\ w[i] = v[i] /\ v[i].id # n
    BY DEF Puts
  <1>2. n \in Nat /\ n > 0 /\ n <= Len(msgs) /\ w[t].id = n
    BY Numbers DEF Puts
  <1>3. ASSUME NEW i \in DOMAIN w
        PROVE  w[i].id <= Len(msgs) /\ (w[i].pending => w[i].own)
    BY <1>1, <1>2 DEF Matched
  <1>4. ASSUME NEW i \in DOMAIN w, NEW j \in DOMAIN w, w[i].pending, w[j].pending,
               w[i].content = w[j].content
        PROVE  i = j
    BY <1>1, <1>4 DEF Matched
  <1>5. ASSUME NEW i \in DOMAIN w, NEW m \in DOMAIN msgs, msgs[m].own, msgs[m].send \notin P,
               w[i].id = -msgs[m].send
        PROVE  w[i].pending /\ w[i].content = msgs[m].content /\ WithId(w, m) = {}
    <2>1. i # t
      <3>1. msgs[m].send \in Nat /\ ~(-msgs[m].send = n)
        BY <1>2, SendType
      <3> QED
        BY <1>2, <1>5, <3>1
    <2>2. w[i] = v[i] /\ i \in DOMAIN v
      BY <1>1, <2>1
    <2>3. v[i].pending /\ v[i].content = msgs[m].content /\ WithId(v, m) = {}
      BY <1>5, <2>2 DEF Matched
    <2>4. m # n
      BY <1>5, <2>1, <2>2
    <2>5. WithId(w, m) = {}
      BY <1>1, <1>2, <2>3, <2>4 DEF WithId
    <2> QED
      BY <2>2, <2>3, <2>5
  <1> QED
    BY <1>3, <1>4, <1>5 DEF Matched

\* Message n finds the entry of its send, or need not: it is not the user's, or that
\* entry is parted or gone.
Fits(v, n, near, P) ==
    \/ ~msgs[n].own \/ n \in near \/ msgs[n].send \in P
    \/ \A i \in DOMAIN v : v[i].id # -msgs[n].send

\* Merging such a message of the server.
LEMMA MatchedMerge ==
    ASSUME TypeOK, Len(msgs) <= MaxMsg, SendsTrue, NEW v, Tidy(v), NEW P, Matched(v, P),
           NEW n \in DOMAIN msgs, NEW near, Fits(v, n, near, P)
    PROVE  Matched(Merge(v, FromServer(n), near), P)
  <1> DEFINE m == FromServer(n)
             w == Merge(v, m, near)
  <1>1. /\ m \in Entry /\ m.id = n /\ n > 0 /\ m.pending = FALSE
        /\ m.content = msgs[n].content /\ m.own = msgs[n].own
    BY ServerEntry
  <1> HIDE DEF m
  <1>2. PICK t : /\ Puts(v, w, t, m.id)
                 /\ w[t].pending => m.pending
                 /\ t \in DOMAIN v => ~w[t].pending /\ (v[t].id # m.id => SameDelivered(v[t], m, near))
                 /\ t \notin DOMAIN v => w[t] = m /\ \A i \in DOMAIN v : ~SameDelivered(v[i], m, near)
    BY <1>1, MergePuts
  <1> HIDE DEF w
  <1>3. ASSUME msgs[n].own, msgs[n].send \notin P, NEW i \in DOMAIN v, i # t,
               v[i].id = -msgs[n].send
        PROVE  FALSE
    <2>1. v[i].pending /\ v[i].content = m.content /\ WithId(v, n) = {} /\ v[i].own
      BY <1>1, <1>3 DEF Matched
    <2>2. n \in near
      BY <1>3 DEF Fits
    <2>3. SameDelivered(v[i], m, near)
      BY <1>1, <1>3, <2>1, <2>2 DEF SameDelivered
    <2>4. t \in DOMAIN v /\ v[t].id # m.id
      BY <1>1, <1>2, <2>1, <2>3 DEF WithId
    <2>5. v[t].pending /\ v[t].content = m.content
      BY <1>2, <2>4 DEF SameDelivered
    <2> QED
      BY <1>3, <2>1, <2>4, <2>5 DEF Matched
  <1> QED
    BY <1>1, <1>2, <1>3, MatchedPuts DEF w, m

\* mergeConversationMessages(), given messages of the server, shows all of them and
\* loses nothing.
LEMMA MergeAll ==
    ASSUME TypeOK, Len(msgs) <= MaxMsg, NEW v, Tidy(v), NEW q \in Seq(DOMAIN msgs),
           NEW near, NEW P
    PROVE  LET w == MergeConversationMessages(v, [i \in DOMAIN q |-> FromServer(q[i])], near) IN
           /\ Tidy(w) /\ Follows(v, w)
           /\ \A i \in DOMAIN q : Shows(w, q[i], msgs[q[i]])
           /\ SendsTrue /\ Matched(v, P) /\ (\A i \in DOMAIN q : Fits(v, q[i], near, P)) => Matched(w, P)
  <1> DEFINE ms == [i \in DOMAIN q |-> FromServer(q[i])]
  <1>1. /\ ms \in Seq(Entry) /\ Len(ms) = Len(q) /\ DOMAIN q = 1 .. Len(q) /\ Len(q) \in Nat
        /\ \A i \in 1 .. Len(q) : ms[i] = FromServer(q[i]) /\ q[i] \in DOMAIN msgs
    <2>1. \A i \in DOMAIN q : q[i] \in DOMAIN msgs
      OBVIOUS
    <2>2. \A i \in DOMAIN q : FromServer(q[i]) \in Entry
      BY <2>1, ServerEntry
    <2>3. DOMAIN q = 1 .. Len(q) /\ Len(q) \in Nat
      OBVIOUS
    <2>4. ms \in Seq(Entry) /\ Len(ms) = Len(q)
      BY <2>2, <2>3
    <2> QED
      BY <2>1, <2>3, <2>4
  <1> HIDE DEF ms
  <1>2. PICK g : /\ g[0] = v
                 /\ \A i \in 1 .. Len(ms) : g[i] = Merge(g[i - 1], ms[i], near)
                 /\ MergeConversationMessages(v, ms, near) = g[Len(ms)]
    <2>1. ms \in Seq(Entry)
      BY <1>1
    <2> QED
      BY <2>1, MergeUnfolds
  <1> DEFINE fit == SendsTrue /\ Matched(v, P) /\ \A i \in DOMAIN q : Fits(v, q[i], near, P)
             So(k) == /\ Tidy(g[k]) /\ Follows(v, g[k])
                      /\ \A i \in 1 .. k : Shows(g[k], q[i], msgs[q[i]])
                      /\ fit => Matched(g[k], P)
             T == {k \in Nat : k <= Len(q) => So(k)}
  <1>3. So(0)
    BY <1>2, FollowsSelf
  <1>4. ASSUME NEW k \in 0 .. Len(q) - 1, So(k) PROVE So(k + 1)
    <2>1. k + 1 \in 1 .. Len(q) /\ q[k + 1] \in DOMAIN msgs
      BY <1>1
    <2>2. g[k + 1] = Merge(g[k], FromServer(q[k + 1]), near)
      <3>1. k + 1 \in 1 .. Len(ms) /\ (k + 1) - 1 = k
        BY <1>1, <2>1
      <3>2. g[k + 1] = Merge(g[(k + 1) - 1], ms[k + 1], near)
        BY <1>2, <3>1
      <3> QED
        BY <1>1, <2>1, <3>1, <3>2
    <2>3. /\ Tidy(g[k + 1]) /\ Follows(g[k], g[k + 1])
          /\ Shows(g[k + 1], q[k + 1], msgs[q[k + 1]])
      BY <1>4, <2>1, <2>2, MergeOne
    <2>4. Follows(v, g[k + 1])
      BY <1>4, <2>3, FollowsOn DEF Tidy
    <2>5. \A i \in 1 .. k + 1 : Shows(g[k + 1], q[i], msgs[q[i]])
      <3> SUFFICES ASSUME NEW i \in 1 .. k + 1 PROVE Shows(g[k + 1], q[i], msgs[q[i]])
        OBVIOUS
      <3>1. CASE i = k + 1
        BY <2>3, <3>1
      <3>2. CASE i # k + 1
        <4>1. i \in 1 .. k /\ i \in 1 .. Len(q)
          BY <1>1, <3>2
        <4>2. Shows(g[k], q[i], msgs[q[i]]) /\ q[i] \in DOMAIN msgs
          BY <1>1, <1>4, <4>1
        <4> QED
          BY <2>3, <4>2 DEF Follows
      <3> QED
        BY <3>1, <3>2
    <2>6. ASSUME fit PROVE Matched(g[k + 1], P)
      <3>1. Matched(g[k], P) /\ Fits(v, q[k + 1], near, P)
        BY <1>1, <1>4, <2>1, <2>6
      <3>2. Fits(g[k], q[k + 1], near, P)
        <4>1. \A j \in DOMAIN g[k] : g[k][j].id < 0 => \E i \in DOMAIN v : v[i].id = g[k][j].id
          BY <1>4 DEF Follows
        <4>2. PICK c \in Nat : c = msgs[q[k + 1]].send
          BY <2>1, SendType
        <4>3. msgs[q[k + 1]].own => -c < 0
          <5>1. sends \in Nat
            BY MergeAssumption DEF TypeOK
          <5>2. SendsTrue
            BY <2>6
          <5>3. msgs[q[k + 1]].own => c \in 1 .. sends
            BY <2>1, <4>2, <5>2 DEF SendsTrue
          <5> QED
            BY <5>1, <5>3
        <4> QED
          BY <3>1, <4>1, <4>2, <4>3 DEF Fits
      <3> QED
        BY <1>4, <2>1, <2>2, <2>6, <3>1, <3>2, MatchedMerge
    <2> QED
      BY <2>3, <2>4, <2>5, <2>6
  <1> HIDE DEF So
  <1>5. Len(q) \in T
    <2>1. T \in SUBSET Nat /\ 0 \in T
      BY <1>3
    <2>2. \A k \in T : k < Len(q) => k + 1 \in T
      BY <1>1, <1>4
    <2>3. Len(q) \in 0 .. Len(q)
      BY <1>1
    <2> HIDE DEF T
    <2> QED
      BY <1>1, <2>1, <2>2, <2>3, UpTo
  <1>6. So(Len(q))
    BY <1>1, <1>5
  <1> QED
    BY <1>1, <1>2, <1>6 DEF So, ms

\* A list w that has lost message n, and nothing else, from v.
Drops(v, w, n) ==
    /\ \A j \in DOMAIN w : \E i \in DOMAIN v : w[j] = v[i]
    /\ \A i \in DOMAIN v : v[i].id # n => \E j \in DOMAIN w : w[j] = v[i]

\* removeMessage() takes the message away, and nothing else.
LEMMA RemoveDrops ==
    ASSUME NEW v, Tidy(v), NEW n
    PROVE  Tidy(RemoveMessage(v, n)) /\ Drops(v, RemoveMessage(v, n), n)
  <1>1. v \in Seq(Entry) /\ Len(v) \in Nat /\ DOMAIN v = 1 .. Len(v)
    BY DEF Tidy
  <1>2. PICK g : /\ g[0] = <<>>
                 /\ \A i \in 1 .. Len(v) :
                       g[i] = IF v[i].id = n THEN g[i - 1] ELSE Append(g[i - 1], v[i])
                 /\ RemoveMessage(v, n) = g[Len(v)]
    BY <1>1, RemoveUnfolds
  <1> DEFINE So(k) == /\ Tidy(g[k])
                      /\ \A j \in DOMAIN g[k] : \E i \in 1 .. k : g[k][j] = v[i]
                      /\ \A i \in 1 .. k : v[i].id # n => \E j \in DOMAIN g[k] : g[k][j] = v[i]
             T == {k \in Nat : k <= Len(v) => So(k)}
  <1>3. So(0)
    BY <1>2 DEF Tidy
  <1>4. ASSUME NEW k \in 0 .. Len(v) - 1, So(k) PROVE So(k + 1)
    <2>1. /\ k + 1 \in 1 .. Len(v) /\ (k + 1) - 1 = k /\ k \in Nat
          /\ \A i \in 1 .. k + 1 : i \in DOMAIN v /\ (i \in 1 .. k \/ i = k + 1)
          /\ \A i \in 1 .. k : i \in 1 .. k + 1
      BY <1>1
    <2> DEFINE u == g[k]
               w == g[k + 1]
    <2>2. w = IF v[k + 1].id = n THEN u ELSE Append(u, v[k + 1])
      BY <1>2, <2>1
    <2>3. /\ Tidy(u)
          /\ \A j \in DOMAIN u : \E i \in 1 .. k : u[j] = v[i]
          /\ \A i \in 1 .. k : v[i].id # n => \E j \in DOMAIN u : u[j] = v[i]
      BY <1>4
    <2> HIDE DEF u, w
    <2>4. CASE v[k + 1].id = n
      <3>1. w = u
        BY <2>2, <2>4
      <3> QED
        BY <2>1, <2>3, <2>4, <3>1 DEF u, w
    <2>5. CASE v[k + 1].id # n
      <3>1. v[k + 1] \in Entry /\ u \in Seq(Entry) /\ w = Append(u, v[k + 1])
        BY <1>1, <2>1, <2>2, <2>3, <2>5 DEF Tidy
      <3> DEFINE t == Len(u) + 1
      <3>2. /\ w \in Seq(Entry) /\ DOMAIN w = DOMAIN u \cup {t} /\ t \in DOMAIN w
            /\ w[t] = v[k + 1] /\ \A i \in DOMAIN u : w[i] = u[i]
        BY <3>1
      <3> HIDE DEF t
      <3>3. \A j \in DOMAIN u : u[j].id # v[k + 1].id
        <4> SUFFICES ASSUME NEW j \in DOMAIN u, u[j].id = v[k + 1].id PROVE FALSE
          OBVIOUS
        <4>1. PICK i \in 1 .. k : u[j] = v[i]
          BY <2>3
        <4>2. i = k + 1
          BY <1>1, <2>1, <4>1 DEF Tidy
        <4> QED
          BY <2>1, <4>2
      <3>4. \A i, j \in DOMAIN w : w[i].id = w[j].id => i = j
        <4> SUFFICES ASSUME NEW i \in DOMAIN w, NEW j \in DOMAIN w, w[i].id = w[j].id
                     PROVE  i = j
          OBVIOUS
        <4>1. CASE i \in DOMAIN u /\ j \in DOMAIN u
          BY <2>3, <3>2, <4>1 DEF Tidy
        <4>2. CASE i = t \/ j = t
          BY <3>2, <3>3, <4>2
        <4> QED
          BY <3>2, <4>1, <4>2
      <3>5. \A i \in DOMAIN w : w[i].pending => w[i].id < 0
        BY <1>1, <2>1, <2>3, <3>2 DEF Tidy
      <3>6. Tidy(w)
        BY <3>2, <3>4, <3>5 DEF Tidy
      <3>7. \A j \in DOMAIN w : \E i \in 1 .. k + 1 : w[j] = v[i]
        <4> SUFFICES ASSUME NEW j \in DOMAIN w PROVE \E i \in 1 .. k + 1 : w[j] = v[i]
          OBVIOUS
        <4>1. CASE j = t
          BY <2>1, <3>2, <4>1
        <4>2. CASE j \in DOMAIN u
          BY <2>1, <2>3, <3>2, <4>2
        <4> QED
          BY <3>2, <4>1, <4>2
      <3>8. \A i \in 1 .. k + 1 : v[i].id # n => \E j \in DOMAIN w : w[j] = v[i]
        BY <2>1, <2>3, <3>2
      <3> QED
        BY <3>6, <3>7, <3>8 DEF w
    <2> QED
      BY <2>4, <2>5
  <1> HIDE DEF So
  <1>5. Len(v) \in T
    <2>1. T \in SUBSET Nat /\ 0 \in T
      BY <1>3
    <2>2. \A k \in T : k < Len(v) => k + 1 \in T
      BY <1>1, <1>4
    <2>3. Len(v) \in 0 .. Len(v)
      BY <1>1
    <2> HIDE DEF T
    <2> QED
      BY <1>1, <2>1, <2>2, <2>3, UpTo
  <1>6. So(Len(v))
    BY <1>1, <1>5
  <1> DEFINE w == g[Len(v)]
  <1>7. /\ Tidy(w)
        /\ \A j \in DOMAIN w : \E i \in 1 .. Len(v) : w[j] = v[i]
        /\ \A i \in 1 .. Len(v) : v[i].id # n => \E j \in DOMAIN w : w[j] = v[i]
    BY <1>6 DEF So
  <1> HIDE DEF w
  <1>8. Drops(v, w, n)
    BY <1>1, <1>7 DEF Drops
  <1> QED
    BY <1>2, <1>7, <1>8 DEF w

\* The own entries without an id.
Nameless(v) == {i \in DOMAIN v : v[i].own /\ v[i].id < 0}

\* A receipt marks message n at t, or gives its id to the first entry without one.
Receives(v, w, t, n) ==
    /\ t \in DOMAIN v /\ Puts(v, w, t, n) /\ ~w[t].pending
    /\ v[t].id = n \/ (WithId(v, n) = {} /\ Nameless(v) # {} /\ t = Min(Nameless(v)))

\* updateMessageReceiptStatus() marks the message, gives its id to one without, or
\* does nothing.
LEMMA ReceiptFollows ==
    ASSUME TypeOK, Len(msgs) <= MaxMsg, NEW v, Tidy(v), NEW n \in DOMAIN msgs
    PROVE  /\ Tidy(UpdateMessageReceiptStatus(v, n))
           /\ Follows(v, UpdateMessageReceiptStatus(v, n))
           /\ \/ UpdateMessageReceiptStatus(v, n) = v /\ WithId(v, n) = {}
              \/ \E t : Receives(v, UpdateMessageReceiptStatus(v, n), t, n)
  <1> DEFINE w == UpdateMessageReceiptStatus(v, n)
             exact == WithId(v, n)
             optimistic == {i \in DOMAIN v : v[i].own /\ v[i].id < 0}
             target == IF exact # {} THEN exact ELSE optimistic
             t == Min(target)
             on(i) == [v[i] EXCEPT !.id = n, !.pending = FALSE,
                                   !.status = MergeReceiptStatus(@, "delivered")]
  <1>1. v \in Seq(Entry) /\ target \in SUBSET DOMAIN v
    BY DEF Tidy, WithId
  <1>2. n \in Nat /\ n > 0 /\ n \in (-MaxSend .. MaxMsg) \ {0}
    <2>1. n \in 1 .. Len(msgs) /\ Len(msgs) \in Nat
      BY DEF TypeOK
    <2> QED
      BY <2>1, MergeAssumption
  <1>3. CASE target = {}
    <2>1. w = v /\ WithId(v, n) = {}
      BY <1>3 DEF UpdateMessageReceiptStatus
    <2> QED
      BY <2>1, FollowsSelf
  <1>4. CASE target # {}
    <2>1. t \in target /\ t \in DOMAIN v
      BY <1>1, <1>4, FirstOf
    <2>2. w = [v EXCEPT ![t] = on(t)]
      <3>1. w = IF target = {} THEN v ELSE [v EXCEPT ![t] = on(t)]
        BY Zenon DEF UpdateMessageReceiptStatus
      <3> HIDE DEF target, t, on, w
      <3> QED
        BY <1>4, <3>1
    <2>3. v[t].id = n \/ (v[t].id < 0 /\ exact = {} /\ optimistic # {} /\ t = Min(optimistic))
      BY <2>1 DEF WithId
    <2>4. /\ on(t) \in Entry /\ on(t).id = n /\ on(t).pending = FALSE
          /\ on(t).content = v[t].content /\ on(t).own = v[t].own
          /\ ReceiptRank[on(t).status] >= ReceiptRank[v[t].status]
      <3>1. v[t] \in Entry /\ v[t].status \in DOMAIN ReceiptRank
        BY <1>1, <2>1, EntryTypes
      <3>2. "delivered" \in DOMAIN ReceiptRank
        BY DEF ReceiptRank
      <3>3. /\ MergeReceiptStatus(v[t].status, "delivered") \in DOMAIN ReceiptRank
            /\ ReceiptRank[MergeReceiptStatus(v[t].status, "delivered")] >= ReceiptRank[v[t].status]
        BY <3>1, <3>2, Ranks
      <3> QED
        BY <1>2, <3>1, <3>3 DEF Entry
    <2>5. \A i \in DOMAIN v : v[i].id = n => i = t
      BY <2>1, <2>3 DEF Tidy, WithId
    <2>6. v[t].id = n \/ (WithId(v, n) = {} /\ Nameless(v) # {} /\ t = Min(Nameless(v)))
      BY <2>3 DEF Nameless
    <2> HIDE DEF on, w, t, target, exact, optimistic
    <2>7. w \in Seq(Entry) /\ DOMAIN w = DOMAIN v /\ w[t] = on(t)
      BY <1>1, <2>1, <2>2, <2>4
    <2>8. \A i \in DOMAIN v : i # t => w[i] = v[i]
      BY <1>1, <2>2
    <2>9. Puts(v, w, t, n)
      BY <2>1, <2>3, <2>4, <2>5, <2>7, <2>8 DEF Puts
    <2>10. Tidy(w)
      BY <2>4, <2>7, <2>9, PutsTidy
    <2>11. Shows(v, n, msgs[n]) => Shows(w, n, msgs[n])
      BY <2>1, <2>4, <2>5, <2>7 DEF Shows
    <2>12. Follows(v, w)
      BY <1>2, <2>9, <2>11, PutsFollows
    <2>13. Receives(v, w, t, n)
      BY <2>1, <2>4, <2>7, <2>9, <2>6 DEF Receives
    <2> QED
      BY <2>10, <2>12, <2>13 DEF w
  <1> QED
    BY <1>3, <1>4

\* Marking messages without moving or renaming any.
LEMMA MarkFollows ==
    ASSUME NEW v, Tidy(v), NEW w \in Seq(Entry), DOMAIN w = DOMAIN v,
           \A i \in DOMAIN v : /\ w[i].id = v[i].id /\ w[i].content = v[i].content
                               /\ w[i].own = v[i].own
                               /\ w[i].pending => v[i].pending
                               /\ ReceiptRank[w[i].status] >= ReceiptRank[v[i].status]
    PROVE  Tidy(w) /\ Follows(v, w)
  <1>1. Tidy(w)
    BY DEF Tidy
  <1>2. RanksUp(v, w)
    <2> SUFFICES ASSUME NEW i \in DOMAIN v, NEW j \in DOMAIN w, v[i].id = w[j].id
                 PROVE  ReceiptRank[w[j].status] >= ReceiptRank[v[i].status]
      BY DEF RanksUp
    <2>1. i = j
      BY DEF Tidy
    <2> QED
      BY <2>1
  <1>3. \A n \in DOMAIN msgs : Shows(v, n, msgs[n]) => Shows(w, n, msgs[n])
    BY DEF Shows
  <1> QED
    BY <1>1, <1>2, <1>3 DEF Follows

\* settleOptimisticMessage() only marks.
LEMMA SettleFollows ==
    ASSUME NEW v, Tidy(v), NEW k
    PROVE  Tidy(SettleOptimisticMessage(v, k)) /\ Follows(v, SettleOptimisticMessage(v, k))
  <1> DEFINE w == SettleOptimisticMessage(v, k)
             on(i) == IF v[i].id # -k THEN v[i]
                      ELSE [v[i] EXCEPT !.pending = FALSE, !.status = MergeReceiptStatus(@, "sent")]
  <1>1. v \in Seq(Entry) /\ DOMAIN v = 1 .. Len(v) /\ Len(v) \in Nat
    BY DEF Tidy
  <1>2. ASSUME NEW i \in DOMAIN v
        PROVE  /\ on(i) \in Entry
               /\ on(i).id = v[i].id /\ on(i).content = v[i].content /\ on(i).own = v[i].own
               /\ on(i).pending => v[i].pending
               /\ ReceiptRank[on(i).status] >= ReceiptRank[v[i].status]
    <2>1. v[i] \in Entry /\ v[i].status \in DOMAIN ReceiptRank
      BY <1>1, EntryTypes
    <2>2. ReceiptRank[v[i].status] \in Int
      BY <2>1, Ranks
    <2>3. "sent" \in DOMAIN ReceiptRank
      BY DEF ReceiptRank
    <2>4. /\ MergeReceiptStatus(v[i].status, "sent") \in DOMAIN ReceiptRank
          /\ ReceiptRank[MergeReceiptStatus(v[i].status, "sent")] >= ReceiptRank[v[i].status]
      BY <2>1, <2>3, Ranks
    <2>5. CASE v[i].id # -k
      BY <2>1, <2>2, <2>5
    <2>6. CASE v[i].id = -k
      <3>1. on(i) = [v[i] EXCEPT !.pending = FALSE, !.status = MergeReceiptStatus(@, "sent")]
        BY <2>6
      <3> HIDE DEF on
      <3> QED
        BY <2>1, <2>4, <3>1 DEF Entry
    <2> QED
      BY <2>5, <2>6
  <1>3. w = [i \in DOMAIN v |-> on(i)]
    BY DEF SettleOptimisticMessage
  <1> HIDE DEF w, on
  <1>4. /\ w \in Seq(Entry) /\ DOMAIN w = DOMAIN v /\ \A i \in DOMAIN v : w[i] = on(i)
    BY <1>1, <1>2, <1>3
  <1>5. Tidy(w) /\ Follows(v, w)
    BY <1>2, <1>4, MarkFollows
  <1> QED
    BY <1>5 DEF w

\* markConversationMessagesRead() only marks, and "read" is the last tick.
LEMMA ReadFollows ==
    ASSUME NEW v, Tidy(v), NEW future
    PROVE  /\ Tidy(MarkConversationMessagesRead(v, future))
           /\ Follows(v, MarkConversationMessagesRead(v, future))
  <1> DEFINE w == MarkConversationMessagesRead(v, future)
             on(i) == IF ~v[i].own \/ v[i].pending \/ i \in future THEN v[i]
                      ELSE [v[i] EXCEPT !.status = "read"]
  <1>1. v \in Seq(Entry) /\ DOMAIN v = 1 .. Len(v) /\ Len(v) \in Nat
    BY DEF Tidy
  <1>2. ASSUME NEW i \in DOMAIN v
        PROVE  /\ on(i) \in Entry
               /\ on(i).id = v[i].id /\ on(i).content = v[i].content /\ on(i).own = v[i].own
               /\ on(i).pending => v[i].pending
               /\ ReceiptRank[on(i).status] >= ReceiptRank[v[i].status]
    <2>1. v[i] \in Entry /\ v[i].status \in DOMAIN ReceiptRank
      BY <1>1, EntryTypes
    <2>2. ReceiptRank[v[i].status] \in Int /\ ReceiptRank[v[i].status] <= ReceiptRank["read"]
      BY <2>1, Ranks
    <2>3. "read" \in DOMAIN ReceiptRank /\ ReceiptRank["read"] \in Int
      BY DEF ReceiptRank
    <2> QED
      BY <2>1, <2>2, <2>3 DEF Entry
  <1>3. w = [i \in DOMAIN v |-> on(i)]
    BY DEF MarkConversationMessagesRead
  <1> HIDE DEF w, on
  <1>4. /\ w \in Seq(Entry) /\ DOMAIN w = DOMAIN v /\ \A i \in DOMAIN v : w[i] = on(i)
    BY <1>1, <1>2, <1>3
  <1>5. Tidy(w) /\ Follows(v, w)
    BY <1>2, <1>4, MarkFollows
  <1> QED
    BY <1>5 DEF w

-----------------------------------------------------------------------------
(***************************************************************************)
(* Pages.                                                                  *)
(***************************************************************************)

\* What a page leaves out of the older messages is older than all of it, and the page
\* is full then.
LEMMA PageFull ==
    ASSUME TypeOK, NEW c \in Nat, NEW n \in Saved, c = None \/ n < c
    PROVE  \/ n \in NewestBefore(c)
           \/ Cardinality(NewestBefore(c)) = PageSize /\ \A m \in NewestBefore(c) : n < m
  <1> DEFINE older == {o \in Saved : c = None \/ o < c}
             from(k) == {o \in older : o >= k}
             p == {o \in older : Cardinality(from(o)) <= PageSize}
  <1>1. p = NewestBefore(c)
    BY DEF NewestBefore
  <1>2. older \subseteq DOMAIN msgs /\ n \in older /\ \A o \in older : o \in Nat
    BY Numbers
  <1>3. \A k : /\ from(k) \subseteq older
               /\ \A o \in older : o >= k <=> o \in from(k)
    OBVIOUS
  <1>4. PageSize \in Nat /\ PageSize # 0
    BY MergeAssumption
  <1>5. \A o \in older : o \in p <=> Cardinality(from(o)) <= PageSize
    OBVIOUS
  <1>6. p \subseteq older
    OBVIOUS
  <1> HIDE DEF older, from, p
  <1>7. \A S \in SUBSET older : IsFiniteSet(S) /\ Cardinality(S) \in Nat
    BY <1>2, Numbers
  <1>8. \A k : IsFiniteSet(from(k)) /\ Cardinality(from(k)) \in Nat
    BY <1>3, <1>7
  <1>9. \A o, k \in older : o >= k => Cardinality(from(o)) <= Cardinality(from(k))
    <2> SUFFICES ASSUME NEW o \in older, NEW k \in older, o >= k
                 PROVE  Cardinality(from(o)) <= Cardinality(from(k))
      OBVIOUS
    <2>1. from(o) \subseteq from(k)
      BY <1>2, <1>3
    <2> QED
      BY <1>8, <2>1, FS_Subset
  <1>10. \A o, k \in older : k \in p /\ o >= k => o \in p
    BY <1>4, <1>5, <1>8, <1>9
  <1> SUFFICES ASSUME n \notin p
               PROVE  Cardinality(p) = PageSize /\ \A m \in p : n < m
    BY <1>1
  <1>11. \A m \in p : n < m
    BY <1>2, <1>6, <1>10
  <1> DEFINE out == older \ p
  <1>12. PICK k \in out : \A o \in out : o <= k
    <2>1. Len(msgs) \in Nat /\ out \in SUBSET (0 .. Len(msgs)) /\ out # {}
      BY <1>2, Numbers
    <2> HIDE DEF out
    <2> QED
      BY <2>1, GreatestNat
  <1>13. k \in older /\ k \notin p /\ k \in Nat
    BY <1>2
  <1>14. from(k) = p \cup {k}
    <2>1. ASSUME NEW o \in from(k) PROVE o \in p \cup {k}
      <3>1. o \in older /\ o >= k /\ o \in Nat
        BY <1>2, <1>3
      <3>2. CASE o \in p
        BY <3>2
      <3>3. CASE o \notin p
        <4>1. o <= k
          BY <1>12, <3>1, <3>3
        <4> QED
          BY <1>13, <3>1, <4>1
      <3> QED
        BY <3>2, <3>3
    <2>2. ASSUME NEW o \in p PROVE o \in from(k)
      <3>1. o \in older /\ o \in Nat
        BY <1>2, <1>6
      <3>2. ~(k >= o)
        BY <1>10, <1>13, <3>1
      <3> QED
        BY <1>3, <1>13, <3>1, <3>2
    <2>3. k \in from(k)
      BY <1>3, <1>13
    <2> QED
      BY <2>1, <2>2, <2>3
  <1>15. IsFiniteSet(p) /\ Cardinality(p) \in Nat
    BY <1>6, <1>7
  <1>16. Cardinality(from(k)) = Cardinality(p) + 1
    BY <1>13, <1>14, <1>15, FS_AddElement
  <1>17. Cardinality(p) >= PageSize
    <2>1. ~(Cardinality(from(k)) <= PageSize)
      BY <1>5, <1>13
    <2> QED
      BY <1>4, <1>15, <1>16, <2>1
  <1>18. Cardinality(p) <= PageSize
    <2>1. p # {}
      <3>1. Cardinality(p) # 0
        BY <1>4, <1>15, <1>17
      <3> QED
        BY <3>1, FS_EmptySet
    <2>2. p \in SUBSET Nat
      BY <1>2, <1>6
    <2>3. PICK x \in p : \A y \in p : x <= y
      BY <2>1, <2>2, LeastNat
    <2>4. p \subseteq from(x)
      BY <1>3, <1>6, <2>2, <2>3
    <2>5. Cardinality(p) <= Cardinality(from(x))
      BY <1>8, <2>4, FS_Subset
    <2>6. Cardinality(from(x)) <= PageSize
      BY <1>5, <1>6
    <2> QED
      BY <1>4, <1>8, <1>15, <2>5, <2>6
  <1> QED
    BY <1>4, <1>11, <1>15, <1>17, <1>18

-----------------------------------------------------------------------------
(***************************************************************************)
(* The steps.                                                              *)
(***************************************************************************)

\* A new list that follows the old one.
LEMMA ListStep ==
    ASSUME MergeInv, Tidy(view'), Follows(view, view'), sends' = sends
    PROVE  TempIds' /\ \A n \in got : Shows(view', n, msgs[n])
  <1>1. Tidy(view) /\ TempIds /\ TypeOK /\ sends \in Nat
    BY MergeAssumption DEF MergeInv, ListInv, TypeOK
  <1>2. ASSUME NEW j \in DOMAIN view' PROVE -view'[j].id <= sends
    <2>1. view'[j].id \in Int /\ view'[j].id # 0
      BY EntryTypes DEF Tidy
    <2>2. CASE view'[j].id > 0
      BY <1>1, <2>2, <2>1
    <2>3. CASE view'[j].id < 0
      <3>1. PICK i \in DOMAIN view : view[i].id = view'[j].id
        BY <2>3 DEF Follows
      <3> QED
        BY <1>1, <3>1 DEF TempIds
    <2> QED
      BY <2>1, <2>2, <2>3
  <1>3. TempIds'
    BY <1>2 DEF TempIds
  <1>4. \A n \in got : n \in DOMAIN msgs /\ Shows(view, n, msgs[n])
    BY <1>1 DEF MergeInv, ListInv, TypeOK
  <1> QED
    BY <1>3, <1>4 DEF Follows

\* The steps that do not touch the paging, nor delete or save.
LEMMA PagingStep ==
    ASSUME MergeInv, UNCHANGED <<history, msgs, page, base>>, got \subseteq got', news' \subseteq news
    PROVE  PagingInv'
  <1>1. Saved' = Saved
    BY DEF Saved
  <1> QED
    BY <1>1 DEF MergeInv, PagingInv, DeletesTrue, PagedSoFar, PageNext

\* A send that is parted from its message has an entry.
LEMMA PartType ==
    ASSUME TypeOK, NEW ks \in SUBSET Nat
    PROVE  Part(ks) \subseteq 1 .. MaxSend
  <1>1. view \in Seq(Entry) /\ parted \subseteq 1 .. MaxSend /\ MaxSend \in Nat
    BY MergeAssumption DEF TypeOK
  <1>2. ASSUME NEW k \in ks, WithId(view, -k) # {} PROVE k \in 1 .. MaxSend
    <2>1. PICK i \in DOMAIN view : view[i].id = -k
      BY <1>2 DEF WithId
    <2>2. view[i].id # 0 /\ -MaxSend <= view[i].id /\ k \in Nat
      BY <1>1, EntryTypes
    <2> QED
      BY <1>1, <2>1, <2>2
  <1> QED
    BY <1>1, <1>2 DEF Part

\* A message the server takes is new: nobody has been given it.
LEMMA TakeStep ==
    ASSUME MergeInv, NEW text \in Content, NEW send \in 0 .. MaxSend,
           NEW event \in {"chat", "delivered"}, Take(text, send, event),
           UNCHANGED <<history, page, base, got>>
    PROVE  /\ msgs' \in Seq(Sent)
           /\ Len(msgs') <= MaxMsg /\ Len(msgs) <= Len(msgs')
           /\ DOMAIN msgs \subseteq DOMAIN msgs' /\ \A n \in DOMAIN msgs : msgs'[n] = msgs[n]
           /\ \A n \in DOMAIN msgs' : n \notin DOMAIN msgs =>
                 /\ n = Len(msgs) + 1 /\ msgs'[n].send = send /\ msgs'[n].own = (send # 0)
                 /\ msgs'[n].content = text
           /\ news' = news \cup {[type |-> event, id |-> Len(msgs) + 1]}
           /\ news' \subseteq [type : {"chat", "delivered", "delete"}, id : DOMAIN msgs']
           /\ PagingInv'
  <1> DEFINE x == [send |-> send, own |-> send # 0, content |-> text, life |-> "new"]
             k == Len(msgs) + 1
  <1>1. msgs' = Append(msgs, x) /\ Len(msgs) < MaxMsg
    BY DEF Take
  <1>2. /\ x \in Sent /\ x.life = "new" /\ x.send = send /\ x.own = (send # 0) /\ x.content = text
        /\ msgs \in Seq(Sent)
    BY DEF MergeInv, TypeOK, Sent
  <1> HIDE DEF x
  <1>3. /\ msgs' \in Seq(Sent) /\ Len(msgs') = k /\ DOMAIN msgs' = DOMAIN msgs \cup {k}
        /\ k \notin DOMAIN msgs /\ msgs'[k] = x
        /\ \A n \in DOMAIN msgs : msgs'[n] = msgs[n]
    BY <1>1, <1>2
  <1>4. Len(msgs') <= MaxMsg /\ Len(msgs) <= Len(msgs')
    <2>1. Len(msgs) \in Nat /\ MaxMsg \in Nat
      BY <1>2, MergeAssumption
    <2> QED
      BY <1>1, <1>3, <2>1
  <1>5. news' = news \cup {[type |-> event, id |-> k]}
    BY <1>3 DEF Take
  <1>6. news \subseteq [type : {"chat", "delivered", "delete"}, id : DOMAIN msgs]
    BY DEF MergeInv, TypeOK
  <1> HIDE DEF k
  <1>7. news' \subseteq [type : {"chat", "delivered", "delete"}, id : DOMAIN msgs']
    BY <1>3, <1>5, <1>6
  <1>8. Saved' = Saved
    BY <1>2, <1>3 DEF Saved
  <1>9. DeletesTrue'
    <2> SUFFICES ASSUME NEW n \in DOMAIN msgs', [type |-> "delete", id |-> n] \in news'
                 PROVE  msgs'[n].life = "deleted"
      BY DEF DeletesTrue
    <2>1. [type |-> "delete", id |-> n] \in news
      BY <1>5
    <2>2. n \in DOMAIN msgs
      BY <1>6, <2>1
    <2> QED
      BY <1>3, <2>1, <2>2 DEF MergeInv, PagingInv, DeletesTrue
  <1>10. \A n \in base : msgs'[n].life # "new"
    BY <1>3 DEF MergeInv, PagingInv, TypeOK
  <1>11. PagedSoFar' /\ PageNext'
    BY <1>8 DEF MergeInv, PagingInv, PagedSoFar, PageNext
  <1> QED
    BY <1>2, <1>3, <1>4, <1>5, <1>7, <1>9, <1>10, <1>11 DEF PagingInv, k

\* Merging a list of one message.
LEMMA MergeSingle ==
    ASSUME NEW v, NEW m \in Entry, NEW near
    PROVE  MergeConversationMessages(v, <<m>>, near) = Merge(v, m, near)
  <1> DEFINE ms == <<m>>
  <1>1. ms \in Seq(Entry) /\ Len(ms) = 1 /\ ms[1] = m
    OBVIOUS
  <1> HIDE DEF ms
  <1>2. PICK g : /\ g[0] = v
                 /\ \A i \in 1 .. Len(ms) : g[i] = Merge(g[i - 1], ms[i], near)
                 /\ MergeConversationMessages(v, ms, near) = g[Len(ms)]
    BY <1>1, MergeUnfolds
  <1>3. g[1] = Merge(g[0], m, near)
    <2>1. 1 \in 1 .. Len(ms) /\ 1 - 1 = 0
      BY <1>1
    <2>2. g[1] = Merge(g[1 - 1], ms[1], near)
      BY <1>2, <2>1
    <2> QED
      BY <1>1, <2>1, <2>2
  <1> QED
    BY <1>1, <1>2, <1>3 DEF ms

\* handleSend() shows the message under an id that was not used before.
LEMMA HandleSendInv ==
    ASSUME MergeInv, NEW text \in Content, HandleSend(text)
    PROVE  MergeInv' /\ RanksUp(view, view')
  <1> DEFINE k == sends + 1
             m == Optimistic(k, text)
  <1>1. /\ sends \in Nat /\ sends < MaxSend /\ sends' = k /\ Tidy(view) /\ TypeOK
        /\ UNCHANGED <<history, page, base, got>>
    BY MergeAssumption DEF MergeInv, ListInv, TypeOK, HandleSend
  <1>2. /\ m \in Entry /\ m.id = -k /\ m.pending = TRUE
    <2>1. -k \in (-MaxSend .. MaxMsg) \ {0}
      BY <1>1, MergeAssumption
    <2> QED
      BY <2>1 DEF Optimistic, Entry, ReceiptRank
  <1>3. view' = Merge(view, m, {-k})
    <2>1. view' = MergeConversationMessages(view, <<m>>, {m.id})
      BY <1>1 DEF HandleSend
    <2> HIDE DEF m
    <2> QED
      BY <2>1, <1>2, MergeSingle
  <1> HIDE DEF m, k
  <1>4. k \in Nat /\ k > 0 /\ k <= MaxSend /\ -k < 0
    BY <1>1, MergeAssumption DEF k
  <1>5. PICK t : Puts(view, view', t, -k)
    <2>1. PICK t : Puts(view, Merge(view, m, {-k}), t, m.id)
      BY <1>1, <1>2, <1>4, MergePuts
    <2> QED
      BY <1>2, <1>3, <2>1
  <1>6. Tidy(view')
    BY <1>1, <1>4, <1>5, PutsTidy
  <1>7. RanksUp(view, view')
    BY <1>1, <1>5, PutsRanks
  <1>8. TempIds'
    <2> SUFFICES ASSUME NEW j \in DOMAIN view' PROVE -view'[j].id <= sends'
      BY DEF TempIds
    <2>1. CASE j = t
      BY <1>1, <1>4, <1>5, <2>1 DEF Puts
    <2>2. CASE j # t
      <3>1. j \in DOMAIN view /\ view'[j] = view[j]
        BY <1>5, <2>2 DEF Puts
      <3>2. view[j].id \in Int /\ -view[j].id <= sends
        BY <1>1, <3>1, EntryTypes DEF MergeInv, ListInv, TempIds, Tidy
      <3> QED
        BY <1>1, <3>1, <3>2 DEF k
    <2> QED
      BY <2>1, <2>2
  <1>9. ASSUME NEW n \in got PROVE Shows(view', n, msgs[n])
    <2>1. n \in DOMAIN msgs /\ Shows(view, n, msgs[n]) /\ n \in Nat /\ n > 0
      BY <1>1, Numbers DEF MergeInv, ListInv, TypeOK
    <2>2. PICK i \in DOMAIN view : /\ view[i].id = n /\ view[i].content = msgs[n].content
                                   /\ view[i].own = msgs[n].own
      BY <2>1 DEF Shows
    <2>3. i # t
      <3> SUFFICES ASSUME i = t PROVE FALSE
        OBVIOUS
      <3>1. n = -k \/ n < 0
        BY <1>5, <2>2 DEF Puts
      <3> QED
        BY <1>4, <2>1, <3>1
    <2> QED
      BY <1>5, <2>2, <2>3 DEF Puts, Shows
  <1>10. /\ msgs' \in Seq(Sent)
         /\ Len(msgs') <= MaxMsg
         /\ DOMAIN msgs \subseteq DOMAIN msgs' /\ \A n \in DOMAIN msgs : msgs'[n] = msgs[n]
         /\ news' \subseteq [type : {"chat", "delivered", "delete"}, id : DOMAIN msgs']
         /\ PagingInv'
    <2>1. CASE ServerTakes(text)
      <3>1. Take(text, sends', "delivered") /\ sends' \in 0 .. MaxSend
        BY <1>1, <1>4, <2>1 DEF ServerTakes
      <3> QED
        BY <1>1, <3>1, TakeStep
    <2>2. CASE ServerLoses
      <3>1. UNCHANGED <<msgs, news>>
        BY <2>2 DEF ServerLoses, server
      <3>2. PagingInv'
        BY <1>1, <3>1, PagingStep
      <3> QED
        BY <1>1, <3>1, <3>2 DEF MergeInv, TypeOK
    <2> QED
      BY <2>1, <2>2 DEF HandleSend
  <1>11. TypeOK'
    <2>1. page \subseteq DOMAIN msgs /\ base \subseteq DOMAIN msgs /\ got \subseteq DOMAIN msgs
      BY <1>1 DEF TypeOK
    <2>2. view' \in Seq(Entry)
      BY <1>6 DEF Tidy
    <2>3. sends' \in 0 .. MaxSend /\ sends' \in 1 .. MaxSend
      BY <1>1, <1>4
    <2>4. parted' \subseteq 1 .. MaxSend
      <3>1. parted \subseteq 1 .. MaxSend /\ parted' \subseteq parted \cup {sends'}
        BY <1>1 DEF HandleSend, TypeOK
      <3> QED
        BY <2>3, <3>1
    <2> QED
      BY <1>1, <1>10, <2>1, <2>2, <2>3, <2>4 DEF TypeOK
  <1>12. \A n \in got' : Shows(view', n, msgs'[n])
    BY <1>1, <1>9, <1>10 DEF TypeOK
  <1> QED
    BY <1>6, <1>7, <1>8, <1>10, <1>11, <1>12 DEF MergeInv, ListInv

\* A list that does not change: no tick goes back.
LEMMA ListStays ==
    ASSUME MergeInv, view' = view
    PROVE  RanksUp(view, view')
  BY FollowsSelf DEF MergeInv, ListInv, Follows

\* The other user's message.
LEMMA PeerSendsInv ==
    ASSUME MergeInv, NEW text \in Content, PeerSends(text)
    PROVE  MergeInv'
  <1>1. /\ UNCHANGED <<view, history, sends, page, base, got, parted>> /\ Take(text, 0, "chat")
        /\ TypeOK /\ ListInv
    BY DEF PeerSends, browser, ghosts, MergeInv
  <1>2. /\ msgs' \in Seq(Sent)
        /\ Len(msgs') <= MaxMsg
        /\ DOMAIN msgs \subseteq DOMAIN msgs' /\ \A n \in DOMAIN msgs : msgs'[n] = msgs[n]
        /\ news' \subseteq [type : {"chat", "delivered", "delete"}, id : DOMAIN msgs']
        /\ PagingInv'
    BY <1>1, TakeStep, MergeAssumption
  <1>3. page \subseteq DOMAIN msgs /\ base \subseteq DOMAIN msgs /\ got \subseteq DOMAIN msgs
    BY <1>1 DEF TypeOK
  <1>4. TypeOK'
    BY <1>1, <1>2, <1>3 DEF TypeOK
  <1>5. \A n \in got' : Shows(view', n, msgs'[n])
    BY <1>1, <1>2, <1>3 DEF ListInv
  <1>6. ListInv'
    BY <1>1, <1>5 DEF ListInv, Tidy, TempIds
  <1> QED
    BY <1>2, <1>4, <1>6 DEF MergeInv

\* A change to the life of one message.
LEMMA LifeStep ==
    ASSUME TypeOK, NEW n \in DOMAIN msgs, NEW l \in {"saved", "deleted"},
           msgs' = [msgs EXCEPT ![n].life = l]
    PROVE  /\ msgs' \in Seq(Sent)
           /\ Len(msgs') = Len(msgs) /\ DOMAIN msgs' = DOMAIN msgs
           /\ msgs'[n].life = l
           /\ \A k \in DOMAIN msgs : /\ msgs'[k].content = msgs[k].content
                                     /\ msgs'[k].own = msgs[k].own
                                     /\ msgs'[k].send = msgs[k].send
                                     /\ k # n => msgs'[k] = msgs[k]
  <1> DEFINE x == [msgs[n] EXCEPT !.life = l]
  <1>1. msgs \in Seq(Sent)
    BY DEF TypeOK
  <1>2. msgs[n] \in Sent
    BY <1>1
  <1>3. /\ x \in Sent /\ x.life = l /\ x.content = msgs[n].content /\ x.own = msgs[n].own
        /\ x.send = msgs[n].send
    BY <1>2 DEF Sent
  <1>4. msgs' = [msgs EXCEPT ![n] = x]
    OBVIOUS
  <1> HIDE DEF x
  <1>5. /\ msgs' \in Seq(Sent) /\ Len(msgs') = Len(msgs) /\ DOMAIN msgs' = DOMAIN msgs
        /\ msgs'[n] = x /\ \A k \in DOMAIN msgs : k # n => msgs'[k] = msgs[k]
    BY <1>1, <1>3, <1>4
  <1> QED
    BY <1>3, <1>5

\* The store saves a message: nothing that was read before held it.
LEMMA SaveInv ==
    ASSUME MergeInv, NEW n, Save(n)
    PROVE  MergeInv'
  <1>1. /\ UNCHANGED <<view, history, sends, news, page, base, got, parted>>
        /\ n \in DOMAIN msgs /\ msgs[n].life = "new" /\ msgs' = [msgs EXCEPT ![n].life = "saved"]
        /\ TypeOK /\ ListInv /\ PagingInv /\ Len(msgs) <= MaxMsg
    BY DEF Save, browser, ghosts, MergeInv
  <1>2. /\ msgs' \in Seq(Sent)
        /\ Len(msgs') = Len(msgs) /\ DOMAIN msgs' = DOMAIN msgs
        /\ msgs'[n].life = "saved"
        /\ \A k \in DOMAIN msgs : /\ msgs'[k].content = msgs[k].content
                                  /\ msgs'[k].own = msgs[k].own
                                  /\ msgs'[k].send = msgs[k].send
                                  /\ k # n => msgs'[k] = msgs[k]
    BY <1>1, LifeStep
  <1>3. base \subseteq DOMAIN msgs /\ got \subseteq DOMAIN msgs
    BY <1>1 DEF TypeOK
  <1>4. TypeOK'
    BY <1>1, <1>2 DEF TypeOK
  <1>5. ListInv'
    BY <1>1, <1>2, <1>3 DEF ListInv, Tidy, TempIds, Shows
  <1>6. base \cap Saved' = base \cap Saved
    BY <1>1, <1>2, <1>3 DEF PagingInv, Saved
  <1>7. \A k \in base : msgs'[k].life # "new"
    BY <1>1, <1>2, <1>3 DEF PagingInv
  <1>8. DeletesTrue'
    BY <1>1, <1>2 DEF PagingInv, DeletesTrue
  <1>9. PagedSoFar' /\ PageNext'
    BY <1>1, <1>6 DEF PagingInv, PagedSoFar, PageNext
  <1> QED
    BY <1>1, <1>2, <1>4, <1>5, <1>7, <1>8, <1>9 DEF MergeInv, PagingInv

\* The server deletes a message and says so.
LEMMA DeleteInv ==
    ASSUME MergeInv, NEW n, Delete(n)
    PROVE  MergeInv'
  <1>1. /\ UNCHANGED <<view, history, sends, page, base, got, parted>>
        /\ n \in DOMAIN msgs /\ msgs[n].life = "saved" /\ msgs' = [msgs EXCEPT ![n].life = "deleted"]
        /\ news' = news \cup {[type |-> "delete", id |-> n]}
        /\ TypeOK /\ ListInv /\ PagingInv /\ Len(msgs) <= MaxMsg
    BY DEF Delete, Saved, browser, ghosts, MergeInv
  <1>2. /\ msgs' \in Seq(Sent)
        /\ Len(msgs') = Len(msgs) /\ DOMAIN msgs' = DOMAIN msgs
        /\ msgs'[n].life = "deleted"
        /\ \A k \in DOMAIN msgs : /\ msgs'[k].content = msgs[k].content
                                  /\ msgs'[k].own = msgs[k].own
                                  /\ msgs'[k].send = msgs[k].send
                                  /\ k # n => msgs'[k] = msgs[k]
    BY <1>1, LifeStep
  <1>3. base \subseteq DOMAIN msgs /\ got \subseteq DOMAIN msgs
    BY <1>1 DEF TypeOK
  <1>4. TypeOK'
    <2>1. news' \subseteq [type : {"chat", "delivered", "delete"}, id : DOMAIN msgs']
      BY <1>1, <1>2 DEF TypeOK
    <2> QED
      BY <1>1, <1>2, <2>1 DEF TypeOK
  <1>5. ListInv'
    BY <1>1, <1>2, <1>3 DEF ListInv, Tidy, TempIds, Shows
  <1>6. base \cap Saved' \subseteq base \cap Saved
    BY <1>1, <1>2, <1>3 DEF Saved
  <1>7. \A k \in base : msgs'[k].life # "new"
    BY <1>1, <1>2, <1>3 DEF PagingInv
  <1>8. DeletesTrue'
    <2> SUFFICES ASSUME NEW k \in DOMAIN msgs, [type |-> "delete", id |-> k] \in news'
                 PROVE  msgs'[k].life = "deleted"
      BY <1>2 DEF DeletesTrue
    <2>1. CASE k = n
      BY <1>2, <2>1
    <2>2. CASE k # n
      BY <1>1, <1>2, <2>2 DEF PagingInv, DeletesTrue
    <2> QED
      BY <2>1, <2>2
  <1>9. PagedSoFar' /\ PageNext'
    BY <1>1, <1>6 DEF PagingInv, PagedSoFar, PageNext
  <1> QED
    BY <1>1, <1>2, <1>4, <1>5, <1>7, <1>8, <1>9 DEF MergeInv, PagingInv

\* The steps that only mark or put messages of the server.
LEMMA MarkStep ==
    ASSUME MergeInv, Tidy(view'), Follows(view, view'),
           UNCHANGED <<history, sends, msgs, page, base>>, news' \subseteq news,
           \A n \in got' : n \in got \/ (n \in DOMAIN msgs /\ Shows(view', n, msgs[n])),
           got \subseteq got', parted' \subseteq 1 .. MaxSend
    PROVE  MergeInv' /\ RanksUp(view, view')
  <1>1. TempIds' /\ \A n \in got : Shows(view', n, msgs[n])
    BY ListStep
  <1>2. PagingInv'
    BY PagingStep
  <1>3. \A n \in got' : Shows(view', n, msgs'[n])
    BY <1>1
  <1>4. TypeOK'
    <2>1. got \subseteq DOMAIN msgs /\ page \subseteq DOMAIN msgs /\ base \subseteq DOMAIN msgs
      BY DEF MergeInv, TypeOK
    <2>2. got' \subseteq DOMAIN msgs
      BY <2>1
    <2> QED
      BY <2>1, <2>2 DEF MergeInv, TypeOK, Tidy
  <1> QED
    BY <1>1, <1>2, <1>3, <1>4 DEF MergeInv, ListInv, Follows

\* The timeout of a send.
LEMMA SettleInv ==
    ASSUME MergeInv, NEW k \in Nat, Settle(k)
    PROVE  MergeInv' /\ RanksUp(view, view')
  <1>1. /\ UNCHANGED <<history, sends, msgs, news, page, base, got>>
        /\ view' = SettleOptimisticMessage(view, k) /\ Tidy(view)
    BY DEF Settle, server, MergeInv, ListInv
  <1>2. Tidy(view') /\ Follows(view, view')
    BY <1>1, SettleFollows
  <1>3. parted' \subseteq 1 .. MaxSend
    BY PartType DEF Settle, MergeInv
  <1> QED
    BY <1>1, <1>2, <1>3, MarkStep

\* A read receipt.
LEMMA OnReadInv ==
    ASSUME MergeInv, OnRead
    PROVE  MergeInv' /\ RanksUp(view, view')
  <1>1. /\ UNCHANGED <<history, sends, msgs, news, page, base, got>> /\ Tidy(view)
    BY DEF OnRead, server, ghosts, MergeInv, ListInv
  <1>2. PICK future : view' = MarkConversationMessagesRead(view, future)
    BY DEF OnRead
  <1>3. Tidy(view') /\ Follows(view, view')
    BY <1>1, <1>2, ReadFollows
  <1>4. parted' \subseteq 1 .. MaxSend
    BY DEF OnRead, ghosts, MergeInv, TypeOK
  <1> QED
    BY <1>1, <1>3, <1>4, MarkStep

\* A delivery receipt, of a message the browser knows or not.
LEMMA OnDeliveredInv ==
    ASSUME MergeInv, NEW n, OnDelivered(n)
    PROVE  MergeInv' /\ RanksUp(view, view')
  <1>1. /\ UNCHANGED <<history, sends, msgs, page, base, got>> /\ news' \subseteq news
        /\ view' = UpdateMessageReceiptStatus(view, n) /\ Tidy(view)
        /\ TypeOK /\ Len(msgs) <= MaxMsg
    BY DEF OnDelivered, MergeInv, ListInv
  <1>2. n \in DOMAIN msgs
    <2>1. [type |-> "delivered", id |-> n] \in [type : {"chat", "delivered", "delete"}, id : DOMAIN msgs]
      BY <1>1 DEF OnDelivered, TypeOK
    <2> QED
      BY <2>1
  <1>3. Tidy(view') /\ Follows(view, view')
    BY <1>1, <1>2, ReceiptFollows
  <1>4. parted' \subseteq 1 .. MaxSend
    <2>1. parted' \in {parted, Part({msgs[n].send})} /\ {msgs[n].send} \in SUBSET Nat
      BY <1>1, <1>2, SendType DEF OnDelivered
    <2> QED
      BY <1>1, <2>1, PartType DEF TypeOK
  <1> QED
    BY <1>1, <1>3, <1>4, MarkStep

\* A message of the WebSocket.
LEMMA OnChatInv ==
    ASSUME MergeInv, NEW n, OnChat(n)
    PROVE  MergeInv' /\ RanksUp(view, view')
  <1>1. /\ UNCHANGED <<history, sends, msgs, page, base, parted>> /\ news' \subseteq news
        /\ got' = got \cup {n} /\ Tidy(view) /\ TypeOK /\ Len(msgs) <= MaxMsg
    BY DEF OnChat, MergeInv, ListInv
  <1>2. n \in DOMAIN msgs
    <2>1. [type |-> "chat", id |-> n] \in [type : {"chat", "delivered", "delete"}, id : DOMAIN msgs]
      BY <1>1 DEF OnChat, TypeOK
    <2> QED
      BY <2>1
  <1>3. PICK near \in SUBSET {n} : view' = MergeConversationMessages(view, <<FromServer(n)>>, near)
    BY DEF OnChat
  <1>4. view' = Merge(view, FromServer(n), near)
    BY <1>1, <1>2, <1>3, ServerEntry, MergeSingle
  <1>5. Tidy(view') /\ Follows(view, view') /\ Shows(view', n, msgs[n])
    BY <1>1, <1>2, <1>4, MergeOne
  <1>6. parted' \subseteq 1 .. MaxSend
    BY <1>1 DEF TypeOK
  <1> QED
    BY <1>1, <1>2, <1>5, <1>6, MarkStep

\* A removal: the message was deleted, and the others stay.
LEMMA OnDeleteInv ==
    ASSUME MergeInv, NEW n, OnDelete(n)
    PROVE  MergeInv' /\ RanksUp(view, view')
  <1>1. /\ UNCHANGED <<history, sends, msgs, page, base, parted>> /\ news' \subseteq news
        /\ got' = got \ {n} /\ view' = RemoveMessage(view, n)
        /\ Tidy(view) /\ TempIds /\ TypeOK /\ PagingInv /\ Len(msgs) <= MaxMsg
    BY DEF OnDelete, MergeInv, ListInv
  <1>2. n \in DOMAIN msgs /\ msgs[n].life = "deleted"
    <2>1. /\ [type |-> "delete", id |-> n] \in news
          /\ [type |-> "delete", id |-> n] \in [type : {"chat", "delivered", "delete"}, id : DOMAIN msgs]
      BY <1>1 DEF OnDelete, TypeOK
    <2>2. n \in DOMAIN msgs
      BY <2>1
    <2> QED
      BY <1>1, <2>1, <2>2 DEF PagingInv, DeletesTrue
  <1>3. Tidy(view') /\ Drops(view, view', n)
    BY <1>1, RemoveDrops
  <1>4. RanksUp(view, view')
    <2> SUFFICES ASSUME NEW i \in DOMAIN view, NEW j \in DOMAIN view', view[i].id = view'[j].id
                 PROVE  ReceiptRank[view'[j].status] >= ReceiptRank[view[i].status]
      BY DEF RanksUp
    <2>1. PICK k \in DOMAIN view : view'[j] = view[k]
      BY <1>3 DEF Drops
    <2>2. i = k
      BY <1>1, <2>1 DEF Tidy
    <2>3. ReceiptRank[view[i].status] \in Int
      BY <1>1, EntryTypes, Ranks DEF Tidy
    <2> QED
      BY <2>1, <2>2, <2>3
  <1>5. TempIds'
    BY <1>1, <1>3 DEF TempIds, Drops
  <1>6. \A k \in got' : Shows(view', k, msgs'[k])
    <2> SUFFICES ASSUME NEW k \in got, k # n PROVE Shows(view', k, msgs[k])
      BY <1>1
    <2>1. PICK i \in DOMAIN view : /\ view[i].id = k /\ view[i].content = msgs[k].content
                                   /\ view[i].own = msgs[k].own
      BY DEF MergeInv, ListInv, Shows
    <2>2. PICK j \in DOMAIN view' : view'[j] = view[i]
      BY <1>3, <2>1 DEF Drops
    <2> QED
      BY <2>1, <2>2 DEF Shows
  <1>7. n \notin Saved /\ Saved' = Saved
    BY <1>1, <1>2 DEF Saved
  <1>8. PagingInv'
    <2>1. DeletesTrue' /\ \A k \in base : msgs'[k].life # "new"
      BY <1>1 DEF PagingInv, DeletesTrue
    <2>2. PagedSoFar'
      BY <1>1, <1>7 DEF PagingInv, PagedSoFar
    <2>3. PageNext'
      BY <1>1, <1>7 DEF PagingInv, PageNext
    <2> QED
      BY <1>1, <2>1, <2>2, <2>3 DEF PagingInv
  <1>9. TypeOK'
    <2>1. got' \subseteq DOMAIN msgs /\ page \subseteq DOMAIN msgs /\ base \subseteq DOMAIN msgs
      BY <1>1 DEF TypeOK
    <2> QED
      BY <1>1, <1>3, <2>1 DEF TypeOK, Tidy
  <1> QED
    BY <1>1, <1>3, <1>4, <1>5, <1>6, <1>8, <1>9 DEF MergeInv, ListInv

\* A request for history: the page is what comes next below the cursor.
LEMMA LoadHistoryInv ==
    ASSUME MergeInv, LoadHistory
    PROVE  MergeInv'
  <1> DEFINE c == IF history.loaded THEN history.cursor ELSE None
  <1>1. /\ UNCHANGED <<view, sends, msgs, news, got, parted>>
        /\ history.loaded => history.cursor # None
        /\ page' = NewestBefore(c)
        /\ history' = [history EXCEPT !.loading = TRUE]
        /\ base' = IF history.loaded THEN base ELSE Saved
        /\ TypeOK /\ ListInv /\ PagingInv /\ Len(msgs) <= MaxMsg
    BY DEF LoadHistory, server, MergeInv
  <1>2. history \in [loaded : BOOLEAN, loading : BOOLEAN, more : BOOLEAN, cursor : 0 .. MaxMsg]
    BY <1>1 DEF TypeOK
  <1>3. /\ history' \in [loaded : BOOLEAN, loading : BOOLEAN, more : BOOLEAN, cursor : 0 .. MaxMsg]
        /\ history'.loaded = history.loaded /\ history'.more = history.more
        /\ history'.cursor = history.cursor /\ history'.loading = TRUE
    BY <1>1, <1>2
  <1>4. c \in Nat
    BY <1>2, MergeAssumption DEF None
  <1>5. Saved \subseteq DOMAIN msgs /\ Saved' = Saved /\ page' \subseteq Saved
    BY <1>1 DEF Saved, NewestBefore
  <1>6. TypeOK'
    <2>1. /\ base' \subseteq DOMAIN msgs /\ page' \subseteq DOMAIN msgs
          /\ got \subseteq DOMAIN msgs
      BY <1>1, <1>5 DEF TypeOK
    <2> QED
      BY <1>1, <1>3, <2>1 DEF TypeOK
  <1>7. \A n \in base' : msgs'[n].life # "new"
    BY <1>1 DEF PagingInv, Saved
  <1>8. PagedSoFar'
    BY <1>1, <1>3, <1>5 DEF PagingInv, PagedSoFar
  <1>9. PageNext'
    <2> SUFFICES ASSUME NEW n \in base' \cap Saved', history'.loaded => n < history'.cursor
                 PROVE  n \in page' \/ (Cardinality(page') = PageSize /\ \A m \in page' : n < m)
      BY <1>1, <1>3 DEF PageNext
    <2>1. n \in Saved /\ (c = None \/ n < c)
      BY <1>3, <1>5
    <2> HIDE DEF c
    <2> QED
      BY <1>1, <1>4, <2>1, PageFull
  <1>10. ListInv'
    BY <1>1 DEF ListInv, Tidy, TempIds
  <1>11. DeletesTrue'
    BY <1>1 DEF PagingInv, DeletesTrue
  <1> QED
    BY <1>1, <1>6, <1>7, <1>8, <1>9, <1>10, <1>11 DEF MergeInv, PagingInv

\* The page arrives, and is shown; the cursor goes down to its oldest message.
LEMMA HistoryArrivesInv ==
    ASSUME MergeInv, HistoryArrives
    PROVE  MergeInv' /\ RanksUp(view, view')
  <1> DEFINE low == IF page # {} THEN Min(page) ELSE history.cursor
  <1>1. /\ UNCHANGED <<sends, msgs, news, base>> /\ history.loading
        /\ history' = [loaded |-> TRUE, loading |-> FALSE, more |-> Cardinality(page) = PageSize,
                       cursor |-> low]
        /\ got' = got \cup page /\ page' = {}
        /\ Tidy(view) /\ TypeOK /\ ListInv /\ PagingInv /\ Len(msgs) <= MaxMsg
    BY DEF HistoryArrives, server, MergeInv, ListInv
  <1>2. /\ history \in [loaded : BOOLEAN, loading : BOOLEAN, more : BOOLEAN, cursor : 0 .. MaxMsg]
        /\ page \subseteq DOMAIN msgs /\ base \subseteq DOMAIN msgs /\ got \subseteq DOMAIN msgs
    BY <1>1 DEF TypeOK
  <1>3. PICK near \in SUBSET page, q \in NewestFirst(page) :
            /\ view' = MergeConversationMessages(view, [i \in DOMAIN q |-> FromServer(q[i])], near)
            /\ parted' = Part({msgs[n].send : n \in page \ near})
    BY DEF HistoryArrives
  <1>4. q \in Seq(DOMAIN msgs) /\ \A n \in page : \E i \in DOMAIN q : q[i] = n
    <2>1. IsFiniteSet(page) /\ Cardinality(page) \in Nat
      BY <1>1, <1>2, Numbers
    <2>2. q \in [1 .. Cardinality(page) -> page] /\ ToSet(q) = page
      BY <1>3 DEF NewestFirst
    <2>3. q \in Seq(page)
      BY <2>1, <2>2
    <2>4. q \in Seq(DOMAIN msgs)
      BY <1>2, <2>3, SeqMonotonic
    <2> QED
      BY <2>2, <2>4 DEF ToSet
  <1>5. /\ Tidy(view') /\ Follows(view, view')
        /\ \A i \in DOMAIN q : Shows(view', q[i], msgs[q[i]])
    BY <1>1, <1>3, <1>4, MergeAll
  <1>6. TempIds' /\ \A n \in got : Shows(view', n, msgs[n])
    BY <1>1, <1>5, ListStep
  <1>7. \A n \in got' : Shows(view', n, msgs'[n])
    BY <1>1, <1>4, <1>5, <1>6
  <1>8. page # {} => low \in page /\ low # None /\ \A m \in page : low <= m
    <2> SUFFICES ASSUME page # {} PROVE Min(page) \in page /\ Min(page) # None
                                        /\ \A m \in page : Min(page) <= m
      OBVIOUS
    <2>1. page \in SUBSET Nat /\ \A n \in page : n # None
      BY <1>1, <1>2, Numbers DEF None
    <2> QED
      BY <2>1, MinNat
  <1>9. low \in 0 .. MaxMsg
    <2>1. CASE page # {}
      <3>1. low \in DOMAIN msgs
        BY <1>2, <1>8, <2>1
      <3>2. low \in 1 .. Len(msgs) /\ Len(msgs) \in Nat
        BY <1>1, <3>1, Numbers
      <3> HIDE DEF low
      <3> QED
        BY <1>1, <3>2, MergeAssumption
    <2>2. CASE page = {}
      BY <1>2, <2>2
    <2> QED
      BY <2>1, <2>2
  <1>10. /\ history'.loaded = TRUE /\ history'.loading = FALSE /\ history'.cursor = low
         /\ history'.more = (Cardinality(page) = PageSize)
    BY <1>1
  <1>11. \A n \in page : n \in got'
    BY <1>1
  <1> HIDE DEF low
  <1>12. TypeOK'
    <2>1. history' \in [loaded : BOOLEAN, loading : BOOLEAN, more : BOOLEAN, cursor : 0 .. MaxMsg]
      BY <1>1, <1>9
    <2>2. got' \subseteq DOMAIN msgs /\ page' \subseteq DOMAIN msgs
      BY <1>1, <1>2
    <2>3. parted' \subseteq 1 .. MaxSend
      <3>1. {msgs[n].send : n \in page \ near} \in SUBSET Nat
        BY <1>1, <1>2, SendType
      <3> QED
        BY <1>1, <1>3, <3>1, PartType
    <2> QED
      BY <1>1, <1>2, <1>5, <2>1, <2>2, <2>3 DEF TypeOK, Tidy
  <1>13. Saved' = Saved
    BY <1>1 DEF Saved
  <1>14. PagedSoFar'
    <2> SUFFICES ASSUME NEW n \in base \cap Saved, low = None \/ n >= low \/ Cardinality(page) # PageSize
                 PROVE  n \in got'
      BY <1>1, <1>10, <1>13 DEF PagedSoFar
    <2>1. n \in Nat /\ history.cursor \in Nat
      BY <1>1, <1>2, Numbers, MergeAssumption
    <2>2. CASE history.loaded /\ n >= history.cursor
      BY <1>1, <2>2 DEF PagingInv, PagedSoFar
    <2>3. CASE ~(history.loaded /\ n >= history.cursor)
      <3>1. history.loaded => n < history.cursor
        BY <2>1, <2>3
      <3>2. n \in page \/ (Cardinality(page) = PageSize /\ \A m \in page : n < m)
        BY <1>1, <3>1 DEF PagingInv, PageNext
      <3>3. CASE n \in page
        BY <1>11, <3>3
      <3>4. CASE Cardinality(page) = PageSize /\ \A m \in page : n < m
        <4>1. page # {}
          BY <3>4, FS_EmptySet, MergeAssumption
        <4>2. low \in page /\ low # None /\ n < low /\ low \in Nat
          BY <1>1, <1>2, <1>8, <3>4, <4>1, Numbers
        <4> QED
          BY <2>1, <3>4, <4>2
      <3> QED
        BY <3>2, <3>3, <3>4
    <2> QED
      BY <2>2, <2>3
  <1>15. DeletesTrue' /\ (\A n \in base : msgs'[n].life # "new") /\ PageNext'
    BY <1>1, <1>10 DEF PagingInv, DeletesTrue, PageNext
  <1> QED
    BY <1>1, <1>5, <1>6, <1>7, <1>12, <1>14, <1>15 DEF MergeInv, ListInv, PagingInv, Follows

\* A request that fails changes nothing.
LEMMA HistoryFailsInv ==
    ASSUME MergeInv, HistoryFails
    PROVE  MergeInv'
  <1>1. /\ UNCHANGED <<view, sends, msgs, news, base, got, parted>>
        /\ history' = [history EXCEPT !.loading = FALSE] /\ page' = {}
        /\ TypeOK /\ ListInv /\ PagingInv /\ Len(msgs) <= MaxMsg
    BY DEF HistoryFails, server, ghosts, MergeInv
  <1>2. history \in [loaded : BOOLEAN, loading : BOOLEAN, more : BOOLEAN, cursor : 0 .. MaxMsg]
    BY <1>1 DEF TypeOK
  <1>3. /\ history' \in [loaded : BOOLEAN, loading : BOOLEAN, more : BOOLEAN, cursor : 0 .. MaxMsg]
        /\ history'.loaded = history.loaded /\ history'.more = history.more
        /\ history'.cursor = history.cursor /\ history'.loading = FALSE
    BY <1>1, <1>2
  <1>4. TypeOK'
    BY <1>1, <1>3 DEF TypeOK
  <1>5. ListInv'
    BY <1>1 DEF ListInv, Tidy, TempIds
  <1>6. Saved' = Saved
    BY <1>1 DEF Saved
  <1>7. PagingInv'
    BY <1>1, <1>3, <1>6 DEF PagingInv, DeletesTrue, PagedSoFar, PageNext
  <1> QED
    BY <1>1, <1>4, <1>5, <1>7 DEF MergeInv

-----------------------------------------------------------------------------
(***************************************************************************)
(* The steps, and the entries that wait for their messages.                *)
(***************************************************************************)

\* The steps of the browser.
LEMMA BrowserStep ==
    ASSUME SendsTrue, UNCHANGED <<msgs, sends>>, news' \subseteq news, Matched(view', parted')
    PROVE  SendInv'
  <1>1. SendsTrue'
    BY DEF SendsTrue
  <1>2. Matched(view, parted)'
    BY DEF Matched, WithId
  <1> QED
    BY <1>1, <1>2 DEF SendInv

\* The steps of the server, which takes nothing of the user's.
LEMMA ServerStep ==
    ASSUME TypeOK, SendInv, UNCHANGED <<view, sends, parted>>,
           Len(msgs') \in Nat, Len(msgs) <= Len(msgs'), DOMAIN msgs \subseteq DOMAIN msgs',
           \A n \in DOMAIN msgs : /\ msgs'[n].own = msgs[n].own /\ msgs'[n].send = msgs[n].send
                                  /\ msgs'[n].content = msgs[n].content
                                  /\ [type |-> "chat", id |-> n] \in news' =>
                                        [type |-> "chat", id |-> n] \in news,
           \A n \in DOMAIN msgs' : n \notin DOMAIN msgs => ~msgs'[n].own
    PROVE  SendInv'
  <1>1. SendsTrue'
    BY DEF SendInv, SendsTrue
  <1>2. \A i \in DOMAIN view : view[i].id \in Int /\ view[i].id <= Len(msgs')
    <2>1. view \in Seq(Entry) /\ Len(msgs) \in Nat
      BY DEF TypeOK
    <2>2. \A i \in DOMAIN view : view[i].id \in Int /\ view[i].id <= Len(msgs)
      BY <2>1, EntryTypes DEF SendInv, Matched
    <2> QED
      BY <2>1, <2>2
  <1>3. ASSUME NEW i \in DOMAIN view, NEW n \in DOMAIN msgs', msgs'[n].own,
               msgs'[n].send \notin parted, view[i].id = -msgs'[n].send
        PROVE  view[i].pending /\ view[i].content = msgs'[n].content /\ WithId(view, n) = {}
    <2>1. n \in DOMAIN msgs
      BY <1>3
    <2>2. msgs[n].own /\ msgs[n].send = msgs'[n].send /\ msgs[n].content = msgs'[n].content
      BY <1>3, <2>1
    <2> QED
      BY <1>3, <2>1, <2>2 DEF SendInv, Matched
  <1>4. Matched(view, parted)'
    <2>1. \A i \in DOMAIN view : view[i].pending => view[i].own
      BY DEF SendInv, Matched
    <2>2. \A i, j \in DOMAIN view :
              view[i].pending /\ view[j].pending /\ view[i].content = view[j].content => i = j
      BY DEF SendInv, Matched
    <2> QED
      BY <1>2, <1>3, <2>1, <2>2 DEF Matched, WithId
  <1> QED
    BY <1>1, <1>4 DEF SendInv

\* A send that times out no longer waits, and is parted.
LEMMA SettleSends ==
    ASSUME MergeInv, SendInv, NEW k \in Nat, Settle(k)
    PROVE  SendInv'
  <1>1. /\ UNCHANGED <<msgs, sends, news>> /\ view' = SettleOptimisticMessage(view, k)
        /\ TypeOK /\ Tidy(view) /\ SendsTrue /\ Matched(view, parted)
    BY DEF Settle, server, MergeInv, ListInv, SendInv
  <1>2. Tidy(view')
    BY <1>1, SettleFollows
  <1>3. parted \subseteq parted' /\ k \in parted'
    BY DEF Settle, Part, WithId
  <1>4. ASSUME NEW j \in DOMAIN view'
        PROVE  \E i \in DOMAIN view :
                   /\ view'[j].id = view[i].id /\ view'[j].content = view[i].content
                   /\ view'[j].own = view[i].own
                   /\ view'[j].pending => view[i].pending
                   /\ view[i].pending => view'[j].pending \/ -view[i].id \in parted'
    <2>1. j \in DOMAIN view /\ view[j] \in Entry
      <3>1. DOMAIN view' = DOMAIN view
        BY <1>1 DEF SettleOptimisticMessage
      <3>2. view \in Seq(Entry)
        BY <1>1 DEF Tidy
      <3> QED
        BY <3>1, <3>2
    <2>2. view'[j] = IF view[j].id # -k THEN view[j]
                     ELSE [view[j] EXCEPT !.pending = FALSE, !.status = MergeReceiptStatus(@, "sent")]
      BY <1>1, <2>1 DEF SettleOptimisticMessage
    <2>3. /\ view'[j].id = view[j].id /\ view'[j].content = view[j].content
          /\ view'[j].own = view[j].own
          /\ view'[j] = view[j] \/ (view'[j].pending = FALSE /\ view[j].id = -k)
      BY <2>1, <2>2 DEF Entry
    <2>4. view[j].id = -k => -view[j].id = k
      OBVIOUS
    <2> QED
      BY <1>3, <2>1, <2>3, <2>4
  <1>5. Matched(view', parted')
    BY <1>1, <1>2, <1>3, <1>4, MatchedLess
  <1> QED
    BY <1>1, <1>5, BrowserStep

\* A read receipt does not touch what waits.
LEMMA OnReadSends ==
    ASSUME MergeInv, SendInv, OnRead
    PROVE  SendInv'
  <1>1. /\ UNCHANGED <<msgs, sends, news, parted>>
        /\ TypeOK /\ Tidy(view) /\ SendsTrue /\ Matched(view, parted)
    BY DEF OnRead, server, ghosts, MergeInv, ListInv, SendInv
  <1>2. PICK future : view' = MarkConversationMessagesRead(view, future)
    BY DEF OnRead
  <1>3. Tidy(view')
    BY <1>1, <1>2, ReadFollows
  <1>4. ASSUME NEW j \in DOMAIN view'
        PROVE  \E i \in DOMAIN view :
                   /\ view'[j].id = view[i].id /\ view'[j].content = view[i].content
                   /\ view'[j].own = view[i].own
                   /\ view'[j].pending => view[i].pending
                   /\ view[i].pending => view'[j].pending \/ -view[i].id \in parted'
    <2>1. j \in DOMAIN view /\ view[j] \in Entry
      BY <1>1, <1>2 DEF MarkConversationMessagesRead, Tidy
    <2>2. view'[j] = view[j] \/ view'[j] = [view[j] EXCEPT !.status = "read"]
      BY <1>2, <2>1 DEF MarkConversationMessagesRead
    <2>3. /\ view'[j].id = view[j].id /\ view'[j].content = view[j].content
          /\ view'[j].own = view[j].own /\ view'[j].pending = view[j].pending
      BY <2>1, <2>2 DEF Entry
    <2> QED
      BY <2>1, <2>3
  <1>5. Matched(view', parted')
    BY <1>1, <1>3, <1>4, MatchedLess
  <1> QED
    BY <1>1, <1>5, BrowserStep

\* A receipt gives the id to the entry of its send, or parts it.
LEMMA OnDeliveredSends ==
    ASSUME MergeInv, SendInv, NEW n, OnDelivered(n)
    PROVE  SendInv'
  <1>1. /\ UNCHANGED <<msgs, sends>> /\ news' \subseteq news
        /\ view' = UpdateMessageReceiptStatus(view, n)
        /\ parted' = IF Misnames(n) THEN Part({msgs[n].send}) ELSE parted
        /\ TypeOK /\ Len(msgs) <= MaxMsg /\ Tidy(view) /\ SendsTrue /\ Matched(view, parted)
    BY DEF OnDelivered, MergeInv, ListInv, SendInv
  <1>2. n \in DOMAIN msgs
    <2>1. [type |-> "delivered", id |-> n] \in [type : {"chat", "delivered", "delete"}, id : DOMAIN msgs]
      BY <1>1 DEF OnDelivered, TypeOK
    <2> QED
      BY <2>1
  <1>3. parted \subseteq parted'
    BY <1>1 DEF Part
  <1>4. Matched(view, parted')
    BY <1>1, <1>3, MatchedMore
  <1>5. CASE view' = view
    BY <1>1, <1>4, <1>5, BrowserStep
  <1>6. ASSUME NEW t, Receives(view, view', t, n) PROVE SendInv'
    <2>1. ASSUME msgs[n].own, msgs[n].send \notin parted', NEW i \in DOMAIN view, i # t,
                 view[i].id = -msgs[n].send
          PROVE  FALSE
      <3>1. view[i].pending /\ WithId(view, n) = {}
        BY <1>2, <1>4, <2>1 DEF Matched
      <3>2. t \in DOMAIN view /\ Nameless(view) # {} /\ t = Min(Nameless(view))
        BY <1>6, <3>1 DEF Receives, WithId
      <3>3. view[t].id # -msgs[n].send
        BY <1>1, <2>1, <3>2 DEF Tidy
      <3>4. Misnames(n)
        BY <3>1, <3>2, <3>3 DEF Misnames, Nameless
      <3>5. WithId(view, -msgs[n].send) # {}
        BY <2>1 DEF WithId
      <3> QED
        BY <1>1, <2>1, <3>4, <3>5 DEF Part
    <2>2. Puts(view, view', t, n) /\ ~view'[t].pending
      BY <1>6 DEF Receives
    <2>3. Matched(view', parted')
      BY <1>1, <1>2, <1>4, <2>1, <2>2, MatchedPuts
    <2> QED
      BY <1>1, <2>3, BrowserStep
  <1> QED
    BY <1>1, <1>2, <1>5, <1>6, ReceiptFollows

\* A message of the WebSocket is the other user's.
LEMMA OnChatSends ==
    ASSUME MergeInv, SendInv, NEW n, OnChat(n)
    PROVE  SendInv'
  <1>1. /\ UNCHANGED <<msgs, sends, parted>> /\ news' \subseteq news
        /\ [type |-> "chat", id |-> n] \in news
        /\ TypeOK /\ Len(msgs) <= MaxMsg /\ Tidy(view) /\ SendsTrue /\ Matched(view, parted)
    BY DEF OnChat, MergeInv, ListInv, SendInv
  <1>2. n \in DOMAIN msgs
    <2>1. [type |-> "chat", id |-> n] \in [type : {"chat", "delivered", "delete"}, id : DOMAIN msgs]
      BY <1>1 DEF TypeOK
    <2> QED
      BY <2>1
  <1>3. PICK near \in SUBSET {n} : view' = MergeConversationMessages(view, <<FromServer(n)>>, near)
    BY DEF OnChat
  <1>4. view' = Merge(view, FromServer(n), near)
    BY <1>1, <1>2, <1>3, ServerEntry, MergeSingle
  <1>5. Fits(view, n, near, parted)
    BY <1>1, <1>2 DEF Fits, SendsTrue
  <1>6. Matched(view', parted')
    BY <1>1, <1>2, <1>4, <1>5, MatchedMerge
  <1> QED
    BY <1>1, <1>6, BrowserStep

\* A removal.
LEMMA OnDeleteSends ==
    ASSUME MergeInv, SendInv, NEW n, OnDelete(n)
    PROVE  SendInv'
  <1>1. /\ UNCHANGED <<msgs, sends, parted>> /\ news' \subseteq news
        /\ view' = RemoveMessage(view, n)
        /\ TypeOK /\ Tidy(view) /\ SendsTrue /\ Matched(view, parted)
    BY DEF OnDelete, MergeInv, ListInv, SendInv
  <1>2. Tidy(view') /\ Drops(view, view', n)
    BY <1>1, RemoveDrops
  <1>3. Matched(view', parted')
    BY <1>1, <1>2, MatchedLess DEF Drops
  <1> QED
    BY <1>1, <1>3, BrowserStep

\* A page: a message whose clock is not that of its entry is parted from it.
LEMMA HistoryArrivesSends ==
    ASSUME MergeInv, SendInv, HistoryArrives
    PROVE  SendInv'
  <1>1. /\ UNCHANGED <<msgs, sends, news>> /\ page \subseteq DOMAIN msgs
        /\ TypeOK /\ Len(msgs) <= MaxMsg /\ Tidy(view) /\ SendsTrue /\ Matched(view, parted)
    BY DEF HistoryArrives, server, MergeInv, ListInv, TypeOK, SendInv
  <1>2. PICK near \in SUBSET page, q \in NewestFirst(page) :
            /\ view' = MergeConversationMessages(view, [i \in DOMAIN q |-> FromServer(q[i])], near)
            /\ parted' = Part({msgs[n].send : n \in page \ near})
    BY DEF HistoryArrives
  <1>3. q \in Seq(DOMAIN msgs) /\ \A i \in DOMAIN q : q[i] \in page
    <2>1. Cardinality(page) \in Nat /\ q \in [1 .. Cardinality(page) -> page]
      BY <1>1, <1>2, Numbers DEF NewestFirst
    <2>2. q \in Seq(page)
      BY <2>1
    <2>3. q \in Seq(DOMAIN msgs)
      BY <1>1, <2>2, SeqMonotonic
    <2> QED
      BY <2>1, <2>3
  <1>4. Matched(view, parted')
    <2>1. parted \subseteq parted'
      BY <1>2 DEF Part
    <2> QED
      BY <1>1, <2>1, MatchedMore
  <1>5. ASSUME NEW n \in page PROVE Fits(view, n, near, parted')
    <2> SUFFICES ASSUME n \notin near, NEW i \in DOMAIN view, view[i].id = -msgs[n].send
                 PROVE  msgs[n].send \in parted'
      BY DEF Fits
    <2>1. WithId(view, -msgs[n].send) # {}
      BY DEF WithId
    <2> QED
      BY <1>2, <2>1 DEF Part
  <1>6. Matched(view', parted')
    BY <1>1, <1>2, <1>3, <1>4, <1>5, MergeAll
  <1> QED
    BY <1>1, <1>6, BrowserStep

\* A send makes an entry that waits for its message, or takes over one that waits: then
\* it is parted from its message, and the entry from the other.
LEMMA HandleSendSends ==
    ASSUME MergeInv, SendInv, NEW text \in Content, HandleSend(text)
    PROVE  SendInv'
  <1> DEFINE k == sends + 1
             m == Optimistic(k, text)
  <1>1. /\ sends \in Nat /\ sends < MaxSend /\ sends' = k /\ Tidy(view) /\ TempIds /\ TypeOK
        /\ UNCHANGED <<history, page, base, got>> /\ SendsTrue /\ Matched(view, parted)
    BY MergeAssumption DEF MergeInv, ListInv, TypeOK, HandleSend, SendInv
  <1>2. /\ m \in Entry /\ m.id = -k /\ m.pending = TRUE /\ m.own = TRUE /\ m.content = text
    <2>1. -k \in (-MaxSend .. MaxMsg) \ {0}
      BY <1>1, MergeAssumption
    <2> QED
      BY <2>1 DEF Optimistic, Entry, ReceiptRank
  <1>3. /\ view' = Merge(view, m, {-k})
        /\ parted' = IF \E i \in DOMAIN view : SameDelivered(view[i], m, {-k})
                     THEN parted \cup {k} ELSE parted
    <2>1. /\ view' = MergeConversationMessages(view, <<m>>, {m.id})
          /\ parted' = IF \E i \in DOMAIN view : SameDelivered(view[i], m, {m.id})
                       THEN parted \cup {k} ELSE parted
      BY <1>1 DEF HandleSend
    <2> HIDE DEF m
    <2> QED
      BY <2>1, <1>2, MergeSingle
  <1> HIDE DEF m
  <1>4. PICK t : /\ Puts(view, view', t, -k)
                 /\ view'[t].content = text /\ view'[t].own
                 /\ t \in DOMAIN view => /\ ~view'[t].pending
                                         /\ view[t].id # -k => SameDelivered(view[t], m, {-k})
                 /\ t \notin DOMAIN view => /\ view'[t] = m
                                            /\ \A i \in DOMAIN view : ~SameDelivered(view[i], m, {-k})
    <2>1. m.pending => m.id < 0
      BY <1>1, <1>2
    <2>2. PICK t : LET w == Merge(view, m, {-k}) IN
              /\ Puts(view, w, t, m.id)
              /\ w[t].content = m.content /\ w[t].own = m.own
              /\ w[t].pending => m.pending
              /\ t \in DOMAIN view =>
                    ~w[t].pending /\ (view[t].id # m.id => SameDelivered(view[t], m, {-k}))
              /\ t \notin DOMAIN view =>
                    w[t] = m /\ \A i \in DOMAIN view : ~SameDelivered(view[i], m, {-k})
      BY <1>1, <1>2, <2>1, MergePuts
    <2> QED
      BY <1>2, <1>3, <2>2
  <1>5. /\ \A i \in DOMAIN view' : i # t => i \in DOMAIN view /\ view'[i] = view[i]
        /\ view'[t].id = -k
    BY <1>4 DEF Puts
  <1>6. ASSUME NEW i \in DOMAIN view
        PROVE  view[i].id \in Int /\ view[i].id # -k /\ view[i].id <= Len(msgs)
    <2>1. view[i].id \in Int /\ -view[i].id <= sends /\ view[i].id <= Len(msgs)
      BY <1>1, EntryTypes DEF Tidy, TempIds, Matched
    <2> QED
      BY <1>1, <2>1
  <1>7. /\ Len(msgs) \in Nat /\ Len(msgs') \in Nat /\ Len(msgs) <= Len(msgs')
        /\ \A n \in DOMAIN msgs : n \in DOMAIN msgs' /\ msgs'[n] = msgs[n]
        /\ \A n \in DOMAIN msgs' :
              n \notin DOMAIN msgs => /\ n = Len(msgs) + 1
                                      /\ msgs'[n].send = k /\ msgs'[n].content = text
        /\ \A n : [type |-> "chat", id |-> n] \in news' => [type |-> "chat", id |-> n] \in news
    <2>1. CASE ServerTakes(text)
      <3>1. Take(text, sends', "delivered") /\ sends' \in 0 .. MaxSend
        BY <1>1, <2>1, MergeAssumption DEF ServerTakes
      <3>2. /\ msgs' \in Seq(Sent) /\ Len(msgs) <= Len(msgs')
            /\ DOMAIN msgs \subseteq DOMAIN msgs' /\ \A n \in DOMAIN msgs : msgs'[n] = msgs[n]
            /\ \A n \in DOMAIN msgs' : n \notin DOMAIN msgs =>
                  /\ n = Len(msgs) + 1 /\ msgs'[n].send = sends' /\ msgs'[n].content = text
            /\ news' = news \cup {[type |-> "delivered", id |-> Len(msgs) + 1]}
        BY <1>1, <3>1, TakeStep
      <3>3. ASSUME NEW n, [type |-> "chat", id |-> n] \in news'
            PROVE  [type |-> "chat", id |-> n] \in news
        BY <3>2, <3>3
      <3>4. Len(msgs) \in Nat /\ Len(msgs') \in Nat
        BY <1>1, <3>2 DEF TypeOK
      <3> QED
        BY <1>1, <3>2, <3>3, <3>4
    <2>2. CASE ServerLoses
      BY <1>1, <2>2 DEF ServerLoses, server, TypeOK
    <2> QED
      BY <2>1, <2>2 DEF HandleSend
  <1>8. \A n \in DOMAIN msgs : /\ n \in Nat /\ n > 0 /\ n <= Len(msgs)
                               /\ msgs[n].own => msgs[n].send \in 1 .. sends
    <2>1. Len(msgs) \in Nat /\ DOMAIN msgs = 1 .. Len(msgs)
      BY <1>1, Numbers
    <2>2. \A n \in DOMAIN msgs : msgs[n].own => msgs[n].send \in 1 .. sends
      BY <1>1 DEF SendsTrue
    <2> QED
      BY <2>1, <2>2
  <1>9. SendsTrue'
    <2> SUFFICES ASSUME NEW n \in DOMAIN msgs'
                 PROVE  /\ msgs'[n].own => msgs'[n].send \in 1 .. k
                        /\ [type |-> "chat", id |-> n] \in news' => ~msgs'[n].own
      BY <1>1 DEF SendsTrue
    <2>1. CASE n \in DOMAIN msgs
      <3>1. \A x \in 1 .. sends : x \in 1 .. k
        BY <1>1
      <3>2. msgs'[n] = msgs[n] /\ (msgs[n].own => msgs[n].send \in 1 .. sends)
        BY <1>7, <1>8, <2>1
      <3>3. [type |-> "chat", id |-> n] \in news' => ~msgs[n].own
        BY <1>1, <1>7, <2>1 DEF SendsTrue
      <3> HIDE DEF k
      <3> QED
        BY <3>1, <3>2, <3>3
    <2>2. CASE n \notin DOMAIN msgs
      <3>1. msgs'[n].send = k /\ k \in 1 .. k
        BY <1>1, <1>7, <2>2
      <3>2. [type |-> "chat", id |-> n] \notin news
        <4> SUFFICES ASSUME [type |-> "chat", id |-> n] \in news PROVE FALSE
          OBVIOUS
        <4>1. [type |-> "chat", id |-> n] \in [type : {"chat", "delivered", "delete"}, id : DOMAIN msgs]
          BY <1>1 DEF TypeOK
        <4> QED
          BY <2>2, <4>1
      <3> QED
        BY <1>7, <3>1, <3>2
    <2> QED
      BY <2>1, <2>2
  <1> HIDE DEF k
  <1>10. k \in Nat /\ sends < k /\ k > 0
    BY <1>1 DEF k
  <1>11. ASSUME NEW i \in DOMAIN view'
         PROVE  view'[i].id <= Len(msgs') /\ (view'[i].pending => view'[i].own)
    <2>1. CASE i = t
      BY <1>4, <1>5, <1>7, <1>10, <2>1
    <2>2. CASE i # t
      <3>1. i \in DOMAIN view /\ view'[i] = view[i]
        BY <1>5, <2>2
      <3>2. view[i].id <= Len(msgs') /\ (view[i].pending => view[i].own)
        BY <1>1, <1>6, <1>7, <3>1 DEF Matched
      <3> QED
        BY <3>1, <3>2
    <2> QED
      BY <2>1, <2>2
  <1>12. ASSUME NEW i \in DOMAIN view', NEW j \in DOMAIN view', i # t,
                view'[i].pending, view'[j].pending, view'[i].content = view'[j].content
         PROVE  i = j
    <2>1. i \in DOMAIN view /\ view'[i] = view[i]
      BY <1>5, <1>12
    <2>2. CASE j = t
      <3>1. \A l \in DOMAIN view : ~SameDelivered(view[l], m, {-k})
        BY <1>4, <1>12, <2>2
      <3>2. view[i].own = TRUE
        BY <1>1, <1>12, <2>1 DEF Matched, Tidy, Entry
      <3>3. SameDelivered(view[i], m, {-k})
        BY <1>2, <1>4, <1>12, <2>1, <2>2, <3>2 DEF SameDelivered
      <3> QED
        BY <2>1, <3>1, <3>3
    <2>3. CASE j # t
      BY <1>1, <1>5, <1>12, <2>1, <2>3 DEF Matched
    <2> QED
      BY <2>2, <2>3
  <1>13. ASSUME NEW i \in DOMAIN view', NEW n \in DOMAIN msgs', msgs'[n].own,
                msgs'[n].send \notin parted', view'[i].id = -msgs'[n].send
         PROVE  view'[i].pending /\ view'[i].content = msgs'[n].content /\ WithId(view', n) = {}
    <2>1. CASE n \in DOMAIN msgs
      <3>1. PICK c \in Nat : c = msgs[n].send /\ c <= sends /\ c > 0
        BY <1>1, <1>7, <1>8, <1>13, <2>1
      <3>2. view'[i].id = -c /\ c \notin parted /\ msgs[n].own /\ msgs'[n].content = msgs[n].content
        BY <1>3, <1>7, <1>13, <2>1, <3>1
      <3>3. i # t
        <4>1. ~(-c = -k)
          BY <1>1, <1>10, <3>1
        <4> QED
          BY <1>5, <3>2, <4>1
      <3>4. i \in DOMAIN view /\ view'[i] = view[i]
        BY <1>5, <3>3
      <3>5. view[i].pending /\ view[i].content = msgs[n].content /\ WithId(view, n) = {}
        BY <1>1, <2>1, <3>1, <3>2, <3>4 DEF Matched
      <3>6. n # -k
        BY <1>8, <1>10, <2>1
      <3>7. WithId(view', n) = {}
        BY <1>5, <3>5, <3>6 DEF WithId
      <3> QED
        BY <3>2, <3>4, <3>5, <3>7
    <2>2. CASE n \notin DOMAIN msgs
      <3>1. msgs'[n].send = k /\ msgs'[n].content = text /\ n = Len(msgs) + 1 /\ view'[i].id = -k
        BY <1>7, <1>13, <2>2
      <3>2. i = t
        BY <1>5, <1>6, <3>1
      <3>3. t \notin DOMAIN view
        BY <1>3, <1>4, <1>6, <1>13, <3>1
      <3>4. view'[i] = m
        BY <1>4, <3>2, <3>3
      <3>5. ASSUME NEW j \in DOMAIN view', view'[j].id = n PROVE FALSE
        <4>1. CASE j = t
          BY <1>5, <1>7, <1>10, <3>1, <3>5, <4>1
        <4>2. CASE j # t
          <5>1. j \in DOMAIN view /\ view[j].id = n
            BY <1>5, <3>5, <4>2
          <5>2. view[j].id \in Int /\ view[j].id <= Len(msgs)
            BY <1>6, <5>1
          <5> QED
            BY <1>7, <3>1, <5>1, <5>2
        <4> QED
          BY <4>1, <4>2
      <3> QED
        BY <1>2, <3>1, <3>4, <3>5 DEF WithId
    <2> QED
      BY <2>1, <2>2
  <1>14. Matched(view, parted)'
    <2>1. \A i, j \in DOMAIN view' :
              view'[i].pending /\ view'[j].pending /\ view'[i].content = view'[j].content => i = j
      BY <1>12
    <2> QED
      BY <1>11, <1>13, <2>1 DEF Matched, WithId
  <1> QED
    BY <1>9, <1>14 DEF SendInv

\* The other user's message, and the life of the messages.
LEMMA ServerSends ==
    ASSUME MergeInv, SendInv,
           \/ \E text \in Content : PeerSends(text)
           \/ \E n \in DOMAIN msgs : Save(n) \/ Delete(n)
    PROVE  SendInv'
  <1>1. TypeOK /\ Len(msgs) \in Nat /\ DOMAIN msgs = 1 .. Len(msgs)
    BY Numbers DEF MergeInv
  <1>2. ASSUME NEW text \in Content, PeerSends(text) PROVE SendInv'
    <2>1. /\ UNCHANGED <<view, history, sends, page, base, got, parted>> /\ Take(text, 0, "chat")
      BY <1>2 DEF PeerSends, browser, ghosts
    <2>2. /\ msgs' \in Seq(Sent) /\ Len(msgs) <= Len(msgs')
          /\ DOMAIN msgs \subseteq DOMAIN msgs' /\ \A n \in DOMAIN msgs : msgs'[n] = msgs[n]
          /\ \A n \in DOMAIN msgs' : n \notin DOMAIN msgs => msgs'[n].own = (0 # 0)
          /\ news' = news \cup {[type |-> "chat", id |-> Len(msgs) + 1]}
      BY <2>1, TakeStep, MergeAssumption
    <2>3. ASSUME NEW n \in DOMAIN msgs, [type |-> "chat", id |-> n] \in news'
          PROVE  [type |-> "chat", id |-> n] \in news
      <3>1. n # Len(msgs) + 1
        BY <1>1
      <3>2. [type |-> "chat", id |-> n] # [type |-> "chat", id |-> Len(msgs) + 1]
        BY <3>1
      <3> QED
        BY <2>2, <2>3, <3>2
    <2>4. Len(msgs') \in Nat
      BY <2>2
    <2> QED
      BY <1>1, <2>1, <2>2, <2>3, <2>4, ServerStep
  <1>3. ASSUME NEW n \in DOMAIN msgs, Save(n) \/ Delete(n) PROVE SendInv'
    <2>1. /\ UNCHANGED <<view, sends, parted>>
          /\ news' \subseteq news \cup {[type |-> "delete", id |-> n]}
      BY <1>3 DEF Save, Delete, browser, ghosts
    <2>2. PICK l \in {"saved", "deleted"} : msgs' = [msgs EXCEPT ![n].life = l]
      BY <1>3 DEF Save, Delete
    <2>3. /\ Len(msgs') = Len(msgs) /\ DOMAIN msgs' = DOMAIN msgs
          /\ \A k \in DOMAIN msgs : /\ msgs'[k].content = msgs[k].content
                                    /\ msgs'[k].own = msgs[k].own
                                    /\ msgs'[k].send = msgs[k].send
      BY <1>1, <2>2, LifeStep
    <2>4. ASSUME NEW k, [type |-> "chat", id |-> k] \in news'
          PROVE  [type |-> "chat", id |-> k] \in news
      BY <2>1, <2>4
    <2>5. Len(msgs') \in Nat /\ Len(msgs) <= Len(msgs')
      BY <1>1, <2>3
    <2> QED
      BY <1>1, <2>1, <2>3, <2>4, <2>5, ServerStep
  <1> QED
    BY <1>2, <1>3

-----------------------------------------------------------------------------
(***************************************************************************)
(* The theorems.                                                           *)
(***************************************************************************)

\* Every step keeps the invariant, and no tick goes back in it.
LEMMA MergeStep ==
    ASSUME MergeInv, [Next]_vars
    PROVE  MergeInv' /\ RanksUp(view, view')
  <1>1. CASE UNCHANGED vars
    <2>1. UNCHANGED <<view, history, sends, msgs, news, page, base, got, parted>>
      BY <1>1 DEF vars, browser, server, ghosts
    <2>2. Saved' = Saved
      BY <2>1 DEF Saved
    <2> QED
      BY <2>1, <2>2, ListStays
      DEF MergeInv, ListInv, PagingInv, TypeOK, Tidy, TempIds, DeletesTrue, PagedSoFar, PageNext
  <1>2. ASSUME NEW text \in Content, HandleSend(text)
        PROVE  MergeInv' /\ RanksUp(view, view')
    BY <1>2, HandleSendInv
  <1>3. ASSUME NEW text \in Content, PeerSends(text)
        PROVE  MergeInv' /\ RanksUp(view, view')
    <2>1. view' = view
      BY <1>3 DEF PeerSends, browser
    <2> QED
      BY <1>3, <2>1, PeerSendsInv, ListStays
  <1>4. ASSUME NEW k \in 1 .. MaxSend, Settle(k)
        PROVE  MergeInv' /\ RanksUp(view, view')
    BY <1>4, SettleInv
  <1>5. CASE OnRead
    BY <1>5, OnReadInv
  <1>6. CASE LoadHistory
    <2>1. view' = view
      BY <1>6 DEF LoadHistory
    <2> QED
      BY <1>6, <2>1, LoadHistoryInv, ListStays
  <1>7. CASE HistoryArrives
    BY <1>7, HistoryArrivesInv
  <1>8. CASE HistoryFails
    <2>1. view' = view
      BY <1>8 DEF HistoryFails
    <2> QED
      BY <1>8, <2>1, HistoryFailsInv, ListStays
  <1>9. ASSUME NEW n \in 1 .. MaxMsg, OnChat(n) \/ OnDelivered(n) \/ OnDelete(n)
        PROVE  MergeInv' /\ RanksUp(view, view')
    BY <1>9, OnChatInv, OnDeliveredInv, OnDeleteInv
  <1>10. ASSUME NEW n \in 1 .. MaxMsg, Save(n) \/ Delete(n)
         PROVE  MergeInv' /\ RanksUp(view, view')
    <2>1. view' = view
      BY <1>10 DEF Save, Delete, browser
    <2> QED
      BY <1>10, <2>1, SaveInv, DeleteInv, ListStays
  <1> QED
    BY <1>1, <1>2, <1>3, <1>4, <1>5, <1>6, <1>7, <1>8, <1>9, <1>10 DEF Next

\* Whatever the browser is given, in whatever order, its list stays tidy and the paging
\* goes on where it stopped.
THEOREM MergeInvariant == Spec => []MergeInv
  <1>1. Init => MergeInv
    <2> SUFFICES ASSUME Init PROVE MergeInv
      OBVIOUS
    <2>1. /\ view = <<>> /\ DOMAIN view = {} /\ view \in Seq(Entry)
          /\ msgs = <<>> /\ DOMAIN msgs = {} /\ Len(msgs) = 0
          /\ msgs \in Seq(Sent)
      BY DEF Init
    <2>2. /\ history.loaded = FALSE /\ history.loading = FALSE
          /\ history \in [loaded : BOOLEAN, loading : BOOLEAN, more : BOOLEAN, cursor : 0 .. MaxMsg]
      BY MergeAssumption DEF Init, None
    <2>3. sends \in 0 .. MaxSend /\ MaxMsg \in Nat
      BY MergeAssumption DEF Init
    <2>4. news = {} /\ page = {} /\ base = {} /\ got = {} /\ parted = {}
      BY DEF Init
    <2>5. TypeOK
      BY <2>1, <2>2, <2>3, <2>4 DEF TypeOK
    <2>6. ListInv
      BY <2>1, <2>4 DEF ListInv, Tidy, TempIds
    <2>7. PagingInv
      BY <2>1, <2>2, <2>4 DEF PagingInv, DeletesTrue, PagedSoFar, PageNext
    <2> QED
      BY <2>1, <2>3, <2>5, <2>6, <2>7 DEF MergeInv
  <1>2. MergeInv /\ [Next]_vars => MergeInv'
    BY MergeStep
  <1> QED
    BY <1>1, <1>2, PTL DEF Spec

\* The types of the variables, at any time.
THEOREM MergeTypes == Spec => []TypeOK
  <1>1. MergeInv => TypeOK
    BY DEF MergeInv
  <1> QED
    BY <1>1, MergeInvariant, PTL

\* Every step keeps what waits for a message the only entry that does.
LEMMA SendStep ==
    ASSUME MergeInv, SendInv, [Next]_vars
    PROVE  SendInv'
  <1>1. CASE UNCHANGED <<view, sends, msgs, news, parted>>
    BY <1>1, BrowserStep DEF SendInv
  <1>2. UNCHANGED vars \/ LoadHistory \/ HistoryFails => UNCHANGED <<view, sends, msgs, news, parted>>
    BY DEF vars, browser, server, ghosts, LoadHistory, HistoryFails
  <1>3. ASSUME NEW text \in Content, HandleSend(text) PROVE SendInv'
    BY <1>3, HandleSendSends
  <1>4. ASSUME NEW k \in 1 .. MaxSend, Settle(k) PROVE SendInv'
    BY <1>4, SettleSends
  <1>5. ASSUME NEW n \in 1 .. MaxMsg, Save(n) \/ Delete(n) PROVE SendInv'
    <2>1. n \in DOMAIN msgs
      BY <1>5 DEF Save, Delete, Saved
    <2> QED
      BY <1>5, <2>1, ServerSends
  <1>6. ASSUME NEW n \in 1 .. MaxMsg, OnChat(n) \/ OnDelivered(n) \/ OnDelete(n) PROVE SendInv'
    BY <1>6, OnChatSends, OnDeliveredSends, OnDeleteSends
  <1> QED
    BY <1>1, <1>2, <1>3, <1>4, <1>5, <1>6, OnReadSends, HistoryArrivesSends, ServerSends DEF Next

\* Whatever comes, and in whatever order: an entry whose message the server has waits for
\* it, the only one of its text, or is parted from it.
THEOREM SendInvariant == Spec => []SendInv
  <1>1. Init => SendInv
    BY DEF Init, SendInv, SendsTrue, Matched
  <1>2. MergeInv /\ SendInv /\ [Next]_vars => SendInv'
    BY SendStep
  <1> QED
    BY <1>1, <1>2, MergeInvariant, PTL DEF Spec

\* ShownOnce, from the invariants.
LEMMA OneEach ==
    ASSUME MergeInv, SendInv
    PROVE  ShownOnce
  <1> SUFFICES ASSUME NEW n \in got
               PROVE  /\ Cardinality(WithId(view, n)) = 1
                      /\ \A i \in WithId(view, n) : /\ view[i].content = msgs[n].content
                                                   /\ view[i].own = msgs[n].own
                      /\ msgs[n].own /\ msgs[n].send \notin parted =>
                            WithId(view, -msgs[n].send) = {}
    BY DEF ShownOnce
  <1>1. PICK i \in DOMAIN view : /\ view[i].id = n /\ view[i].content = msgs[n].content
                                 /\ view[i].own = msgs[n].own
    BY DEF MergeInv, ListInv, Shows
  <1>2. WithId(view, n) = {i}
    BY <1>1 DEF MergeInv, ListInv, Tidy, WithId
  <1>3. Cardinality(WithId(view, n)) = 1
    BY <1>2, FS_Singleton
  <1>4. msgs[n].own /\ msgs[n].send \notin parted => WithId(view, -msgs[n].send) = {}
    <2>1. n \in DOMAIN msgs
      BY DEF MergeInv, TypeOK
    <2> QED
      BY <1>2, <2>1 DEF SendInv, Matched, WithId
  <1> QED
    BY <1>1, <1>2, <1>3, <1>4

\* mergeConversationMessages() and the receipts never lose a message, give one the text
\* of another, show one under its id twice, or show an own one also as the entry it was
\* sent with unless the two are parted, for any number of messages in any order.
THEOREM AllShownOnce == Spec => []ShownOnce
  <1>1. MergeInv /\ SendInv => ShownOnce
    BY OneEach
  <1> QED
    BY <1>1, MergeInvariant, SendInvariant, PTL

\* loadConversationHistory() skips nothing on the way back, whatever the page size and
\* whatever arrives or is deleted meanwhile.
THEOREM PagingSkipsNothing == Spec => []Paged
  <1>1. MergeInv => Paged
    <2> SUFFICES ASSUME MergeInv, history.loaded, NEW n \in base \cap Saved,
                        history.cursor = None \/ n >= history.cursor \/ ~history.more
                 PROVE  WithId(view, n) # {}
      BY DEF Paged
    <2>1. n \in got
      BY DEF MergeInv, PagingInv, PagedSoFar
    <2> QED
      BY <2>1 DEF MergeInv, ListInv, Shows, WithId
  <1> QED
    BY <1>1, MergeInvariant, PTL

\* mergeReceiptStatus() and markConversationMessagesRead() only raise the ticks.
THEOREM TicksOnlyRise == Spec => ReceiptsUp
  <1>1. MergeInv /\ [Next]_vars =>
            [\A i \in DOMAIN view, j \in DOMAIN view' :
                view[i].id = view'[j].id =>
                    ReceiptRank[view'[j].status] >= ReceiptRank[view[i].status]]_vars
    BY MergeStep DEF RanksUp
  <1> QED
    BY <1>1, MergeInvariant, PTL DEF Spec, ReceiptsUp
=============================================================================
