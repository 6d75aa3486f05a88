---------------------------- MODULE HistoryProofs -----------------------------
(***************************************************************************)
(* Theorems about History, for any users, conversations and numbers of     *)
(* messages: no message is forgotten, a deleted message stays deleted,     *)
(* pages are exact, a DELETE tells every member and is only for members,   *)
(* and both users of a message may read it.                                *)
(***************************************************************************)
EXTENDS History, SequenceTheorems, TLAPS

Sent == [conv : Conv, by : User, to : Conv, kind : {"tcp", "ws", "group"}]

\* What Cassandra holds, and what is still to be stored, are apart: a row or a
\* deleted message has no store pending, so nothing can bring it back, and a
\* DELETE under way is about a row.
StoreApart ==
    /\ sent \in Seq(Sent)
    /\ rows \subseteq Msgs /\ gone \subseteq Msgs /\ doomed \subseteq rows
    /\ rows \cap gone = {}
    /\ \A m : <<"store", m>> \in jobs => m \in Msgs /\ m \notin rows /\ m \notin gone

\* Inductive as it stands.
HistInv == StoreApart /\ NothingForgotten

-----------------------------------------------------------------------------
\* A step that leaves messages, stores and the history alone keeps the invariant.
LEMMA QuietStep ==
    ASSUME HistInv, UNCHANGED <<sent, jobs, rows, dead, gone, missed>>,
           doomed' \subseteq rows
    PROVE  HistInv'
  BY DEF HistInv, StoreApart, NothingForgotten, Msgs

\* Initially there is nothing.
LEMMA HistInit == Init => HistInv
  <1> SUFFICES ASSUME Init PROVE HistInv
    OBVIOUS
  <1>1. sent \in Seq(Sent) /\ Len(sent) = 0 /\ Msgs = {}
    BY DEF Init, Msgs
  <1> QED
    BY <1>1 DEF Init, HistInv, StoreApart, NothingForgotten

\* A message that is sent has its store pending.
LEMMA SendKeeps ==
    ASSUME HistInv, NEW kind \in {"tcp", "ws", "group"}, NEW by \in User, NEW to \in Conv,
           NEW c \in Conv, Send(kind, by, to, c)
    PROVE  HistInv'
  <1> DEFINE n == Len(sent) + 1
             r == [conv |-> c, by |-> by, to |-> to, kind |-> kind]
  <1>1. r \in Sent
    BY DEF Sent
  <1>2. sent \in Seq(Sent) /\ sent' = Append(sent, r)
    BY DEF Send, HistInv, StoreApart
  <1>3. sent' \in Seq(Sent) /\ Len(sent') = n /\ Msgs' = Msgs \cup {n} /\ n \notin Msgs
    BY <1>1, <1>2 DEF Msgs
  <1>4. \A m : <<"store", m>> \in jobs' <=> <<"store", m>> \in jobs \/ m = n
    BY DEF Send
  <1>5. UNCHANGED <<rows, dead, doomed, gone, missed>> /\ jobs \subseteq jobs'
    BY DEF Send, store
  <1>6. StoreApart'
    BY <1>3, <1>4, <1>5 DEF HistInv, StoreApart
  <1>7. NothingForgotten'
    BY <1>3, <1>4, <1>5 DEF HistInv, NothingForgotten
  <1> QED
    BY <1>6, <1>7 DEF HistInv

\* store_message_async leaves a row or a line in the dead-letter log.
LEMMA StoreKeeps ==
    ASSUME HistInv, NEW m \in Msgs, StoreMessage(m)
    PROVE  HistInv'
  <1>1. /\ <<"store", m>> \in jobs /\ jobs' = jobs \ {<<"store", m>>}
        /\ rows \subseteq rows' /\ rows' \subseteq rows \cup {m}
        /\ dead \subseteq dead' /\ m \in rows' \cup dead'
        /\ UNCHANGED <<sent, doomed, gone, missed>>
    BY DEF StoreMessage, Finish
  <1>2. Msgs' = Msgs
    BY <1>1 DEF Msgs
  <1>3. StoreApart'
    BY <1>1, <1>2 DEF HistInv, StoreApart
  <1>4. NothingForgotten'
    BY <1>1, <1>2 DEF HistInv, NothingForgotten
  <1> QED
    BY <1>3, <1>4 DEF HistInv

\* The end of another coroutine of a message is no end of a store.
LEMMA OtherJobKeeps ==
    ASSUME HistInv, NEW m, NEW what, what # "store", Finish(what, m),
           UNCHANGED <<sent, rows, dead, doomed, gone>>, missed \subseteq missed'
    PROVE  HistInv'
  <1>1. \A k : <<"store", k>> \in jobs' <=> <<"store", k>> \in jobs
    BY DEF Finish
  <1>2. Msgs' = Msgs
    BY DEF Msgs
  <1> QED
    BY <1>1, <1>2 DEF HistInv, StoreApart, NothingForgotten

\* A DELETE moves a row to the deleted messages.
LEMMA ApplyKeeps ==
    ASSUME HistInv, NEW m \in Msgs, ApplyDelete(m)
    PROVE  HistInv'
  <1>1. Msgs' = Msgs
    BY DEF ApplyDelete, Msgs
  <1>2. StoreApart'
    BY <1>1 DEF HistInv, StoreApart, ApplyDelete, tables
  <1>3. NothingForgotten'
    BY <1>1 DEF HistInv, NothingForgotten, ApplyDelete
  <1> QED
    BY <1>2, <1>3 DEF HistInv

\* A restart writes down which stores it cut off.
LEMMA RestartKeeps ==
    ASSUME HistInv, Restart
    PROVE  HistInv'
  <1>1. /\ Msgs' = Msgs /\ jobs' = {} /\ missed \subseteq missed'
        /\ UNCHANGED <<sent, rows, dead, doomed, gone>>
    BY DEF Restart, Msgs, store
  <1>2. \A k : <<"store", k>> \in jobs => <<"store", k>> \in missed'
    BY DEF Restart
  <1> QED
    BY <1>1, <1>2 DEF HistInv, StoreApart, NothingForgotten

-----------------------------------------------------------------------------
\* The requests that read, and those that only write PostgreSQL.
LEMMA ReaderKeeps ==
    ASSUME HistInv, ReaderStep \/ ReaderDone \/ (\E r \in Reads : GetMessages(r[1], r[2], r[3]))
    PROVE  HistInv'
  <1>1. UNCHANGED <<sent, jobs, store, missed>>
    BY DEF ReaderStep, ReaderDone, GetMessages, ReadMembership, ReadThrows, SelectHistory
  <1> QED
    BY <1>1, QuietStep DEF store, HistInv, StoreApart

\* A DELETE request changes at most the set of DELETEs under way.
LEMMA DeleterKeeps ==
    ASSUME HistInv,
           DeleterStep \/ (\E d \in Deletes, m \in Msgs : DeleteRequest(d[1], d[2], m))
    PROVE  HistInv'
  <1>1. doomed \subseteq rows
    BY DEF HistInv, StoreApart
  <1>2. CASE DeleteMembers
    <2>1. doomed' \subseteq rows
      BY <1>1, <1>2 DEF DeleteMembers, IssueDelete
    <2> QED
      BY <1>2, <2>1, QuietStep DEF DeleteMembers
  <1>3. CASE DeleteThrows \/ Notify \/ DeleteDone
    BY <1>1, <1>3, QuietStep DEF DeleteThrows, Notify, DeleteDone, store
  <1>4. CASE \E d \in Deletes, m \in Msgs : DeleteRequest(d[1], d[2], m)
    BY <1>1, <1>4, QuietStep DEF DeleteRequest, store
  <1> QED
    BY <1>2, <1>3, <1>4 DEF DeleterStep

\* Every step keeps the invariant.
LEMMA HistStep == HistInv /\ [Next]_vars => HistInv'
  <1> SUFFICES ASSUME HistInv, [Next]_vars PROVE HistInv'
    OBVIOUS
  <1>0. doomed \subseteq rows
    BY DEF HistInv, StoreApart
  <1>1. CASE \E u, w \in User : SendTcp(u, w)
    <2>1. PICK u \in User, w \in User : SendTcp(u, w)
      BY <1>1
    <2>2. w \in Conv /\ ConvId(u, w) \in Conv
      BY DEF Conv, ConvId, Lesser
    <2> QED
      BY <2>1, <2>2, SendKeeps DEF SendTcp
  <1>2. CASE \E u \in User, c \in Conv : SendWs(u, c)
    <2>1. PICK u \in User, c \in Conv, w \in User : Send("ws", u, w, c)
      BY <1>2 DEF SendWs, MembersOf
    <2> QED
      BY <2>1, SendKeeps DEF Conv
  <1>3. CASE \E u \in User : SendGroup(u)
    BY <1>3, SendKeeps DEF SendGroup, Conv
  <1>4. CASE \E m \in Msgs : Job(m)
    <2>1. PICK m \in Msgs : Job(m)
      BY <1>4
    <2>2. CASE StoreMessage(m)
      BY <2>2, StoreKeeps
    <2>3. CASE UpsertConvMembers(m)
      BY <2>3, OtherJobKeeps DEF UpsertConvMembers, store
    <2>4. CASE UpdateConvActivity(m)
      BY <2>4, OtherJobKeeps DEF UpdateConvActivity, store
    <2> QED
      BY <2>1, <2>2, <2>3, <2>4 DEF Job
  <1>5. CASE \E m \in Msgs : ApplyDelete(m)
    BY <1>5, ApplyKeeps
  <1>6. CASE \E m \in Msgs : LoseDelete(m)
    BY <1>0, <1>6, QuietStep DEF LoseDelete
  <1>7. CASE \E o \in Opens : CreateConversation(o[1], o[2])
    BY <1>0, <1>7, QuietStep DEF CreateConversation, store
  <1>8. CASE ReaderStep \/ ReaderDone \/ (\E r \in Reads : GetMessages(r[1], r[2], r[3]))
    BY <1>8, ReaderKeeps
  <1>9. CASE DeleterStep \/ (\E d \in Deletes, m \in Msgs : DeleteRequest(d[1], d[2], m))
    BY <1>9, DeleterKeeps
  <1>10. CASE Restart
    BY <1>10, RestartKeeps
  <1>11. CASE UNCHANGED vars
    BY <1>0, <1>11, QuietStep DEF vars, store
  <1> QED
    BY <1>1, <1>2, <1>3, <1>4, <1>5, <1>6, <1>7, <1>8, <1>9, <1>10, <1>11 DEF Next

\* StoreApart and NothingForgotten hold in every state.
THEOREM HistoryInvariant == Spec => []HistInv
  BY HistInit, HistStep, PTL DEF Spec

-----------------------------------------------------------------------------
\* A message that a handler has routed is in the history, in the dead-letter log
\* or deleted, or its store is pending or was cut off by a restart, whatever
\* store_message_async, delete_message and the database did.
THEOREM MessagesKept == Spec => []NothingForgotten
  <1>1. HistInv => NothingForgotten
    BY DEF HistInv
  <1> QED
    BY <1>1, HistoryInvariant, PTL

\* A message that a DELETE has removed is in no later history: the only step that
\* adds a row ends a pending store, and a deleted message has none.
THEOREM DeletesFinal == Spec => DeletedStaysDeleted
  <1>1. HistInv /\ HistInv' /\ [Next]_vars => [\A m \in gone : m \notin rows']_vars
    <2> SUFFICES ASSUME HistInv, HistInv', [Next]_vars, NEW m \in gone
                 PROVE  m \in gone'
      BY DEF HistInv, StoreApart
    <2>1. gone \subseteq gone'
      BY DEF Next, vars, store, tables, SendTcp, SendWs, SendGroup, Send, Job, StoreMessage,
             UpsertConvMembers, UpdateConvActivity, ApplyDelete, LoseDelete, CreateConversation,
             GetMessages, ReaderStep, ReadMembership, ReadThrows, SelectHistory, ReaderDone,
             DeleteRequest, DeleterStep, DeleteMembers, DeleteThrows, Notify, DeleteDone, Restart
    <2> QED
      BY <2>1
  <1> QED
    BY <1>1, HistoryInvariant, PTL DEF Spec, DeletedStaysDeleted
-----------------------------------------------------------------------------
(***************************************************************************)
(* Paging.                                                                 *)
(***************************************************************************)

Reader == [pc : {"idle", "dm", "group", "select", "end"}, user : Nat, conv : Nat, limit : Nat,
           before : Nat, got : Seq(Nat), base : SUBSET Nat, failed : BOOLEAN]

\* What a client that pages has: everything it got lies above `before`, and what
\* was there when it began, still is, and is not got yet, lies below.
ReadInv ==
    /\ Len(sent) <= MaxMsg
    /\ reader \in Reader
    /\ reader.pc # "idle" => reader.limit >= 1
    /\ \A i \in 1 .. Len(reader.got) : /\ reader.got[i] \in Msgs
                                       /\ sent[reader.got[i]].conv = reader.conv
                                       /\ reader.got[i] >= reader.before
    /\ \A i, j \in 1 .. Len(reader.got) : i < j => reader.got[i] > reader.got[j]
    /\ reader.base \subseteq rows \cup gone
    /\ \A m \in reader.base : sent[m].conv = reader.conv
    /\ \A m \in reader.base \cap rows : m \in ToSet(reader.got) \/ m < reader.before
    /\ reader.pc = "end" /\ ~reader.failed => (reader.base \cap rows) \subseteq ToSet(reader.got)

\* What every step keeps: messages do not change, and what was in the history and
\* is not there any more does not come back.
Grows ==
    /\ \A m \in Msgs : m \in Msgs' /\ sent'[m] = sent[m]
    /\ rows \cup gone \subseteq rows' \cup gone'
    /\ rows' \cap (rows \cup gone) \subseteq rows
    /\ Len(sent) <= MaxMsg => Len(sent') <= MaxMsg

\* A message that is sent changes no earlier one.
LEMMA SendGrows ==
    ASSUME HistInv, NEW kind, NEW by, NEW to, NEW c, Send(kind, by, to, c)
    PROVE  Grows
  <1> DEFINE r == [conv |-> c, by |-> by, to |-> to, kind |-> kind]
  <1>1. sent \in Seq(Sent) /\ sent' = Append(sent, r) /\ Len(sent) < MaxMsg
          /\ Len(sent) \in Nat
    BY DEF Send, HistInv, StoreApart
  <1> HIDE DEF r
  <1>2. Len(sent') = Len(sent) + 1 /\ \A m \in Msgs : sent'[m] = sent[m]
    BY <1>1 DEF Msgs
  <1>3. UNCHANGED <<rows, gone>>
    BY DEF Send, store
  <1> QED
    BY <1>1, <1>2, <1>3, HistoryAssumption DEF Grows, Msgs

\* So for every step.
LEMMA StepGrows ==
    ASSUME HistInv, [Next]_vars
    PROVE  Grows
  <1>1. CASE \E u, w \in User : SendTcp(u, w)
    BY <1>1, SendGrows DEF SendTcp
  <1>2. CASE \E u \in User, c \in Conv : SendWs(u, c)
    BY <1>2, SendGrows DEF SendWs
  <1>3. CASE \E u \in User : SendGroup(u)
    BY <1>3, SendGrows DEF SendGroup
  <1>4. CASE \E m \in Msgs : StoreMessage(m)
    <2>1. PICK m \in Msgs : StoreMessage(m)
      BY <1>4
    <2>2. m \notin rows /\ m \notin gone
      BY <2>1 DEF HistInv, StoreApart, StoreMessage, Finish
    <2> QED
      BY <2>1, <2>2 DEF StoreMessage, Grows, Msgs
  <1>5. CASE \E m \in Msgs : ApplyDelete(m)
    BY <1>5 DEF ApplyDelete, Grows, Msgs, HistInv, StoreApart
  <1>6. CASE UNCHANGED <<sent, rows, gone>>
    BY <1>6 DEF Grows, Msgs
  <1> QED
    BY <1>1, <1>2, <1>3, <1>4, <1>5, <1>6
    DEF Next, vars, store, tables, Job, UpsertConvMembers, UpdateConvActivity, LoseDelete,
        CreateConversation, GetMessages, ReaderStep, ReadMembership, ReadThrows, SelectHistory,
        ReaderDone, DeleteRequest, DeleterStep, DeleteMembers, DeleteThrows, Notify, DeleteDone,
        Restart

\* A page of S: descending, and what it leaves out is below its last message.
IsPage(page, S) ==
    /\ page \in Seq(S)
    /\ \A i, j \in 1 .. Len(page) : i < j => page[i] > page[j]
    /\ page = <<>> => S = {}
    /\ page # <<>> => /\ Last(page) \in S
                      /\ \A i \in 1 .. Len(page) : page[i] >= Last(page)
                      /\ \A m \in S : m \in ToSet(page) \/ m < Last(page)

\* What a select returns, of any set of rows and under any limit, is a page of it.
LEMMA NewestPage ==
    ASSUME NEW S \in SUBSET Nat, NEW limit \in Nat \ {0}, NEW page \in Newest(S, limit)
    PROVE  IsPage(page, S)
  <1>1. PICK k \in 0 .. limit : page \in [1 .. k -> S]
    BY DEF Newest, SeqOf
  <1>2. page \in Seq(S) /\ Len(page) = k /\ DOMAIN page = 1 .. k /\ k \in Nat
    BY <1>1
  <1>3. /\ \A i, j \in 1 .. k : i < j => page[i] > page[j]
        /\ \A m \in S \ ToSet(page) : k = limit /\ m < page[limit]
    BY <1>2 DEF Newest
  <1>4. CASE page = <<>>
    <2>1. k = 0 /\ ToSet(page) = {}
      BY <1>2, <1>4 DEF ToSet
    <2> QED
      BY <1>2, <1>3, <1>4, <2>1 DEF IsPage
  <1>5. CASE page # <<>>
    <2>1. k # 0
      BY <1>2, <1>5, EmptySeq
    <2>2. Last(page) = page[k] /\ k \in 1 .. k /\ page[k] \in S
      BY <1>1, <1>2, <2>1 DEF Last
    <2>3. \A i \in 1 .. k : page[i] >= page[k]
      <3> SUFFICES ASSUME NEW i \in 1 .. k PROVE page[i] >= page[k]
        OBVIOUS
      <3>1. page[i] \in Nat /\ page[k] \in Nat
        BY <1>1, <2>2
      <3>2. CASE i = k
        BY <3>1, <3>2
      <3>3. CASE i < k
        BY <1>3, <2>2, <3>1, <3>3
      <3> QED
        BY <1>2, <3>2, <3>3
    <2> QED
      BY <1>2, <1>3, <1>5, <2>2, <2>3 DEF IsPage
  <1> QED
    BY <1>4, <1>5

\* The elements of q are those of s and then those of t.
Joins(q, s, t) ==
    /\ \A i \in 1 .. Len(q) : \/ i \in 1 .. Len(s) /\ q[i] = s[i]
                              \/ \E k \in 1 .. Len(t) : i = Len(s) + k /\ q[i] = t[k]
    /\ ToSet(s) \subseteq ToSet(q) /\ ToSet(t) \subseteq ToSet(q)

\* A concatenation.
LEMMA ConcatAt ==
    ASSUME NEW S, NEW s \in Seq(S), NEW t \in Seq(S)
    PROVE  s \o t \in Seq(S) /\ Joins(s \o t, s, t)
  <1>1. PICK a \in Nat, b \in Nat : a = Len(s) /\ b = Len(t)
    OBVIOUS
  <1>2. PICK q : q = s \o t
    OBVIOUS
  <1>3. q \in Seq(S) /\ Len(q) = a + b
    BY <1>1, <1>2, ConcatProperties
  <1>4. \A i \in 1 .. a + b : q[i] = IF i <= a THEN s[i] ELSE t[i - a]
    BY <1>1, <1>2, ConcatProperties
  <1>5. ASSUME NEW i \in 1 .. a + b
        PROVE  \/ i \in 1 .. a /\ q[i] = s[i]
               \/ \E k \in 1 .. b : i = a + k /\ q[i] = t[k]
    <2>1. CASE i <= a
      BY <1>4, <2>1
    <2>2. CASE i > a
      <3>1. i - a \in 1 .. b /\ i = a + (i - a) /\ q[i] = t[i - a]
        BY <1>4, <2>2
      <3> QED
        BY <3>1
    <2> QED
      BY <2>1, <2>2
  <1>6. \A i \in 1 .. a : i \in 1 .. a + b /\ q[i] = s[i]
    BY <1>4
  <1>7. \A k \in 1 .. b : a + k \in 1 .. a + b /\ q[a + k] = t[k]
    <2> SUFFICES ASSUME NEW k \in 1 .. b PROVE a + k \in 1 .. a + b /\ q[a + k] = t[k]
      OBVIOUS
    <2>1. a + k \in 1 .. a + b /\ ~(a + k <= a) /\ (a + k) - a = k
      OBVIOUS
    <2> QED
      BY <1>4, <2>1
  <1>8. DOMAIN q = 1 .. a + b /\ DOMAIN s = 1 .. a /\ DOMAIN t = 1 .. b
    BY <1>1, <1>3
  <1>9. ToSet(s) \subseteq ToSet(q) /\ ToSet(t) \subseteq ToSet(q)
    BY <1>6, <1>7, <1>8 DEF ToSet
  <1>10. Joins(q, s, t)
    BY <1>1, <1>3, <1>5, <1>9 DEF Joins
  <1> QED
    BY <1>2, <1>3, <1>10

\* Messages are numbers.
LEMMA RowsAreNats == HistInv => rows \subseteq Nat
  <1>1. HistInv => Len(sent) \in Nat
    BY DEF HistInv, StoreApart
  <1> QED
    BY <1>1 DEF HistInv, StoreApart, Msgs

\* The reader is not concerned.
LEMMA ReaderWaits ==
    ASSUME HistInv, ReadInv, Grows, reader' = reader
    PROVE  ReadInv'
  <1>1. rows \subseteq Msgs /\ gone \subseteq Msgs
    BY DEF HistInv, StoreApart
  <1>2. reader.base \cap rows' \subseteq rows
    BY DEF ReadInv, Grows
  <1> QED
    BY <1>1, <1>2 DEF ReadInv, Grows

\* The membership is checked, or the client stops.
LEMMA ReaderMoves ==
    ASSUME HistInv, ReadInv, UNCHANGED <<sent, rows, gone>>,
           \/ reader' = NoReader
           \/ \E pc \in {"group", "select"} : reader' = [reader EXCEPT !.pc = pc]
                                              /\ reader.pc \in {"dm", "group"}
    PROVE  ReadInv'
  <1>1. Msgs' = Msgs
    BY DEF Msgs
  <1>2. CASE reader' = NoReader
    <2>1. NoReader \in Reader /\ NoReader.pc = "idle" /\ Len(NoReader.got) = 0
            /\ NoReader.base = {}
      BY DEF NoReader, Reader
    <2> QED
      BY <1>1, <1>2, <2>1 DEF ReadInv
  <1>3. ASSUME NEW pc \in {"group", "select"}, reader' = [reader EXCEPT !.pc = pc],
               reader.pc \in {"dm", "group"}
        PROVE  ReadInv'
    <2>1. reader \in Reader
      BY DEF ReadInv
    <2>2. /\ reader' \in Reader /\ reader'.pc = pc /\ reader'.conv = reader.conv
          /\ reader'.limit = reader.limit /\ reader'.before = reader.before
          /\ reader'.got = reader.got /\ reader'.base = reader.base
          /\ reader'.failed = reader.failed
      BY <1>3, <2>1 DEF Reader
    <2> QED
      BY <1>1, <1>3, <2>2 DEF ReadInv
  <1> QED
    BY <1>2, <1>3

\* The first request of a client.
LEMMA ReaderBegins ==
    ASSUME HistInv, ReadInv, NEW u \in User, NEW c \in Conv, NEW limit \in Nat,
           GetMessages(u, c, limit)
    PROVE  ReadInv'
  <1>1. UNCHANGED <<sent, rows, gone>> /\ Msgs' = Msgs /\ Len(sent) \in Nat /\ MaxMsg \in Nat
    BY HistoryAssumption DEF GetMessages, store, Msgs, HistInv, StoreApart
  <1>2. PICK b \in SUBSET Nat : b = {m \in rows : sent[m].conv = c}
    BY RowsAreNats
  <1>3. PICK l \in Nat : l = Clamp(limit) /\ l >= 1
    BY HistoryAssumption DEF Clamp
  <1>4. u \in Nat /\ c \in Nat
    BY HistoryAssumption DEF Conv
  <1>5. reader' = [NoReader EXCEPT !.pc = "dm", !.user = u, !.conv = c, !.limit = l,
                                   !.before = MaxMsg + 1, !.base = b]
    BY <1>2, <1>3 DEF GetMessages
  <1>6. /\ reader' \in Reader /\ reader'.pc = "dm" /\ reader'.conv = c /\ reader'.limit = l
        /\ reader'.before = MaxMsg + 1 /\ Len(reader'.got) = 0 /\ reader'.base = b
    <2>1. <<>> \in Seq(Nat) /\ Len(<<>>) = 0
      BY EmptySeq
    <2>2. MaxMsg + 1 \in Nat
      BY <1>1
    <2> QED
      BY <1>3, <1>4, <1>5, <2>1, <2>2 DEF NoReader, Reader
  <1>7. \A m \in b : m \in rows /\ sent[m].conv = c /\ m < MaxMsg + 1
    BY <1>1, <1>2 DEF HistInv, StoreApart, Msgs, ReadInv
  <1>8. 1 .. Len(reader'.got) = {}
    BY <1>6
  <1> QED
    BY <1>1, <1>3, <1>6, <1>7, <1>8 DEF ReadInv

\* A page arrives, the last one, or an error that looks like it.
LEMMA ReaderSelects ==
    ASSUME HistInv, ReadInv, SelectHistory
    PROVE  ReadInv'
  <1>0. reader \in Reader /\ reader.pc = "select" /\ reader.limit >= 1
    BY DEF SelectHistory, ReadInv
  <1>1. /\ UNCHANGED <<sent, rows, gone>> /\ Msgs' = Msgs /\ reader.pc = "select"
        /\ reader \in Reader /\ reader.limit \in Nat \ {0}
    <2>1. reader.limit \in Nat
      BY <1>0 DEF Reader
    <2>2. UNCHANGED <<sent, rows, gone>> /\ Msgs' = Msgs
      BY DEF SelectHistory, store, Msgs
    <2> QED
      BY <1>0, <2>1, <2>2
  <1>2. PICK S \in SUBSET Nat :
           S = {m \in rows : sent[m].conv = reader.conv /\ m < reader.before}
    BY RowsAreNats
  <1>3. CASE reader' = [reader EXCEPT !.pc = "end", !.failed = TRUE]
    <2>1. /\ reader' \in Reader /\ reader'.pc = "end" /\ reader'.conv = reader.conv
          /\ reader'.limit = reader.limit /\ reader'.before = reader.before
          /\ reader'.got = reader.got /\ reader'.base = reader.base /\ reader'.failed = TRUE
      BY <1>1, <1>3 DEF Reader
    <2> QED
      BY <1>1, <2>1 DEF ReadInv
  <1>4. ASSUME NEW page \in Newest(S, reader.limit), page = <<>>,
               reader' = [reader EXCEPT !.pc = "end"]
        PROVE  ReadInv'
    <2>1. /\ reader' \in Reader /\ reader'.pc = "end" /\ reader'.conv = reader.conv
          /\ reader'.limit = reader.limit /\ reader'.before = reader.before
          /\ reader'.got = reader.got /\ reader'.base = reader.base
      BY <1>1, <1>4 DEF Reader
    <2>2. S = {}
      <3>1. reader.limit \in Nat \ {0}
        BY <1>1
      <3>2. IsPage(page, S)
        BY <3>1, NewestPage
      <3> QED
        BY <1>4, <3>2 DEF IsPage
    <2>3. reader.base \cap rows \subseteq ToSet(reader.got)
      BY <1>2, <2>2 DEF ReadInv
    <2> QED
      BY <1>1, <2>1, <2>3 DEF ReadInv
  <1>5. ASSUME NEW page \in Newest(S, reader.limit), page # <<>>,
               reader' = [reader EXCEPT !.pc = "dm", !.before = Last(page), !.got = @ \o page]
        PROVE  ReadInv'
    <2>1. /\ page \in Seq(S)
          /\ \A i, j \in 1 .. Len(page) : i < j => page[i] > page[j]
          /\ Last(page) \in S
          /\ \A i \in 1 .. Len(page) : page[i] >= Last(page)
          /\ \A m \in S : m \in ToSet(page) \/ m < Last(page)
      <3>1. reader.limit \in Nat \ {0}
        BY <1>1
      <3>2. IsPage(page, S)
        BY <3>1, NewestPage
      <3> QED
        BY <1>5, <3>2 DEF IsPage
    <2> DEFINE g == reader.got \o page
    <2>2. reader.got \in Seq(Nat) /\ page \in Seq(Nat)
      <3>1. page \in Seq(Nat)
        BY <2>1, SeqMonotonic
      <3> QED
        BY <1>1, <3>1 DEF Reader
    <2>3. g \in Seq(Nat) /\ Joins(g, reader.got, page)
      BY <2>2, ConcatAt
    <2>4. Len(reader.got) \in Nat /\ Len(page) \in Nat
      BY <2>2
    <2>5. /\ reader' \in Reader /\ reader'.pc = "dm" /\ reader'.conv = reader.conv
          /\ reader'.limit = reader.limit /\ reader'.before = Last(page)
          /\ reader'.got = g /\ reader'.base = reader.base
      BY <1>1, <1>5, <2>1, <2>3 DEF Reader
    <2> HIDE DEF g
    <2>6. \A i \in 1 .. Len(page) : /\ page[i] \in rows /\ page[i] \in Msgs
                                    /\ sent[page[i]].conv = reader.conv
                                    /\ page[i] < reader.before /\ page[i] \in Nat
      BY <1>2, <2>1 DEF HistInv, StoreApart
    <2>7. /\ Last(page) \in Nat /\ reader.before \in Nat /\ Last(page) < reader.before
      BY <1>1, <1>2, <2>1 DEF Reader
    <2>8. \A i \in 1 .. Len(reader.got) : /\ reader.got[i] \in Msgs
                                          /\ sent[reader.got[i]].conv = reader.conv
                                          /\ reader.got[i] >= reader.before
                                          /\ reader.got[i] \in Nat
      <3>1. \A i \in 1 .. Len(reader.got) : reader.got[i] \in Nat
        BY <2>2
      <3> QED
        BY <3>1 DEF ReadInv
    <2>9. \A i \in 1 .. Len(g) : /\ g[i] \in Msgs /\ sent[g[i]].conv = reader.conv
                                  /\ g[i] >= Last(page)
      <3> SUFFICES ASSUME NEW i \in 1 .. Len(g)
                   PROVE  g[i] \in Msgs /\ sent[g[i]].conv = reader.conv /\ g[i] >= Last(page)
        OBVIOUS
      <3>1. CASE i \in 1 .. Len(reader.got) /\ g[i] = reader.got[i]
        BY <2>7, <2>8, <3>1
      <3>2. CASE \E k \in 1 .. Len(page) : g[i] = page[k]
        BY <2>1, <2>6, <3>2
      <3> QED
        BY <2>3, <3>1, <3>2 DEF Joins
    <2>10. \A i, j \in 1 .. Len(g) : i < j => g[i] > g[j]
      <3> SUFFICES ASSUME NEW i \in 1 .. Len(g), NEW j \in 1 .. Len(g), i < j
                   PROVE  g[i] > g[j]
        OBVIOUS
      <3>1. CASE i \in 1 .. Len(reader.got) /\ g[i] = reader.got[i]
                 /\ j \in 1 .. Len(reader.got) /\ g[j] = reader.got[j]
        BY <3>1 DEF ReadInv
      <3>2. ASSUME i \in 1 .. Len(reader.got), g[i] = reader.got[i],
                   NEW k \in 1 .. Len(page), g[j] = page[k]
            PROVE  g[i] > g[j]
        BY <2>6, <2>7, <2>8, <3>2
      <3>3. ASSUME NEW k \in 1 .. Len(page), i = Len(reader.got) + k,
                   j \in 1 .. Len(reader.got)
            PROVE  FALSE
        BY <2>4, <3>3
      <3>4. ASSUME NEW k \in 1 .. Len(page), i = Len(reader.got) + k, g[i] = page[k],
                   NEW l \in 1 .. Len(page), j = Len(reader.got) + l, g[j] = page[l]
            PROVE  g[i] > g[j]
        <4>1. k < l
          BY <2>4, <3>4
        <4> QED
          BY <2>1, <3>4, <4>1
      <3> QED
        BY <2>3, <3>1, <3>2, <3>3, <3>4 DEF Joins
    <2>11. \A m \in reader.base \cap rows : m \in ToSet(g) \/ m < Last(page)
      <3> SUFFICES ASSUME NEW m \in reader.base \cap rows, m \notin ToSet(g)
                   PROVE  m < Last(page)
        OBVIOUS
      <3>1. m < reader.before /\ sent[m].conv = reader.conv
        BY <2>3 DEF ReadInv, Joins
      <3> QED
        BY <1>2, <2>1, <2>3, <3>1 DEF Joins
    <2> QED
      BY <1>1, <2>5, <2>9, <2>10, <2>11 DEF ReadInv
  <1> QED
    BY <1>2, <1>3, <1>4, <1>5 DEF SelectHistory, Page

\* Every step keeps what a client has.
LEMMA ReadStep ==
    ASSUME HistInv, ReadInv, [Next]_vars
    PROVE  ReadInv'
  <1>1. CASE reader' = reader
    BY <1>1, StepGrows, ReaderWaits
  <1>2. CASE \E r \in Reads : GetMessages(r[1], r[2], r[3])
    BY <1>2, ReaderBegins, HistoryAssumption
  <1>3. CASE ReadMembership
    <2>1. reader' = NoReader \/ \E pc \in {"group", "select"} : reader' = [reader EXCEPT !.pc = pc]
      BY <1>3 DEF ReadMembership
    <2> QED
      BY <1>3, <2>1, ReaderMoves DEF ReadMembership, store
  <1>4. CASE ReadThrows \/ ReaderDone \/ Restart
    BY <1>4, ReaderMoves DEF ReadThrows, ReaderDone, Restart, store
  <1>5. CASE SelectHistory
    BY <1>5, ReaderSelects
  <1> QED
    BY <1>1, <1>2, <1>3, <1>4, <1>5
    DEF Next, vars, store, tables, SendTcp, SendWs, SendGroup, Send, Job, StoreMessage,
        UpsertConvMembers, UpdateConvActivity, ApplyDelete, LoseDelete, CreateConversation,
        ReaderStep, DeleteRequest, DeleterStep, DeleteMembers, DeleteThrows, Notify, DeleteDone

\* What a client that pages has, in every state.
LEMMA ReadInvariant == Spec => []ReadInv
  <1>1. Init => ReadInv
    <2>1. NoReader \in Reader /\ NoReader.pc = "idle" /\ Len(NoReader.got) = 0
            /\ NoReader.base = {}
      BY DEF NoReader, Reader
    <2> QED
      BY <2>1, HistoryAssumption DEF Init, ReadInv
  <1>2. HistInv /\ ReadInv /\ [Next]_vars => ReadInv'
    BY ReadStep
  <1> QED
    BY <1>1, <1>2, HistoryInvariant, PTL DEF Spec

\* Whatever is stored and deleted between two pages of GET .../messages, a client
\* gets a descending history of its conversation that lacks nothing that was there
\* throughout (select_history with the last id as the next `before`).
THEOREM PagingExact == Spec => []PagesExact
  <1>1. ReadInv => PagesExact
    <2>1. ReadInv => DOMAIN reader.got = 1 .. Len(reader.got)
      BY DEF ReadInv, Reader
    <2> QED
      BY <2>1 DEF ReadInv, PagesExact
  <1> QED
    BY <1>1, ReadInvariant, PTL
-----------------------------------------------------------------------------
(***************************************************************************)
(* Deleting.                                                               *)
(***************************************************************************)

Deleter == [pc : {"idle", "dm", "group", "notify", "end"}, user : Nat, conv : Nat, msg : Nat,
            todo : SUBSET User, told : SUBSET User, base : SUBSET User]

\* What a DELETE knows: members are never removed from a conversation, and none is
\* a group, so the members it was owed to are found by one of the two queries.
TellInv ==
    /\ deleter \in Deleter
    /\ \A m : <<"members", m>> \in jobs => m \in Msgs /\ sent[m].conv # Group
    /\ \A u : <<Group, u>> \notin conv_members
    /\ deleter.pc \in {"dm", "group"} =>
          /\ deleter.todo = {} /\ deleter.told = {}
          /\ \A u \in deleter.base : MemberOf(u, deleter.conv)
    /\ deleter.pc \in {"notify", "end"} => deleter.base \subseteq deleter.todo \cup deleter.told
    /\ deleter.pc = "end" => deleter.todo = {}
    /\ \A u \in deleter.todo \cup deleter.told : MemberOf(u, deleter.conv)

\* The part about the tables and the coroutines, for every step.
Tables ==
    /\ \A m : <<"members", m>> \in jobs => m \in Msgs /\ sent[m].conv # Group
    /\ \A u : <<Group, u>> \notin conv_members

\* A message over TCP belongs to a conversation named after a user.
LEMMA SendTables ==
    ASSUME HistInv, Tables, NEW kind, NEW by, NEW to, NEW c, kind = "tcp" => c # Group,
           Send(kind, by, to, c)
    PROVE  Tables' /\ conv_members' = conv_members
  <1> DEFINE n == Len(sent) + 1
             r == [conv |-> c, by |-> by, to |-> to, kind |-> kind]
  <1>1. sent \in Seq(Sent) /\ sent' = Append(sent, r) /\ Len(sent) \in Nat /\ r.conv = c
    BY DEF Send, HistInv, StoreApart
  <1> HIDE DEF r
  <1>2. /\ Len(sent') = n /\ sent'[n] = r /\ n \in Msgs'
        /\ \A m \in Msgs : m \in Msgs' /\ sent'[m] = sent[m]
    BY <1>1 DEF Msgs
  <1>3. \A m : <<"members", m>> \in jobs' => <<"members", m>> \in jobs \/ (m = n /\ kind = "tcp")
    BY DEF Send
  <1>4. UNCHANGED conv_members
    BY DEF Send, tables
  <1> QED
    BY <1>1, <1>2, <1>3, <1>4 DEF Tables

\* Every step keeps the tables in order, and no member is removed.
LEMMA TablesStep ==
    ASSUME HistInv, Tables, [Next]_vars
    PROVE  Tables' /\ conv_members \subseteq conv_members'
  <1>1. CASE \E u, w \in User : SendTcp(u, w)
    <2>1. PICK u \in User, w \in User : SendTcp(u, w)
      BY <1>1
    <2>2. ConvId(u, w) # Group
      BY HistoryAssumption DEF ConvId, Lesser
    <2> QED
      BY <2>1, <2>2, SendTables DEF SendTcp
  <1>2. CASE \E u \in User, c \in Conv : SendWs(u, c)
    BY <1>2, SendTables DEF SendWs
  <1>3. CASE \E u \in User : SendGroup(u)
    BY <1>3, SendTables DEF SendGroup
  <1>4. CASE \E m \in Msgs : UpsertConvMembers(m)
    <2>1. PICK m \in Msgs : UpsertConvMembers(m)
      BY <1>4
    <2>2. <<"members", m>> \in jobs /\ jobs' \subseteq jobs /\ sent' = sent /\ Msgs' = Msgs
      BY <2>1 DEF UpsertConvMembers, Finish, Msgs
    <2>3. sent[m].conv # Group
      BY <2>2 DEF Tables
    <2>4. conv_members' \in {conv_members,
                             conv_members \cup ({sent[m].conv} \X {sent[m].by, sent[m].to})}
      BY <2>1 DEF UpsertConvMembers
    <2> QED
      BY <2>2, <2>3, <2>4 DEF Tables
  <1>5. CASE \E o \in Opens : CreateConversation(o[1], o[2])
    <2>1. Fresh # Group
      BY HistoryAssumption
    <2>2. UNCHANGED <<jobs, sent>> /\ Msgs' = Msgs
      BY <1>5 DEF CreateConversation, Msgs
    <2>3. PICK us : conv_members' = conv_members \cup ({Fresh} \X us)
      BY <1>5 DEF CreateConversation
    <2> QED
      BY <2>1, <2>2, <2>3 DEF Tables
  <1>6. CASE UNCHANGED <<sent, conv_members>> /\ jobs' \subseteq jobs
    <2>1. Msgs' = Msgs
      BY <1>6 DEF Msgs
    <2> QED
      BY <1>6, <2>1 DEF Tables
  <1> QED
    BY <1>1, <1>2, <1>3, <1>4, <1>5, <1>6
    DEF Next, vars, store, tables, Job, Finish, StoreMessage, UpdateConvActivity, ApplyDelete,
        LoseDelete, GetMessages, ReaderStep, ReadMembership, ReadThrows, SelectHistory,
        ReaderDone, DeleteRequest, DeleterStep, DeleteMembers, DeleteThrows, Notify, DeleteDone,
        Restart

\* Members stay members.
LEMMA MembersStay ==
    ASSUME conv_members \subseteq conv_members', NEW u, NEW c, MemberOf(u, c)
    PROVE  MemberOf(u, c)'
  BY DEF MemberOf, MembersOf

\* No DELETE is under way.
LEMMA DeleterIdle ==
    ASSUME Tables', deleter' = NoDeleter
    PROVE  TellInv'
  <1>1. NoDeleter \in Deleter /\ NoDeleter.pc = "idle" /\ NoDeleter.todo = {}
          /\ NoDeleter.told = {}
    BY DEF NoDeleter, Deleter
  <1> QED
    BY <1>1 DEF TellInv, Tables

\* A DELETE comes in.
LEMMA DeleteBegins ==
    ASSUME TellInv, Tables', conv_members' = conv_members,
           NEW u \in User, NEW c \in Conv, NEW m \in Nat, DeleteRequest(u, c, m)
    PROVE  TellInv'
  <1>1. PICK b \in SUBSET User : b = {w \in User : MemberOf(w, c)}
    OBVIOUS
  <1>2. u \in Nat /\ c \in Nat
    BY HistoryAssumption DEF Conv
  <1>3. deleter' = [NoDeleter EXCEPT !.pc = "dm", !.user = u, !.conv = c, !.msg = m, !.base = b]
    BY <1>1 DEF DeleteRequest
  <1>4. /\ deleter' \in Deleter /\ deleter'.pc = "dm" /\ deleter'.conv = c /\ deleter'.base = b
        /\ deleter'.todo = {} /\ deleter'.told = {}
    BY <1>2, <1>3 DEF NoDeleter, Deleter
  <1>5. \A w \in b : MemberOf(w, c)'
    BY <1>1 DEF MemberOf, MembersOf
  <1> QED
    BY <1>4, <1>5 DEF TellInv, Tables

\* The members are read: all it was owed to are among them.
LEMMA DeleteFinds ==
    ASSUME TellInv, Tables', conv_members' = conv_members, DeleteMembers
    PROVE  TellInv'
  <1>1. deleter \in Deleter /\ deleter.pc \in {"dm", "group"}
    BY DEF TellInv, DeleteMembers
  <1>2. MembersOf(Group) = {} /\ \A u, c : MemberOf(u, c)' <=> MemberOf(u, c)
    BY DEF TellInv, MembersOf, MemberOf
  <1>3. PICK found : found = IF deleter.pc = "dm" THEN MembersOf(deleter.conv)
                             ELSE IF deleter.conv = Group THEN GroupMembers ELSE {}
    OBVIOUS
  <1>4. CASE deleter' = [deleter EXCEPT !.pc = "group"]
    <2>1. /\ deleter' \in Deleter /\ deleter'.pc = "group" /\ deleter'.conv = deleter.conv
          /\ deleter'.todo = deleter.todo /\ deleter'.told = deleter.told
          /\ deleter'.base = deleter.base
      BY <1>1, <1>4 DEF Deleter
    <2> QED
      BY <1>1, <1>2, <2>1 DEF TellInv, Tables
  <1>5. CASE deleter' = NoDeleter
    BY <1>5, DeleterIdle
  <1>6. CASE deleter.user \in found /\ deleter' = [deleter EXCEPT !.pc = "notify", !.todo = found]
    <2>1. found \subseteq User /\ \A u \in found : MemberOf(u, deleter.conv)
      BY <1>3, HistoryAssumption DEF MembersOf, MemberOf
    <2>2. /\ deleter' \in Deleter /\ deleter'.pc = "notify" /\ deleter'.conv = deleter.conv
          /\ deleter'.todo = found /\ deleter'.told = deleter.told
          /\ deleter'.base = deleter.base
      BY <1>1, <1>6, <2>1 DEF Deleter
    <2>3. deleter.base \subseteq found
      BY <1>1, <1>2, <1>3, <1>6 DEF TellInv, MemberOf, MembersOf
    <2>4. deleter.told = {}
      BY <1>1 DEF TellInv
    <2> QED
      BY <1>2, <2>1, <2>2, <2>3, <2>4 DEF TellInv, Tables
  <1> QED
    BY <1>3, <1>4, <1>5, <1>6 DEF DeleteMembers

\* One more member is told.
LEMMA NotifyOne ==
    ASSUME TellInv, Tables', conv_members' = conv_members, Notify
    PROVE  TellInv'
  <1>1. deleter \in Deleter /\ deleter.pc = "notify"
    BY DEF TellInv, Notify
  <1>2. PICK u \in deleter.todo :
          deleter' = [deleter EXCEPT !.pc = IF deleter.todo = {u} THEN "end" ELSE @,
                                     !.todo = @ \ {u}, !.told = @ \cup {u}]
    BY DEF Notify
  <1>3. PICK pc \in {"notify", "end"} : pc = IF deleter.todo = {u} THEN "end" ELSE deleter.pc
    BY <1>1
  <1>4. /\ deleter' \in Deleter /\ deleter'.pc = pc /\ deleter'.conv = deleter.conv
        /\ deleter'.todo = deleter.todo \ {u} /\ deleter'.told = deleter.told \cup {u}
        /\ deleter'.base = deleter.base
    BY <1>1, <1>2, <1>3 DEF Deleter
  <1>5. \A w, c : MemberOf(w, c)' <=> MemberOf(w, c)
    BY DEF MembersOf, MemberOf
  <1> QED
    BY <1>1, <1>3, <1>4, <1>5 DEF TellInv, Tables

\* Every step keeps what a DELETE knows.
LEMMA TellStep ==
    ASSUME HistInv, TellInv, [Next]_vars
    PROVE  TellInv'
  <1>1. Tables' /\ conv_members \subseteq conv_members'
    BY TablesStep DEF TellInv, Tables
  <1>2. CASE deleter' = deleter
    <2>1. \A u, c : MemberOf(u, c) => MemberOf(u, c)'
      BY <1>1, MembersStay
    <2> QED
      BY <1>1, <1>2, <2>1 DEF TellInv, Tables
  <1>3. CASE DeleteThrows \/ DeleteDone \/ Restart
    BY <1>1, <1>3, DeleterIdle DEF DeleteThrows, DeleteDone, Restart
  <1>4. CASE \E d \in Deletes, m \in Msgs : DeleteRequest(d[1], d[2], m)
    <2>1. PICK u \in User, c \in Conv, m \in Msgs : DeleteRequest(u, c, m)
      BY <1>4, HistoryAssumption
    <2>2. m \in Nat
      BY <2>1 DEF Msgs
    <2>3. conv_members' = conv_members
      BY <2>1 DEF DeleteRequest, tables
    <2> QED
      BY <1>1, <2>1, <2>2, <2>3, DeleteBegins
  <1>5. CASE DeleteMembers
    BY <1>1, <1>5, DeleteFinds DEF DeleteMembers, tables
  <1>6. CASE Notify
    BY <1>1, <1>6, NotifyOne DEF Notify, tables
  <1> QED
    BY <1>2, <1>3, <1>4, <1>5, <1>6
    DEF Next, vars, store, tables, SendTcp, SendWs, SendGroup, Send, Job, StoreMessage,
        UpsertConvMembers, UpdateConvActivity, ApplyDelete, LoseDelete, CreateConversation,
        GetMessages, ReaderStep, ReadMembership, ReadThrows, SelectHistory, ReaderDone,
        DeleterStep

\* What a DELETE knows, in every state.
LEMMA TellInvariant == Spec => []TellInv
  <1>1. Init => TellInv
    <2>1. NoDeleter \in Deleter /\ NoDeleter.pc = "idle" /\ NoDeleter.todo = {}
            /\ NoDeleter.told = {}
      BY DEF NoDeleter, Deleter
    <2> QED
      BY <2>1 DEF Init, TellInv
  <1>2. HistInv /\ TellInv /\ [Next]_vars => TellInv'
    BY TellStep
  <1> QED
    BY <1>1, <1>2, HistoryInvariant, PTL DEF Spec

\* A DELETE that is answered has told everybody who was a member when it came in,
\* and only members, in whatever order upserts ran meanwhile (MessagesHandler).
THEOREM DeletesTold == Spec => []AllTold
  <1>1. TellInv => AllTold
    BY DEF TellInv, AllTold
  <1> QED
    BY <1>1, TellInvariant, PTL

\* A DELETE is only sent to Cassandra for a member of the conversation the row is
\* stored in: the members are read of the conversation the request names, and the
\* statement names that conversation too.
THEOREM DeletesAuthorised == Spec => DeletedByMember
  <1>1. [Next]_vars => [\A m \in doomed' \ doomed :
                           /\ deleter.msg = m
                           /\ MemberOf(deleter.user, sent[m].conv)]_vars
    <2> SUFFICES ASSUME [Next]_vars, NEW m \in doomed' \ doomed
                 PROVE  deleter.msg = m /\ MemberOf(deleter.user, sent[m].conv)
      OBVIOUS
    <2>1. DeleteMembers
      BY DEF Next, vars, store, tables, SendTcp, SendWs, SendGroup, Send, Job, StoreMessage,
             UpsertConvMembers, UpdateConvActivity, ApplyDelete, LoseDelete, CreateConversation,
             GetMessages, ReaderStep, ReadMembership, ReadThrows, SelectHistory, ReaderDone,
             DeleteRequest, DeleterStep, DeleteThrows, Notify, DeleteDone, Restart
    <2>2. IssueDelete(deleter.conv, deleter.msg) /\ MemberOf(deleter.user, deleter.conv)
      BY <2>1 DEF DeleteMembers, MemberOf
    <2> QED
      BY <2>2 DEF IssueDelete
  <1> QED
    BY <1>1, PTL DEF Spec, DeletedByMember

-----------------------------------------------------------------------------
(***************************************************************************)
(* The members of a conversation over TCP are written by a coroutine of    *)
(* the message.                                                            *)
(***************************************************************************)

\* Readable beside the fact that a TCP message is for a user, whose row the upsert
\* writes.
ReadableInv ==
    /\ Readable
    /\ \A m \in Msgs : sent[m].kind = "tcp" => sent[m].to \in User

\* A message is sent: over a WebSocket to a member, over TCP with its upsert pending.
LEMMA SendReadable ==
    ASSUME HistInv, ReadableInv, NEW kind \in {"tcp", "ws", "group"}, NEW by \in User,
           NEW to \in Conv, NEW c \in Conv, Send(kind, by, to, c),
           kind = "ws" => MemberOf(to, c), kind = "tcp" => to \in User
    PROVE  ReadableInv'
  <1> DEFINE n == Len(sent) + 1
             r == [conv |-> c, by |-> by, to |-> to, kind |-> kind]
  <1>1. /\ sent \in Seq(Sent) /\ sent' = Append(sent, r) /\ Len(sent) \in Nat
        /\ r.conv = c /\ r.by = by /\ r.to = to /\ r.kind = kind
    BY DEF Send, HistInv, StoreApart
  <1> HIDE DEF r
  <1>2. Msgs' = Msgs \cup {n} /\ sent'[n] = r /\ \A m \in Msgs : sent'[m] = sent[m]
    BY <1>1 DEF Msgs
  <1>3. \A u, d : MemberOf(u, d)' <=> MemberOf(u, d)
    BY DEF MemberOf, MembersOf, Send, tables
  <1>4. jobs \subseteq jobs' /\ missed' = missed
    BY DEF Send
  <1>5. kind = "tcp" => <<"members", n>> \in jobs'
    BY DEF Send
  <1>6. Readable'
    <2> SUFFICES ASSUME NEW m \in Msgs'
                 PROVE  /\ sent'[m].kind = "ws" => MemberOf(sent'[m].to, sent'[m].conv)
                        /\ sent'[m].kind = "tcp" /\ <<"members", m>> \notin jobs' \cup missed' =>
                              /\ MemberOf(sent'[m].by, sent'[m].conv)
                              /\ MemberOf(sent'[m].to, sent'[m].conv)
      BY <1>3 DEF Readable
    <2>1. CASE m = n
      BY <1>1, <1>2, <1>5, <2>1
    <2>2. CASE m \in Msgs
      BY <1>2, <1>4, <2>2 DEF ReadableInv, Readable
    <2> QED
      BY <1>2, <2>1, <2>2
  <1> QED
    BY <1>1, <1>2, <1>6 DEF ReadableInv

\* Rows of conv_members come and never go, an upsert ends with its rows or is missed,
\* and the end of another coroutine is no end of an upsert.
LEMMA UpsertReadable ==
    ASSUME ReadableInv, UNCHANGED sent, conv_members \subseteq conv_members',
           missed \subseteq missed',
           \A m \in Msgs : <<"members", m>> \in jobs =>
               \/ <<"members", m>> \in jobs' \cup missed'
               \/ <<sent[m].conv, sent[m].by>> \in conv_members'
                    /\ <<sent[m].conv, sent[m].to>> \in conv_members',
           \A m \in Msgs : sent[m].by \in User
    PROVE  ReadableInv'
  <1>1. Msgs' = Msgs
    BY DEF Msgs
  <1>2. \A u, d : MemberOf(u, d) => MemberOf(u, d)'
    BY DEF MemberOf, MembersOf
  <1>3. ASSUME NEW m \in Msgs, sent[m].kind = "tcp", <<"members", m>> \notin jobs' \cup missed'
        PROVE  MemberOf(sent[m].by, sent[m].conv)' /\ MemberOf(sent[m].to, sent[m].conv)'
    <2>1. CASE <<"members", m>> \in jobs
      BY <1>3, <2>1 DEF ReadableInv, MemberOf, MembersOf
    <2>2. CASE <<"members", m>> \notin jobs
      BY <1>2, <1>3, <2>2 DEF ReadableInv, Readable
    <2> QED
      BY <2>1, <2>2
  <1>4. \A m \in Msgs : sent[m].kind = "ws" => MemberOf(sent[m].to, sent[m].conv)'
    BY <1>2 DEF ReadableInv, Readable
  <1>5. Readable'
    BY <1>1, <1>3, <1>4 DEF Readable
  <1> QED
    BY <1>1, <1>5 DEF ReadableInv

\* Every step.
LEMMA ReadableStep == HistInv /\ ReadableInv /\ [Next]_vars => ReadableInv'
  <1> SUFFICES ASSUME HistInv, ReadableInv, [Next]_vars PROVE ReadableInv'
    OBVIOUS
  <1>0. \A m \in Msgs : sent[m].by \in User
    <2>1. sent \in Seq(Sent) /\ \A m \in Msgs : m \in 1 .. Len(sent)
      BY DEF HistInv, StoreApart, Msgs
    <2>2. \A m \in Msgs : sent[m] \in Sent
      BY <2>1
    <2> QED
      BY <2>2 DEF Sent
  <1>1. CASE \E u, w \in User : SendTcp(u, w)
    <2>1. PICK u \in User, w \in User : SendTcp(u, w)
      BY <1>1
    <2>2. ConvId(u, w) \in Conv /\ w \in Conv
      BY HistoryAssumption DEF ConvId, Lesser, Conv
    <2> QED
      BY <2>1, <2>2, SendReadable DEF SendTcp
  <1>2. CASE \E u \in User, c \in Conv : SendWs(u, c)
    <2>1. PICK u \in User, c \in Conv : SendWs(u, c)
      BY <1>2
    <2>2. PICK to \in MembersOf(c) \ {u} : Send("ws", u, to, c)
      BY <2>1 DEF SendWs
    <2>3. to \in Conv /\ MemberOf(to, c)
      BY <2>2 DEF MembersOf, MemberOf, Conv
    <2> QED
      BY <2>2, <2>3, SendReadable
  <1>3. CASE \E u \in User : SendGroup(u)
    BY <1>3, SendReadable DEF SendGroup, Conv
  <1>4. CASE \E m \in Msgs : UpsertConvMembers(m)
    <2>1. PICK m \in Msgs : UpsertConvMembers(m)
      BY <1>4
    <2>2. jobs' = jobs \ {<<"members", m>>} /\ sent' = sent
      BY <2>1 DEF UpsertConvMembers, Finish
    <2>3. \/ conv_members' = conv_members \cup ({sent[m].conv} \X {sent[m].by, sent[m].to})
             /\ missed' = missed
          \/ conv_members' = conv_members /\ missed' = missed \cup {<<"members", m>>}
      BY <2>1 DEF UpsertConvMembers
    <2> QED
      BY <1>0, <2>2, <2>3, UpsertReadable
  <1>5. CASE \E o \in Opens : CreateConversation(o[1], o[2])
    <2>1. UNCHANGED <<jobs, sent, missed>> /\ conv_members \subseteq conv_members'
      BY <1>5 DEF CreateConversation
    <2> QED
      BY <1>0, <2>1, UpsertReadable
  <1>6. CASE Restart
    <2>1. /\ UNCHANGED <<sent, conv_members>> /\ missed \subseteq missed'
          /\ \A m : <<"members", m>> \in jobs => <<"members", m>> \in missed'
      BY <1>6 DEF Restart, tables
    <2> QED
      BY <1>0, <2>1, UpsertReadable
  <1>7. CASE \E m \in Msgs : StoreMessage(m) \/ UpdateConvActivity(m)
    <2>1. /\ UNCHANGED <<sent, conv_members, missed>>
          /\ \A m : <<"members", m>> \in jobs => <<"members", m>> \in jobs'
      BY <1>7 DEF StoreMessage, UpdateConvActivity, Finish, tables
    <2> QED
      BY <1>0, <2>1, UpsertReadable
  <1>8. CASE UNCHANGED <<sent, jobs, conv_members, missed>>
    BY <1>0, <1>8, UpsertReadable
  <1> QED
    BY <1>1, <1>2, <1>3, <1>4, <1>5, <1>6, <1>7, <1>8
    DEF Next, vars, store, tables, Job, ApplyDelete, LoseDelete, GetMessages, ReaderStep,
        ReadMembership, ReadThrows, SelectHistory, ReaderDone, DeleteRequest, DeleterStep,
        DeleteMembers, DeleteThrows, Notify, DeleteDone

\* Once the upsert of a TCP message has committed, sender and recipient may read the
\* conversation it is stored in, whatever the order of the coroutines; the recipient
\* of a WebSocket message may already (upsert_conv_members, handle_chat).
THEOREM BothMayRead == Spec => []Readable
  <1>1. Init => ReadableInv
    <2>1. Init => Msgs = {}
      BY DEF Init, Msgs
    <2> QED
      BY <2>1 DEF ReadableInv, Readable
  <1>2. HistInv /\ ReadableInv /\ [Next]_vars => ReadableInv'
    BY ReadableStep
  <1>3. ReadableInv => Readable
    BY DEF ReadableInv
  <1> QED
    BY <1>1, <1>2, <1>3, HistoryInvariant, PTL DEF Spec

-----------------------------------------------------------------------------
(***************************************************************************)
(* The types: previews and foreign keys.                                   *)
(***************************************************************************)

\* TypeOK in the parts that different steps disturb.
JobTypes ==
    /\ jobs \subseteq {"store", "members", "activity"} \X Msgs
    /\ missed \subseteq {"store", "members"} \X Msgs
    /\ rows \cup dead \cup gone \subseteq Msgs /\ doomed \subseteq rows
TableTypes ==
    /\ \A x \in conv_members : x[1] \in conversations
    /\ DOMAIN preview = Conv
    /\ \A c \in Conv : preview[c] # 0 => preview[c] \in Msgs /\ sent[preview[c]].conv = c
HistTypes == JobTypes /\ TableTypes

\* Earlier messages stay what they are, and the tables stay or gain rows.
LEMMA TablesStay ==
    ASSUME TableTypes, Grows, UNCHANGED <<conv_members, preview>>,
           conversations \subseteq conversations'
    PROVE  TableTypes'
  BY DEF TableTypes, Grows

\* A message is sent.
LEMMA SendTypes ==
    ASSUME HistInv, HistTypes, NEW kind, NEW by, NEW to, NEW c, Send(kind, by, to, c)
    PROVE  HistTypes'
  <1>1. Grows
    BY SendGrows
  <1>2. sent \in Seq(Sent) /\ Len(sent) \in Nat
    BY DEF HistInv, StoreApart
  <1>3. Len(sent') = Len(sent) + 1
    BY <1>2 DEF Send
  <1>4. Msgs \subseteq Msgs' /\ Len(sent) + 1 \in Msgs'
    BY <1>2, <1>3 DEF Msgs
  <1>5. /\ jobs' \subseteq jobs \cup ({"store", "members", "activity"} \X {Len(sent) + 1})
        /\ UNCHANGED <<rows, dead, doomed, gone, missed>>
        /\ UNCHANGED <<conversations, conv_members, preview>>
    BY DEF Send, store, tables
  <1>6. JobTypes'
    BY <1>4, <1>5 DEF HistTypes, JobTypes
  <1>7. TableTypes'
    BY <1>1, <1>5, TablesStay DEF HistTypes
  <1> QED
    BY <1>6, <1>7 DEF HistTypes

\* The coroutines of a message.
LEMMA JobStepTypes ==
    ASSUME HistTypes, NEW m \in Msgs, Job(m), Grows
    PROVE  HistTypes'
  <1>1. Msgs' = Msgs /\ sent' = sent
    BY DEF Job, StoreMessage, UpsertConvMembers, UpdateConvActivity, Msgs
  <1>2. CASE StoreMessage(m)
    <2>1. /\ jobs' \subseteq jobs /\ rows \subseteq rows' /\ rows' \subseteq rows \cup {m}
          /\ dead' \subseteq dead \cup {m}
          /\ UNCHANGED <<doomed, gone, missed>>
          /\ UNCHANGED <<conversations, conv_members, preview>>
      BY <1>2 DEF StoreMessage, Finish, tables
    <2>2. JobTypes'
      BY <1>1, <2>1 DEF HistTypes, JobTypes
    <2> QED
      BY <2>1, <2>2, <1>1, TablesStay DEF HistTypes
  <1>3. CASE UpsertConvMembers(m)
    <2>1. /\ jobs' \subseteq jobs /\ missed' \subseteq missed \cup {<<"members", m>>}
          /\ UNCHANGED <<rows, dead, doomed, gone, preview>>
      BY <1>3 DEF UpsertConvMembers, Finish, store
    <2>2. JobTypes'
      BY <1>1, <2>1 DEF HistTypes, JobTypes
    <2>3. \/ /\ conversations' = conversations \cup {sent[m].conv}
             /\ conv_members' = conv_members \cup ({sent[m].conv} \X {sent[m].by, sent[m].to})
          \/ UNCHANGED <<conversations, conv_members>>
      BY <1>3 DEF UpsertConvMembers
    <2>4. \A x \in conv_members' : x[1] \in conversations'
      BY <2>3 DEF HistTypes, TableTypes
    <2>5. TableTypes'
      BY <1>1, <2>1, <2>4 DEF HistTypes, TableTypes
    <2> QED
      BY <2>2, <2>5 DEF HistTypes
  <1>4. CASE UpdateConvActivity(m)
    <2>1. /\ jobs' \subseteq jobs
          /\ UNCHANGED <<rows, dead, doomed, gone, conversations, conv_members>>
          /\ UNCHANGED missed
      BY <1>4 DEF UpdateConvActivity, Finish, store
    <2>2. JobTypes'
      BY <1>1, <2>1 DEF HistTypes, JobTypes
    <2>3. preview' = preview \/ preview' = [preview EXCEPT ![sent[m].conv] = m]
      BY <1>4 DEF UpdateConvActivity
    <2>4. /\ DOMAIN preview' = Conv
          /\ \A c \in Conv : preview'[c] = preview[c] \/ (c = sent[m].conv /\ preview'[c] = m)
      BY <2>3 DEF HistTypes, TableTypes
    <2>5. TableTypes'
      BY <1>1, <2>1, <2>4 DEF HistTypes, TableTypes
    <2> QED
      BY <2>2, <2>5 DEF HistTypes
  <1> QED
    BY <1>2, <1>3, <1>4 DEF Job

\* Every step.
LEMMA TypesStep == HistInv /\ HistTypes /\ [Next]_vars => HistTypes'
  <1> SUFFICES ASSUME HistInv, HistTypes, [Next]_vars PROVE HistTypes'
    OBVIOUS
  <1>0. Grows
    BY StepGrows
  <1>1. CASE \/ \E u, w \in User : SendTcp(u, w)
             \/ \E u \in User, c \in Conv : SendWs(u, c)
             \/ \E u \in User : SendGroup(u)
    BY <1>1, SendTypes DEF SendTcp, SendWs, SendGroup
  <1>2. CASE \E m \in Msgs : Job(m)
    BY <1>0, <1>2, JobStepTypes
  <1>3. CASE \E m \in Msgs : ApplyDelete(m) \/ LoseDelete(m)
    <2>1. UNCHANGED <<sent, jobs, dead, missed>> /\ UNCHANGED tables
      BY <1>3 DEF ApplyDelete, LoseDelete
    <2>2. doomed' \subseteq rows' /\ rows' \subseteq rows /\ gone' \subseteq gone \cup Msgs
      BY <1>3 DEF ApplyDelete, LoseDelete, HistTypes, JobTypes
    <2>3. JobTypes'
      BY <2>1, <2>2 DEF HistTypes, JobTypes, Msgs
    <2> QED
      BY <1>0, <2>1, <2>3, TablesStay DEF HistTypes, tables
  <1>4. CASE \E o \in Opens : CreateConversation(o[1], o[2])
    <2>1. PICK o \in Opens : CreateConversation(o[1], o[2])
      BY <1>4
    <2>2. /\ conversations' = conversations \cup {Fresh}
          /\ conv_members' = conv_members \cup ({Fresh} \X (o[2] \cup {o[1]}))
          /\ UNCHANGED <<sent, jobs, preview, missed>> /\ UNCHANGED store
      BY <2>1 DEF CreateConversation
    <2>3. JobTypes'
      BY <2>2 DEF HistTypes, JobTypes, Msgs, store
    <2>4. \A x \in conv_members' : x[1] \in conversations'
      BY <2>2 DEF HistTypes, TableTypes
    <2> QED
      BY <2>2, <2>3, <2>4 DEF HistTypes, TableTypes, Msgs
  <1>5. CASE Restart
    <2>1. jobs' = {} /\ UNCHANGED sent /\ UNCHANGED store /\ UNCHANGED tables
      BY <1>5 DEF Restart
    <2>2. missed' \subseteq {"store", "members"} \X Msgs
      BY <1>5 DEF Restart, HistTypes, JobTypes
    <2>3. JobTypes'
      BY <2>1, <2>2 DEF HistTypes, JobTypes, Msgs, store
    <2> QED
      BY <1>0, <2>1, <2>3, TablesStay DEF HistTypes, tables
  <1>6. CASE DeleteMembers
    <2>1. UNCHANGED <<sent, jobs, rows, dead, gone, missed>> /\ UNCHANGED tables
      BY <1>6 DEF DeleteMembers
    <2>2. doomed' \subseteq rows
      BY <1>6 DEF DeleteMembers, IssueDelete, HistTypes, JobTypes
    <2>3. JobTypes'
      BY <2>1, <2>2 DEF HistTypes, JobTypes, Msgs
    <2> QED
      BY <1>0, <2>1, <2>3, TablesStay DEF HistTypes, tables
  <1>7. CASE UNCHANGED <<sent, jobs, missed>> /\ UNCHANGED store /\ UNCHANGED tables
    BY <1>7 DEF HistTypes, JobTypes, TableTypes, Msgs, store, tables
  <1>8. CASE ReaderStep \/ ReaderDone \/ \E r \in Reads : GetMessages(r[1], r[2], r[3])
    BY <1>7, <1>8 DEF ReaderStep, ReadMembership, ReadThrows, SelectHistory, ReaderDone, GetMessages
  <1>9. CASE \/ \E d \in Deletes, m \in Msgs : DeleteRequest(d[1], d[2], m)
             \/ DeleteThrows \/ Notify \/ DeleteDone
    BY <1>7, <1>9 DEF DeleteRequest, DeleteThrows, Notify, DeleteDone
  <1>10. CASE UNCHANGED vars
    BY <1>7, <1>10 DEF vars
  <1> QED
    BY <1>1, <1>2, <1>3, <1>4, <1>5, <1>6, <1>8, <1>9, <1>10 DEF Next, DeleterStep

\* The types hold, with the foreign key of conv_members, whoever writes it first
\* (upsert_conv_members or POST /conversations), and every preview written by
\* update_conv_activity is of a message of its own conversation.
THEOREM HistoryTypes == Spec => []TypeOK
  <1>1. Init => HistTypes
    BY DEF Init, HistTypes, JobTypes, TableTypes
  <1>2. HistInv /\ HistTypes /\ [Next]_vars => HistTypes'
    BY TypesStep
  <1>3. HistInv /\ HistTypes /\ ReadInv /\ TellInv => TypeOK
    <2> SUFFICES ASSUME HistInv, HistTypes, ReadInv, TellInv PROVE TypeOK
      OBVIOUS
    <2>1. \A m \in Msgs : sent[m].conv \in Conv /\ sent[m].by \in User /\ sent[m].to \in Conv
      <3>1. sent \in Seq(Sent) /\ \A m \in Msgs : m \in 1 .. Len(sent)
        BY DEF HistInv, StoreApart, Msgs
      <3>2. \A m \in Msgs : sent[m] \in Sent
        BY <3>1
      <3> QED
        BY <3>2 DEF Sent
    <2>2. /\ Len(sent) <= MaxMsg /\ reader.pc \in {"idle", "dm", "group", "select", "end"}
          /\ deleter.pc \in {"idle", "dm", "group", "notify", "end"} /\ deleter.todo \subseteq User
      BY DEF ReadInv, Reader, TellInv, Deleter
    <2> QED
      BY <2>1, <2>2 DEF HistTypes, JobTypes, TableTypes, TypeOK
  <1> QED
    BY <1>1, <1>2, <1>3, HistoryInvariant, ReadInvariant, TellInvariant, PTL DEF Spec
=============================================================================
