------------------------------- MODULE History --------------------------------
(***************************************************************************)
(* The history of conversations: what the detached coroutines of a message *)
(* do once module Delivery or Groups has spawned them (the write-behind    *)
(* store into Cassandra, the upsert of conv_members, the update of the     *)
(* preview), POST /conversations, the paged GET of a history and DELETE of *)
(* a message.                                                              *)
(*                                                                         *)
(* A message is its position in `sent`, which is the order of the ids; a   *)
(* user is a number, because the id of a conversation opened over TCP is   *)
(* the smaller of two user ids.  The store and the SELECT block the io     *)
(* thread, so each is one step; a DELETE is sent and not waited for.       *)
(* Cassandra keeps the statement that was issued last, whatever order the  *)
(* statements arrive in.                                                   *)
(***************************************************************************)
EXTENDS Integers, FiniteSets, Sequences, SequencesExt

CONSTANTS
    User,       \* ids of users
    Fresh,      \* the id POST /conversations draws
    Group,      \* the id of a group
    GroupMembers,
    MaxMsg,     \* bound: messages sent
    PageMax,    \* the largest page (100 in the code)
    Chats,      \* bound: <<"tcp", sender, recipient>> and <<"ws" | "group", sender, conv>>
    Opens,      \* bound: <<creator, member_ids>> of POST /conversations
    Reads,      \* bound: <<user, conv, limit>> of a client that pages a history
    Deletes     \* bound: <<user, conv>> of DELETE /messages/{any}?conv_id=

Conv == User \cup {Fresh, Group}

ASSUME HistoryAssumption ==
    /\ User \subseteq Nat \ {0} /\ IsFiniteSet(User) /\ GroupMembers \subseteq User
    /\ Fresh \in Nat \ User /\ Group \in Nat \ (User \cup {Fresh})
    /\ MaxMsg \in Nat /\ PageMax \in Nat \ {0}
    /\ Chats \subseteq ({"tcp"} \X User \X User) \cup ({"ws", "group"} \X User \X Conv)
    /\ Opens \subseteq User \X SUBSET User
    /\ Reads \subseteq User \X Conv \X Nat /\ Deletes \subseteq User \X Conv

VARIABLES
    sent,       \* sent[m] = [conv, by, to, kind]
    jobs,       \* detached coroutines that have not run: <<what, m>>
    rows,       \* messages in the Cassandra table
    dead,       \* messages in the dead-letter log
    doomed,     \* DELETEs of stored rows on their way to Cassandra
    gone,       \* messages a DELETE has removed
    conversations, conv_members,    \* the PostgreSQL tables
    preview,    \* conversations.last_msg_preview, groups.last_msg_preview
    reader,     \* a client that pages a history, and the GET it waits for
    deleter,    \* the handler of a DELETE /messages
    missed      \* upserts that failed; stores and upserts pending when the server died

tables == <<conversations, conv_members, preview>>
store == <<rows, dead, doomed, gone>>
vars == <<sent, jobs, store, tables, reader, deleter, missed>>

Msgs == 1 .. Len(sent)
NoReader == [pc |-> "idle", user |-> 0, conv |-> 0, limit |-> 0, before |-> 0,
             got |-> <<>>, base |-> {}, failed |-> FALSE]
NoDeleter == [pc |-> "idle", user |-> 0, conv |-> 0, msg |-> 0, todo |-> {}, told |-> {},
              base |-> {}]

Init ==
    /\ sent = <<>> /\ jobs = {} /\ missed = {}
    /\ rows = {} /\ dead = {} /\ doomed = {} /\ gone = {}
    /\ conversations = {} /\ conv_members = {} /\ preview = [c \in Conv |-> 0]
    /\ reader = NoReader /\ deleter = NoDeleter

MembersOf(c) == {u \in User : <<c, u>> \in conv_members}

-----------------------------------------------------------------------------
(***************************************************************************)
(* Messages and their detached coroutines.                                 *)
(***************************************************************************)

Lesser(a, b) == IF a < b THEN a ELSE b

\* std::min(user_id_, hdr.recipient_id)
ConvId(a, b) == Lesser(a, b)

\* A routed message, with the coroutines its handler spawns.  A WebSocket sends
\* to one other member of a conversation, whichever row comes first, and ignores
\* a conversation without one; only the TCP handler creates the conversation.
Send(kind, by, to, c) ==
    /\ Len(sent) < MaxMsg
    /\ sent' = Append(sent, [conv |-> c, by |-> by, to |-> to, kind |-> kind])
    /\ jobs' = jobs \cup ({"store", "activity"} \cup (IF kind = "tcp" THEN {"members"} ELSE {}))
                         \X {Len(sent) + 1}
    /\ UNCHANGED <<store, tables, reader, deleter, missed>>

SendTcp(by, to) == <<"tcp", by, to>> \in Chats /\ Send("tcp", by, to, ConvId(by, to))
SendWs(by, c) == /\ <<"ws", by, c>> \in Chats
                 /\ \E to \in MembersOf(c) \ {by} : Send("ws", by, to, c)
SendGroup(by) == <<"group", by, Group>> \in Chats /\ Send("group", by, Group, Group)

Finish(what, m) == <<what, m>> \in jobs /\ jobs' = jobs \ {<<what, m>>}

\* Mutants: a message that cannot be stored is forgotten; a store that failed
\* once comes back later.
StoreForgets(m) ==
    /\ Finish("store", m)
    /\ rows' \in {rows, rows \cup {m}}
    /\ UNCHANGED <<sent, dead, doomed, gone, tables, reader, deleter, missed>>
StoreAgain(m) ==
    /\ <<"store", m>> \in jobs
    /\ rows' = rows \cup {m}
    /\ jobs' \in {jobs, jobs \ {<<"store", m>>}}
    /\ UNCHANGED <<sent, dead, doomed, gone, tables, reader, deleter, missed>>

\* store_message_async: one of three attempts succeeds; or none does, and the
\* message is logged, although an attempt that timed out may have got through.
StoreMessage(m) ==
    /\ Finish("store", m)
    /\ \/ rows' = rows \cup {m} /\ UNCHANGED dead
       \/ rows' \in {rows, rows \cup {m}} /\ dead' = dead \cup {m}
    /\ UNCHANGED <<sent, doomed, gone, tables, reader, deleter, missed>>

\* upsert_conv_members: the conversation, then both of its members, in one
\* transaction, or an error that is logged.
UpsertConvMembers(m) ==
    LET c == sent[m].conv IN
    /\ Finish("members", m)
    /\ \/ /\ conversations' = conversations \cup {c}
          /\ conv_members' = conv_members \cup ({c} \X {sent[m].by, sent[m].to})
          /\ UNCHANGED missed
       \/ /\ missed' = missed \cup {<<"members", m>>}
          /\ UNCHANGED <<conversations, conv_members>>
    /\ UNCHANGED <<sent, store, preview, reader, deleter>>

\* update_conv_activity: an UPDATE, which fails, or finds no row when it overtakes
\* the upsert of a new conversation.  A group's row is in another table.
UpdateConvActivity(m) ==
    LET c == sent[m].conv IN
    /\ Finish("activity", m)
    /\ \/ c \in conversations \cup {Group} /\ preview' = [preview EXCEPT ![c] = m]
       \/ UNCHANGED preview
    /\ UNCHANGED <<sent, store, conversations, conv_members, reader, deleter, missed>>

\* POST /conversations: one transaction under a new id; 500 when it throws.
CreateConversation(u, members) ==
    /\ <<u, members>> \in Opens /\ Fresh \notin conversations
    /\ conversations' = conversations \cup {Fresh}
    /\ conv_members' = conv_members \cup ({Fresh} \X (members \cup {u}))
    /\ UNCHANGED <<sent, jobs, store, preview, reader, deleter, missed>>

-----------------------------------------------------------------------------
(***************************************************************************)
(* GET /conversations/{id}/messages?before=&limit=                         *)
(***************************************************************************)

\* Bound: one client pages or deletes at a time.  A DELETE that Cassandra is still
\* to apply, and every store, may fall between two of its pages all the same.
NoRequest == reader.pc = "idle" /\ deleter.pc = "idle"

Clamp(n) == IF n < 1 THEN 1 ELSE IF n > PageMax THEN PageMax ELSE n

\* The client begins with no `before`: that is INT64_MAX, above every id.
GetMessages(u, c, limit) ==
    /\ <<u, c, limit>> \in Reads /\ NoRequest
    /\ reader' = [NoReader EXCEPT !.pc = "dm", !.user = u, !.conv = c, !.limit = Clamp(limit),
                                  !.before = MaxMsg + 1, !.base = {m \in rows : sent[m].conv = c}]
    /\ UNCHANGED <<sent, jobs, store, tables, deleter, missed>>

\* The membership: a row of conv_members, else one of group_members, else 403.
MemberOf(u, c) == u \in MembersOf(c) \/ (c = Group /\ u \in GroupMembers)

ReadMembership ==
    /\ reader.pc \in {"dm", "group"}
    /\ LET found == IF reader.pc = "dm" THEN reader.user \in MembersOf(reader.conv)
                    ELSE reader.conv = Group /\ reader.user \in GroupMembers
       IN reader' = CASE found -> [reader EXCEPT !.pc = "select"]
                      [] ~found /\ reader.pc = "dm" -> [reader EXCEPT !.pc = "group"]
                      [] OTHER -> NoReader
    /\ UNCHANGED <<sent, jobs, store, tables, deleter, missed>>

\* The read throws: 500, and the client gives up.
ReadThrows ==
    /\ reader.pc \in {"dm", "group"}
    /\ reader' = NoReader
    /\ UNCHANGED <<sent, jobs, store, tables, deleter, missed>>

\* The first messages of a set in descending order, as many as the limit allows:
\* what is left out of a page is older than all of it, and only when it is full.
\* (One sequence, as the set of its possible values.)
Newest(set, limit) ==
    {page \in SeqOf(set, limit) :
        /\ \A i, j \in DOMAIN page : i < j => page[i] > page[j]
        /\ \A m \in set \ ToSet(page) : Len(page) = limit /\ m < page[limit]}

\* Mutant: msg_id <= ?
PageIncluding(c, before, limit) ==
    Newest({m \in rows : sent[m].conv = c /\ m <= before}, limit)

\* WHERE conv_id = ? AND msg_id < ? LIMIT ?, clustered by msg_id descending.
Page(c, before, limit) == Newest({m \in rows : sent[m].conv = c /\ m < before}, limit)

\* select_history and the answer.  The client asks for the page below the last id
\* it got, with the membership checked again, until a page is empty.  An error
\* of the SELECT is a 200 with an empty page.
SelectHistory ==
    /\ reader.pc = "select"
    /\ \/ \E page \in Page(reader.conv, reader.before, reader.limit) :
             reader' = IF page = <<>>
                       THEN [reader EXCEPT !.pc = "end"]
                       ELSE [reader EXCEPT !.pc = "dm", !.before = Last(page), !.got = @ \o page]
       \/ reader' = [reader EXCEPT !.pc = "end", !.failed = TRUE]
    /\ UNCHANGED <<sent, jobs, store, tables, deleter, missed>>

\* The client has its history and may page again later.
ReaderDone ==
    /\ reader.pc = "end"
    /\ reader' = NoReader
    /\ UNCHANGED <<sent, jobs, store, tables, deleter, missed>>

-----------------------------------------------------------------------------
(***************************************************************************)
(* DELETE /messages/{msg_id}?conv_id=                                      *)
(***************************************************************************)

\* Any message id with any conversation id: neither is looked up.
DeleteRequest(u, c, m) ==
    /\ <<u, c>> \in Deletes /\ m \in Msgs /\ NoRequest
    /\ deleter' = [NoDeleter EXCEPT !.pc = "dm", !.user = u, !.conv = c, !.msg = m,
                                    !.base = {w \in User : MemberOf(w, c)}]
    /\ UNCHANGED <<sent, jobs, store, tables, reader, missed>>

\* Mutant: the id of the message is enough.
IssueAnyConv(c, m) == doomed' = doomed \cup ({m} \cap rows)

\* CassandraClient::delete_message.  Only a row that is there can be hit: the
\* INSERT of a store that has not run yet will carry a later timestamp.
IssueDelete(c, m) == doomed' = doomed \cup (IF sent[m].conv = c THEN {m} \cap rows ELSE {})

\* The members of the conversation, else of the group, are read; the caller has
\* to be one of them.  Then the DELETE is sent and the loop over them begins.
DeleteMembers ==
    LET found == IF deleter.pc = "dm" THEN MembersOf(deleter.conv)
                 ELSE IF deleter.conv = Group THEN GroupMembers ELSE {}
    IN
    /\ deleter.pc \in {"dm", "group"}
    /\ \/ /\ deleter.pc = "dm" /\ found = {}
          /\ deleter' = [deleter EXCEPT !.pc = "group"]
          /\ UNCHANGED doomed
       \/ /\ deleter.pc = "group" \/ found # {}
          /\ deleter.user \notin found
          /\ deleter' = NoDeleter
          /\ UNCHANGED doomed
       \/ /\ deleter.user \in found
          /\ IssueDelete(deleter.conv, deleter.msg)
          /\ deleter' = [deleter EXCEPT !.pc = "notify", !.todo = found]
    /\ UNCHANGED <<sent, jobs, rows, dead, gone, tables, reader, missed>>

DeleteThrows ==
    /\ deleter.pc \in {"dm", "group"}
    /\ deleter' = NoDeleter
    /\ UNCHANGED <<sent, jobs, store, tables, reader, missed>>

\* Mutant: the members of the loop after the first one without a session are not told.
NotifyFirst ==
    /\ deleter.pc = "notify"
    /\ \E u \in deleter.todo :
          deleter' = [deleter EXCEPT !.pc = "end", !.todo = {}, !.told = @ \cup {u}]
    /\ UNCHANGED <<sent, jobs, store, tables, reader, missed>>

\* The DELETE_NOTIFY of one more member, the caller too: posted to its session,
\* or pushed to its offline list (an await).
Notify ==
    /\ deleter.pc = "notify"
    /\ \E u \in deleter.todo :
          deleter' = [deleter EXCEPT !.pc = IF deleter.todo = {u} THEN "end" ELSE @,
                                     !.todo = @ \ {u}, !.told = @ \cup {u}]
    /\ UNCHANGED <<sent, jobs, store, tables, reader, missed>>

\* 204.
DeleteDone ==
    /\ deleter.pc = "end"
    /\ deleter' = NoDeleter
    /\ UNCHANGED <<sent, jobs, store, tables, reader, missed>>

\* Cassandra applies a DELETE, or it is lost: nobody waits for the future.
ApplyDelete(m) ==
    /\ m \in doomed
    /\ doomed' = doomed \ {m}
    /\ rows' = rows \ {m} /\ gone' = gone \cup {m}
    /\ UNCHANGED <<sent, jobs, dead, tables, reader, deleter, missed>>
LoseDelete(m) ==
    /\ m \in doomed
    /\ doomed' = doomed \ {m}
    /\ UNCHANGED <<sent, jobs, rows, dead, gone, tables, reader, deleter, missed>>

\* The server dies and starts again: detached coroutines and handlers are gone.
Restart ==
    /\ missed' = missed \cup {j \in jobs : j[1] # "activity"}
    /\ jobs' = {} /\ reader' = NoReader /\ deleter' = NoDeleter
    /\ UNCHANGED <<sent, store, tables>>

-----------------------------------------------------------------------------
Job(m) == StoreMessage(m) \/ UpsertConvMembers(m) \/ UpdateConvActivity(m)
ReaderStep == ReadMembership \/ ReadThrows \/ SelectHistory
DeleterStep == DeleteMembers \/ DeleteThrows \/ Notify \/ DeleteDone

Next ==
    \/ \E u, w \in User : SendTcp(u, w)
    \/ \E u \in User, c \in Conv : SendWs(u, c)
    \/ \E u \in User : SendGroup(u)
    \/ \E m \in Msgs : Job(m) \/ ApplyDelete(m) \/ LoseDelete(m)
    \/ \E o \in Opens : CreateConversation(o[1], o[2])
    \/ \E r \in Reads : GetMessages(r[1], r[2], r[3])
    \/ ReaderStep \/ ReaderDone
    \/ \E d \in Deletes, m \in Msgs : DeleteRequest(d[1], d[2], m)
    \/ DeleterStep
    \/ Restart

Spec == Init /\ [][Next]_vars

-----------------------------------------------------------------------------
(***************************************************************************)
(* Properties.                                                             *)
(***************************************************************************)

\* The types of the state.  A preview is of the conversation it stands in, and
\* a member's conversation exists (the foreign key).
TypeOK ==
    /\ Len(sent) <= MaxMsg
    /\ \A m \in Msgs : sent[m].conv \in Conv /\ sent[m].by \in User /\ sent[m].to \in Conv
    /\ jobs \subseteq {"store", "members", "activity"} \X Msgs
    /\ missed \subseteq {"store", "members"} \X Msgs
    /\ rows \cup dead \cup gone \subseteq Msgs /\ doomed \subseteq rows
    /\ \A x \in conv_members : x[1] \in conversations
    /\ \A c \in Conv : preview[c] # 0 => preview[c] \in Msgs /\ sent[preview[c]].conv = c
    /\ reader.pc \in {"idle", "dm", "group", "select", "end"}
    /\ deleter.pc \in {"idle", "dm", "group", "notify", "end"} /\ deleter.todo \subseteq User

\* A message is never forgotten: its store is pending, or it is in the history,
\* in the dead-letter log, or deleted, unless the server died with its store
\* pending.  Three failed attempts, an attempt in doubt and deletes in between
\* leave no other way out.
NothingForgotten ==
    \A m \in Msgs : \/ <<"store", m>> \in jobs \cup missed
                    \/ m \in rows \cup dead \cup gone

\* The pages a client collects are in descending order with nothing twice, hold
\* only messages of the conversation, and at the end leave out none that was in
\* the history the whole time; a message stored, or deleted, between two pages may
\* be in or out.  An error of the SELECT, which looks like the end, is excepted.
PagesExact ==
    /\ \A i, j \in DOMAIN reader.got : i < j => reader.got[i] > reader.got[j]
    /\ \A i \in DOMAIN reader.got : sent[reader.got[i]].conv = reader.conv
    /\ reader.pc = "end" /\ ~reader.failed =>
          (reader.base \cap rows) \subseteq ToSet(reader.got)

\* The two users of a message sent over TCP can read the conversation it is
\* stored in as soon as its upsert is done, in whatever order the coroutines of
\* its messages ran; the recipient of a WebSocket message could already.
Readable ==
    \A m \in Msgs :
        /\ sent[m].kind = "ws" => MemberOf(sent[m].to, sent[m].conv)
        /\ sent[m].kind = "tcp" /\ <<"members", m>> \notin jobs \cup missed =>
              MemberOf(sent[m].by, sent[m].conv) /\ MemberOf(sent[m].to, sent[m].conv)

\* A row is only deleted for a member of its own conversation, although the
\* request names message and conversation separately and neither is looked up.
DeletedByMember ==
    [][\A m \in doomed' \ doomed : /\ deleter.msg = m
                                   /\ MemberOf(deleter.user, sent[m].conv)]_vars

\* A message that was removed from the history never comes back, although its
\* store is written behind and tried three times.
DeletedStaysDeleted == [][\A m \in gone : m \notin rows']_vars

\* A DELETE that is answered has told everybody who was a member when it came in,
\* and nobody who is not one, also when members were added while it ran.
AllTold ==
    /\ deleter.pc = "end" => deleter.base \subseteq deleter.told
    /\ \A u \in deleter.told : MemberOf(u, deleter.conv)
=============================================================================
