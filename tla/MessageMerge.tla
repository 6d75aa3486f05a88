----------------------------- MODULE MessageMerge -----------------------------
(***************************************************************************)
(* One direct conversation in the browser: ChatWorkspace merges the user's *)
(* own messages, shown before the server has answered, with the events of  *)
(* the WebSocket and the pages of the history, in whatever order they come.*)
(*                                                                         *)
(* A message of the server is its number, in the order of the ids; an own  *)
(* message that has no id yet is -k for the k-th send ("temp-...").  The   *)
(* list is sorted by time for display.  Here it is in the order of the     *)
(* first appearance: the messages without an id, the only ones searched    *)
(* for other than by id, are in the order of their sends in both.          *)
(***************************************************************************)
EXTENDS Integers, Sequences, SequencesExt, FiniteSetsExt

CONSTANTS
    Content,    \* texts
    PageSize,   \* PAGE_SIZE
    MaxSend,    \* bound: messages of the user
    MaxMsg      \* bound: messages in the conversation

None == 0       \* no cursor

ASSUME MergeAssumption ==
    PageSize \in Nat \ {0} /\ MaxSend \in Nat /\ MaxMsg \in Nat /\ Content # {}

VARIABLES
    view,       \* messagesByConversation[convId]
    history,    \* historyByConversation[convId]: loaded, loading (a request), oldestCursor
    sends,      \* messages the user sent
    msgs,       \* the server: messages by number, "new", "saved" or "deleted", and of
                \* which send they are (0: the peer's),
    news,       \* and events on the way to the browser
    page,       \* the answer to the request for history
    base,       \* history when the first page was read
    got,        \* messages the browser has been given, and not told to remove since
    parted      \* sends whose entry the browser can no longer match with their message

browser == <<view, history>>
server == <<msgs, news>>
ghosts == <<base, got, parted>>
vars == <<browser, sends, server, page, ghosts>>

\* receiptRank; "none" is undefined
ReceiptRank == [none |-> -1, sending |-> 0, sent |-> 1, delivered |-> 2, read |-> 3]

\* Mutant: the latest status counts.
MergeReceiptLatest(current, next) == next

MergeReceiptStatus(current, next) ==
    IF ReceiptRank[next] > ReceiptRank[current] THEN next ELSE current

\* buildOptimisticMessage; normalizeHistoryMessage and the object built for "chat"
Optimistic(k, text) ==
    [id |-> -k, content |-> text, own |-> TRUE, pending |-> TRUE, status |-> "sending"]
FromServer(n) ==
    [id |-> n, content |-> msgs[n].content, own |-> msgs[n].own, pending |-> FALSE,
     status |-> IF msgs[n].own THEN "sent" ELSE "none"]

WithId(v, id) == {i \in DOMAIN v : v[i].id = id}

Init ==
    /\ view = <<>> /\ history = [loaded |-> FALSE, loading |-> FALSE, more |-> FALSE, cursor |-> None]
    /\ sends = 0
    /\ msgs = <<>> /\ news = {}
    /\ page = {} /\ base = {} /\ got = {} /\ parted = {}

-----------------------------------------------------------------------------
(***************************************************************************)
(* Functions on the list.                                                  *)
(***************************************************************************)

\* isSameDeliveredMessage; `near`: the messages whose time by the server is that of
\* the browser to 15 s
SameDelivered(c, m, near) == c.pending /\ c.own = m.own /\ c.content = m.content /\ m.id \in near

\* Mutant: a message is not looked for among the entries without an id.
MergeById(v, m, near) ==
    IF WithId(v, m.id) = {} THEN Append(v, m)
    ELSE [v EXCEPT ![Min(WithId(v, m.id))] =
             [m EXCEPT !.status = MergeReceiptStatus(@, v[Min(WithId(v, m.id))].status)]]

Merge(v, m, near) ==
    LET optimistic == {i \in DOMAIN v : SameDelivered(v[i], m, near)}
        over(i) == [v EXCEPT ![i] = [m EXCEPT !.pending = FALSE,
                                              !.status = MergeReceiptStatus(v[i].status, m.status)]] IN
    CASE WithId(v, m.id) # {} -> over(Min(WithId(v, m.id)))
      [] WithId(v, m.id) = {} /\ optimistic # {} -> over(Min(optimistic))
      [] OTHER -> Append(v, m)

MergeConversationMessages(v, ms, near) ==
    LET merged[i \in 0 .. Len(ms)] ==
            IF i = 0 THEN v ELSE Merge(merged[i - 1], ms[i], near)
    IN  merged[Len(ms)]

SettleOptimisticMessage(v, k) ==
    [i \in DOMAIN v |->
        IF v[i].id # -k THEN v[i]
        ELSE [v[i] EXCEPT !.pending = FALSE, !.status = MergeReceiptStatus(@, "sent")]]

\* A receipt for an unknown id gives it to the first own message without one.
UpdateMessageReceiptStatus(v, n) ==
    LET exact == WithId(v, n)
        optimistic == {i \in DOMAIN v : v[i].own /\ v[i].id < 0}
        target == IF exact # {} THEN exact ELSE optimistic
        received(m) == [m EXCEPT !.id = n, !.pending = FALSE,
                                 !.status = MergeReceiptStatus(m.status, "delivered")] IN
    IF target = {} THEN v ELSE [v EXCEPT ![Min(target)] = received(@)]

\* Messages with the time of the server may be of the browser's future.
MarkConversationMessagesRead(v, future) ==
    [i \in DOMAIN v |->
        IF ~v[i].own \/ v[i].pending \/ i \in future THEN v[i] ELSE [v[i] EXCEPT !.status = "read"]]

RemoveMessage(v, n) ==
    LET kept[i \in 0 .. Len(v)] ==
            IF i = 0 THEN <<>>
            ELSE IF v[i].id = n THEN kept[i - 1] ELSE Append(kept[i - 1], v[i])
    IN  kept[Len(v)]

-----------------------------------------------------------------------------
(***************************************************************************)
(* The server and the other user.  Delivery and History model what happens *)
(* there: an event may come late, after later ones, or never; a message is *)
(* in the history some time after it was sent.                             *)
(***************************************************************************)

Saved == {n \in DOMAIN msgs : msgs[n].life = "saved"}

Take(text, k, event) ==
    /\ Len(msgs) < MaxMsg
    /\ msgs' = Append(msgs, [send |-> k, own |-> k # 0, content |-> text, life |-> "new"])
    /\ news' = news \cup {[type |-> event, id |-> Len(msgs')]}
ServerTakes(text) == Take(text, sends', "delivered")
ServerLoses == UNCHANGED server
PeerSends(text) == Take(text, 0, "chat") /\ UNCHANGED <<browser, sends, page, ghosts>>

Save(n) ==
    /\ n \in DOMAIN msgs /\ msgs[n].life = "new"
    /\ msgs' = [msgs EXCEPT ![n].life = "saved"]
    /\ UNCHANGED <<browser, sends, news, page, ghosts>>
Delete(n) ==
    /\ n \in Saved
    /\ msgs' = [msgs EXCEPT ![n].life = "deleted"]
    /\ news' = news \cup {[type |-> "delete", id |-> n]}
    /\ UNCHANGED <<browser, sends, page, ghosts>>

-----------------------------------------------------------------------------
(***************************************************************************)
(* The browser.                                                            *)
(***************************************************************************)

\* The sends ks are parted from their messages, where their entries are still there.
Part(ks) == parted \cup {k \in ks : WithId(view, -k) # {}}

\* The server takes the message or not; the browser sees of it later in any case.
\* A second send of a text whose first entry is still pending takes that entry over,
\* and it waits for no answer.
HandleSend(text) ==
    LET m == Optimistic(sends', text) IN
    /\ sends < MaxSend
    /\ sends' = sends + 1
    /\ view' = MergeConversationMessages(view, <<m>>, {m.id})
    /\ parted' = IF \E i \in DOMAIN view : SameDelivered(view[i], m, {m.id})
                 THEN parted \cup {sends'} ELSE parted
    /\ ServerTakes(text) \/ ServerLoses
    /\ UNCHANGED <<history, page, base, got>>

\* The timeout of a send, 1.2 s after it; later it would find nothing to change.
Settle(k) ==
    /\ \E i \in DOMAIN view : view[i].id = -k /\ (view[i].pending \/ view[i].status = "sending")
    /\ view' = SettleOptimisticMessage(view, k)
    /\ parted' = Part({k})
    /\ UNCHANGED <<history, sends, server, page, base, got>>

\* handleSocketPayload
OnChat(n) ==
    /\ [type |-> "chat", id |-> n] \in news
    /\ \E near \in SUBSET {n} : view' = MergeConversationMessages(view, <<FromServer(n)>>, near)
    /\ got' = got \cup {n} /\ news' = news \ {[type |-> "chat", id |-> n]}
    /\ UNCHANGED <<history, sends, msgs, page, base, parted>>

\* The receipt of n finds no entry of that id, and a first own entry without an id
\* that is of another send.
Misnames(n) ==
    LET optimistic == {i \in DOMAIN view : view[i].own /\ view[i].id < 0} IN
    /\ WithId(view, n) = {} /\ optimistic # {}
    /\ view[Min(optimistic)].id # -msgs[n].send

OnDelivered(n) ==
    /\ [type |-> "delivered", id |-> n] \in news
    /\ view' = UpdateMessageReceiptStatus(view, n)
    /\ parted' = IF Misnames(n) THEN Part({msgs[n].send}) ELSE parted
    /\ news' = news \ {[type |-> "delivered", id |-> n]}
    /\ UNCHANGED <<history, sends, msgs, page, base, got>>
OnRead ==
    /\ msgs # <<>>
    /\ \E future \in SUBSET {i \in DOMAIN view : view[i].id > 0} :
          view' = MarkConversationMessagesRead(view, future)
    /\ UNCHANGED <<history, sends, server, page, ghosts>>

\* "delete_notify", or the answer to the user's own DELETE in handleDeleteMessage
OnDelete(n) ==
    /\ [type |-> "delete", id |-> n] \in news
    /\ view' = RemoveMessage(view, n)
    /\ got' = got \ {n} /\ news' = news \ {[type |-> "delete", id |-> n]}
    /\ UNCHANGED <<history, sends, msgs, page, base, parted>>

\* loadConversationHistory up to the answer of the server: "replace" when the
\* conversation is opened, "prepend" for older messages.
NewestBefore(cursor) ==
    LET older == {n \in Saved : cursor = None \/ n < cursor} IN
    {n \in older : Cardinality({o \in older : o >= n}) <= PageSize}

\* Mutant: the cursor is taken for the newest message still to be shown.
LoadHistoryFrom ==
    /\ ~history.loading
    /\ history.loaded => history.cursor # None
    /\ page' = NewestBefore(IF history.loaded THEN history.cursor - 1 ELSE None)
    /\ history' = [history EXCEPT !.loading = TRUE]
    /\ base' = IF history.loaded THEN base ELSE Saved
    /\ UNCHANGED <<view, sends, server, got, parted>>

\* One request at a time: "replace" while nothing is loaded, "prepend" afterwards;
\* `loading` stands for loading and for loadingMore.
LoadHistory ==
    /\ ~history.loading
    /\ history.loaded => history.cursor # None
    /\ page' = NewestBefore(IF history.loaded THEN history.cursor ELSE None)
    /\ history' = [history EXCEPT !.loading = TRUE]
    /\ base' = IF history.loaded THEN base ELSE Saved
    /\ UNCHANGED <<view, sends, server, got, parted>>

\* The messages of S as a page has them.
NewestFirst(S) ==
    {q \in [1 .. Cardinality(S) -> S] :
        ToSet(q) = S /\ \A i, j \in DOMAIN q : i < j => q[i] > q[j]}

\* The rest of it: the page arrives or the request fails.
HistoryArrives ==
    /\ history.loading
    /\ \E near \in SUBSET page, newest \in NewestFirst(page) :
          /\ view' = MergeConversationMessages(view, [i \in DOMAIN newest |-> FromServer(newest[i])], near)
          /\ parted' = Part({msgs[n].send : n \in page \ near})
    /\ history' = [loaded |-> TRUE, loading |-> FALSE, more |-> Cardinality(page) = PageSize,
                   cursor |-> IF page # {} THEN Min(page) ELSE history.cursor]
    /\ got' = got \cup page /\ page' = {}
    /\ UNCHANGED <<sends, server, base>>
HistoryFails ==
    /\ history.loading
    /\ history' = [history EXCEPT !.loading = FALSE] /\ page' = {}
    /\ UNCHANGED <<view, sends, server, ghosts>>

-----------------------------------------------------------------------------
Next ==
    \/ \E text \in Content : HandleSend(text) \/ PeerSends(text)
    \/ \E k \in 1 .. MaxSend : Settle(k)
    \/ OnRead \/ LoadHistory \/ HistoryArrives \/ HistoryFails
    \/ \E n \in 1 .. MaxMsg :
          \/ OnChat(n) \/ OnDelivered(n) \/ OnDelete(n)
          \/ Save(n) \/ Delete(n)

Spec == Init /\ [][Next]_vars

-----------------------------------------------------------------------------
(***************************************************************************)
(* Properties.                                                             *)
(***************************************************************************)

Entry == [id : (-MaxSend .. MaxMsg) \ {0}, content : Content, own : BOOLEAN,
          pending : BOOLEAN, status : DOMAIN ReceiptRank]

Sent == [send : 0 .. MaxSend, own : BOOLEAN, content : Content, life : {"new", "saved", "deleted"}]

\* The types of the variables.
TypeOK ==
    /\ view \in Seq(Entry)
    /\ history \in [loaded : BOOLEAN, loading : BOOLEAN, more : BOOLEAN, cursor : 0 .. MaxMsg]
    /\ sends \in 0 .. MaxSend
    /\ msgs \in Seq(Sent)
    /\ news \subseteq [type : {"chat", "delivered", "delete"}, id : DOMAIN msgs]
    /\ \A s \in {page, base, got} : s \subseteq DOMAIN msgs
    /\ parted \subseteq 1 .. MaxSend

\* What the browser was given it shows, with its own text, until it is told to remove
\* it, and shows once: under one id, and an own message not a second time as the entry
\* it was sent with.  No receipt that names another message, no page and no event that
\* comes late takes a message away or changes it for good.
\*
\* The code cannot keep the entry of a send and its message together in four cases
\* (`parted`), and then shows both: the timeout settled the entry before its message
\* came, the clocks are 15 s apart, a receipt gave the id to another entry, or the entry
\* took over that of the same text.
ShownOnce ==
    \A n \in got :
        /\ Cardinality(WithId(view, n)) = 1
        /\ \A i \in WithId(view, n) : /\ view[i].content = msgs[n].content
                                     /\ view[i].own = msgs[n].own
        /\ msgs[n].own /\ msgs[n].send \notin parted => WithId(view, -msgs[n].send) = {}

\* Paging back skips nothing: what the history held when it was opened is shown as
\* far as the cursor has come, and all of it when there is no more, except what was
\* deleted since.
Paged ==
    history.loaded =>
        \A n \in base \cap Saved :
            (history.cursor = None \/ n >= history.cursor \/ ~history.more) => WithId(view, n) # {}

\* The ticks of a message never go back, whatever comes late or twice.
ReceiptsUp ==
    [][\A i \in DOMAIN view, j \in DOMAIN view' :
          view[i].id = view'[j].id => ReceiptRank[view'[j].status] >= ReceiptRank[view[i].status]]_vars
=============================================================================
