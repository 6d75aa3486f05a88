# Loomic: a TLA+ verification project

Loomic is a chat server in C++20 (Boost.Asio coroutines) with a Next.js client
and a command line client. This directory models what is hard to test in it: what
happens to sessions, messages, histories, groups, accounts, ids and database
connections when coroutines interleave, connections die and databases fail, and how
the web client keeps its connection and its message lists. The modules are written
from the code; `PROJECT.json` maps every definition to the lines it stands for.

## The system

| Component | State | Operations | Where it is hard |
|---|---|---|---|
| TCP listener, TCP session (`server/src/tcp`) | socket, `user_id_`, heartbeat timer, `write_queue_`, `writing_`, token bucket | AUTH, message loop, route, flush, heartbeat, cleanup | awaits between a lookup and the action on it; two writers of one stream; exits that skip the cleanup |
| WebSocket session (`server/src/ws`) | the same without the bucket | the same over JSON, plus group, typing and read events | exceptions of the JSON library end `run()` with the connection open |
| Session registry | `map_`: user to weak_ptr | insert, lookup, remove(expected) | a reconnect overlaps the cleanup of the old connection |
| Redis client | presence keys, last_seen, offline lists, group sets, unread hashes | one blocking connection, two pool threads | never reconnects, replies are not checked |
| PostgreSQL pool | slots, free list | execute with retry classes | slots on every error path, commit in doubt |
| Cassandra client | message history | write-behind store with three attempts and a dead letter log, paging, deletion | store against delete, retry order |
| Id generator | `last_ms_`, `sequence_` | next | overflow of a millisecond, clock set back |
| Rate limiters | tokens, last refill | consume, allow | boundaries, fractions |
| HTTP server and handlers | `g_request_ctx`; rows of PostgreSQL, Redis sets and hashes | auth, users, conversations, groups, receipts, messages, push | two stores updated one after the other; checks that are stale when used; tokens used twice; one request id for all coroutines |
| Web client, chat gateway (`client/src/lib/server`) | socket, connect promise, three timers, stream buffer | connect, send, subscribe, disconnect, reconnect | late events of an old socket, timers against explicit calls |
| Web client, workspace (`ChatWorkspace.tsx`) | message lists, receipts, history cursors | send, merge, page, delete | own messages without an id, events in any order |

Threads: the HTTP server and the TCP server run on `io_ctxs_[0]`, which one thread
runs. A Redis call posts through the client's own two-thread pool and resumes on
the coroutine's executor, so the command itself runs on the io thread, but the two
pool threads may let a later call overtake an earlier one. Hence the grain of the
models: an action is the code from one `co_await` to the next, a Redis command
takes effect when the `co_await` that issued it completes, and waits of different
coroutines end in any order.

## Modules

| Module | Models | Extends / uses |
|---|---|---|
| `SessionLife` | `TcpServer::listen`, `Session::run`, `WebSocketSession::run` and `read_loop`, both heartbeat loops, `SessionRegistry`, presence and last_seen in Redis, the two gauges | |
| `Delivery` | direct messages: both `route_message`, `flush_offline_queue`, `lpush`, `lrange_and_del`, `lookup` | extends `SessionLife`; uses the promise of `Outbox` |
| `Outbox` | what the outbound side of a session promises (abstract) | |
| `WriteQueue` | `enqueue`, `do_write`, `write_frame` down to the pieces of an `async_write` | implements `Outbox` |
| `SnowflakeGen` | `SnowflakeGen::next` and the system clock | |
| `RateLimit` | `TokenBucket::consume`, `RateLimiter::allow` | |
| `PgPool` | `PgPool` and PostgreSQL going down and up | |
| `Groups` | `GroupsHandler`, group messages, typing and read events of both session classes, `ReceiptsHandler`, `list_conversations`, the group and unread commands of Redis | |
| `History` | `CassandraClient`, the detached coroutines of a message, `POST /conversations`, paging, `DELETE /messages` | |
| `Accounts` | `HttpServer`, `AuthHandler`, `UsersHandler`, presence and push handlers | |
| `ChatGateway` | `chat-gateway.ts` and the four routes under `api/chat` | |
| `MessageMerge` | the message list of a conversation in `ChatWorkspace.tsx` | |
| `MC*` | the instances TLC checks | |
| `*Proofs` | the theorems | |

**SessionLife.** `pc[s]` is the `co_await` at which `run()` of connection `s` is
suspended: `handshake`, `auth`, `reject` (writing the ERROR), `presence` (SETEX),
`ack`, `flush`, `loop` (reading the next frame), `refresh` and `pong` (a PING on
TCP), `limited` (ERROR for a refused CHAT), `conv` and `push` (a handler waits for
PostgreSQL or Redis), `cleanup` (DEL of the presence key), `last_seen`, `done`;
`gone` is the `co_return` of Session.cpp:153. A connection is used once; a
reconnect is another element of `Sess` with the same `Owner`. Time is abstracted:
the heartbeat may time out whenever it is alive, and a presence key may expire at
any time, so the EXPIRE of a PING changes nothing. This allows more than the
code does on TCP, where a punctual client keeps its key; no property that is
checked depends on the key being kept. `Malformed` is the
`nlohmann::json::type_error` of a WebSocket frame with a field of the wrong type,
which runs the cleanup while the socket is open and the heartbeat keeps the object.

**Delivery.** A message is its index in `sent`, the order in which ids are drawn.
`posted[s]` are the `net::post`ed enqueue handlers on the strand of `s`,
`pending[s]` what `enqueue()` accepted, `out[s]` what reached the peer, `offline`
the Redis lists, `spawned` the detached coroutines. `Alive` is what keeps the
`weak_ptr` of a session lockable. TCP draws the id and looks the recipient up in
one step; a WebSocket first waits for PostgreSQL, stores before it routes, and puts
the receipt straight into its own queue. `FlushBroken` is the Redis connection
breaking between LRANGE and DEL.

**WriteQueue.** `spawned` are the `do_write()` coroutines started and not yet run,
`inflight` and `done` what each running one writes: the frame it has popped and the
pieces of it on the stream. Nothing in the model keeps a second one from running; that
there is none is `OneWriter`. `direct` tells the two session classes apart. A write after the stream has closed may fail
or vanish into a kernel buffer. The refinement maps `pending` to
`inflight \o write_queue`.

**SnowflakeGen.** An id is the pair of its time and sequence fields; the machine
id is constant. **RateLimit** counts in units of which a bucket gains one per tick
and a request costs `Cost`, in exact arithmetic: the rounding of `double` is left
out. **PgPool** models the class for several threads calling `execute()`, which is
its contract; ages and idle times are a free choice at checkout. `func` commits and
returns, breaks the connection before or during its commit, or throws.

**Groups.** One group. Every handler is a coroutine in a slot: `op`, the `co_await`
it is suspended at (`pc`), the members it still has to tell, those it told. A change
of the membership is `Write` (PostgreSQL, whose commit may be in doubt), then `Cache`
(SADD or SREM, one at a time); a fan-out is `Resolve` (SMEMBERS), `Fallback` (SELECT
when the set is empty) and `RunOn` from one offline member, for whom it waits for
Redis, to the next. `claim` is what clients may conclude from the answers they got.
Redis breaks once and for good, and the server restarts with a new connection.
`unseen` counts the messages pushed for a user while none of the user's reads was under
way, until the HDEL of a later read: what the unread counter owes at least.

**History.** Begins where `Delivery` and `Groups` end: a message has an id, and its
coroutines (`store`, `members`, `activity`) are in `jobs`. `StoreMessage` has its three
attempts in one step, because the driver's future blocks the io thread; a failed one
may have taken effect. DELETE is issued and not waited for (`doomed`), and carries the
time of its issue, so a statement issued later wins wherever they meet. A client that
pages (`reader`) and a DELETE handler (`deleter`) run beside the coroutines.

**Accounts.** A connection is a coroutine from accept to close with one request; `ctx`
is `g_request_ctx.request_id`, set at the accept and read when the answer is built. A
refresh token is a number, `family[t]` the login it descends from. What a handler
reads in one step is used in a later one, with other requests in between.

**ChatGateway.** `gw` has the `ChatGatewayConnection` objects of one browser: the one in
the manager's map (`Held`) and those a sign-out took out of it (`Forgotten`), which go on
in their sockets, timers and event streams while the next request finds a new object. An
object is a record, its methods are operators on it, and a callback of a socket or a timer,
with the promises it settles, is an action. `life[s]` is a socket between `tls.connect` and
its close event. A promise is resolved in the step that resolves it, with what the waiting
POST does then, because microtasks run before the next callback. That the close event of a
destroyed socket comes before a connection opened after it is established (`ClosesFirst`)
is an assumption about libuv; the proofs rest on it. `Forgotten` is only a bound: a sign-out
happens when one of its places is free, and the proofs hold for any number. `cutOff` marks
the objects signed out in the middle of a connection attempt. The pages of the client do not
call these routes at present: ChatWorkspace opens a WebSocket of its own.

**MessageMerge.** An entry is `id` (the server's, or -k for the k-th optimistic message),
text, direction, `pending` and receipt status. The functions on the list have the names
they have in the code. What the server does is a set of events that may come in any
order or never, and a history that fills late. The sort by time is for display, as the
module's header explains. The 15 seconds of `isSameDeliveredMessage` depend on two
clocks and are a free choice for every message (`near`); the timestamp a read event is
compared with (`future`) is as well. A message of the server knows of which send it is;
`parted` are the sends whose entry the code can no longer match with their message. History
is loaded by one request at a time, so that `loading` stands for `loading` and `loadingMore`
of the code. Opening a conversation again from the search (ChatWorkspace.tsx:2137) reads its
newest page a second time; that is left out.

## What is checked

| Run | Instance | Shows |
|---|---|---|
| `session_life` | one user, a TCP and a WebSocket connection | `RegistryBacked`, `PresenceBacked`, `OnlyOwnerUnregisters`; `SessionEnds` under fairness |
| `write_queue` | frames of one and two pieces, five writes, either session class | `NoLostWakeup`, `FramesIntact`, refinement of `Outbox` with its liveness |
| `delivery` | WebSocket sender, TCP recipient, two messages | `AtMostOnce`, `HistoryComplete`, `PathOrder`, `Settles` |
| `delivery_two_devices` | TCP sender, recipient with two WebSockets, one message | `RightRecipient` |
| `snowflake` | three ids per millisecond, ten ids | `NonDecreasing`, `AtMostTwice` |
| `rate_limit` | a session's bucket and a lazy one, 2.5 tokens, seven ticks | `WindowBound`, `OnlyExcessRefused` |
| `pg_pool` | two threads, two connections | `NoSlotLost`, `CommitBound`, `CallsEnd` |
| `groups` | three users, two handlers at a time, one unread message | `MembershipSettled`, `FanoutReaches`, `FanoutSound`, `UnreadCovers` |
| `history` | three users, a group of two, two messages, pages of one and two | `NothingForgotten`, `PagesExact`, `AllTold`, `DeletedByMember`, `DeletedStaysDeleted` |
| `accounts` | two connections, two sign-ups for one name, three refresh tokens | `Registered`, `FamilyBound`, `HandedOutValid`, `RequestsEnd` |
| `chat_gateway` | an old and a new object, each with an old and a new socket and an event stream | `TunnelSound` (`OneEach`, `NoneLeft`, `AuthFirst`, `InStep`, `HeartbeatRuns`), `NeverStranded`, `TriedAgain`, `SendEnds` |
| `message_merge` | two own messages, two in the conversation, pages of one, two texts | `ShownOnce`, `Paged`, `ReceiptsUp` |

The modules state more than the runs name: the type invariant of each module,
`OneWriter`, `GaugesNested`, `IncreasingUntilOverflow`, `Exclusive`, `NeverBlocks`,
`AdminOnly`, `Readable`, `PatchesMerge` and `SoloTraced` hold on the same instances (add
one to the `INVARIANTS` of the module's configuration to check it), and all but three of
the type invariants are proved below. They are plainer, or follow from the ones in the table.

Bounds. Two connections of one user are what the registry and presence hazards
need: an old and a new one. Two messages are what an ordering violation needs.
The delivery runs start with the sender connected (a reachable state; connecting
is explored with the recipient). `delivery` leaves out the expiry of presence keys,
which no handler reads; `delivery_two_devices` identifies states that differ only
in variables no message step reads, and the recipient's two equal connections.
`MaxSeq = 2` makes the overflow happen at the third id of a millisecond.
`Capacity = 5, Cost = 2` leaves half a token over, so fractions matter.
In `groups` handlers of one slot change the group, those of the other change it as
well or read it (`Calls`), one user comes and goes (`Mobile`), and a message is sent
while no counter can pass `MaxUnread`. In `history` two messages are what a page
boundary and an overtaking need; one client pages and one DELETE handler runs at a
time. In `accounts` a behaviour uses one of three menus of operations (accounts,
tokens, profiles and devices), because these share no rows; three tokens are a login
and two rotations, and one token may expire. In `chat_gateway` two sockets are all an object
can have: a third would need a connection attempt before the close event of the first; one
forgotten object beside the new one is what a second tunnel needs.
In `message_merge` two own messages are what a wrong naming needs, two messages and
pages of one what a page boundary needs; texts are only compared, hence the symmetry.

Deadlock is not checked where the behaviour really ends: connections are used
once and messages, ids and requests are bounded. `pg_pool`, `groups`, `history`,
`accounts`, `chat_gateway` and `message_merge` run for ever and are checked for it.

Fairness. The io thread resumes every coroutine whose wait is over (weak fairness
of `RunStep`, `RunPosted`, `Push`, `RouteWs`/`ResolveFails`, `DoWrite`); a read on a
closed socket fails; an open stream takes the bytes written to it; pool threads are scheduled and database calls return or
throw (`CallsEnd`, and in `Accounts` every step of a request after it was read; a
client that never sends its request may keep a connection; that the awaits return is
assumed, so `RequestsEnd` shows that no handler loops or stops short). In `ChatGateway` the
reconnect timer fires, a connection attempt ends one way or the other, and callbacks of
writes and close events come. That an attempt ends is not the code's doing: `tls.connect` is
given no timeout (chat-gateway.ts:207), and a server that takes the connection and then stays
silent in the handshake holds the attempt, and with it the POSTs that `SendEnds` is about.
Nothing else is assumed of peers: they may stay silent for ever.

### Known divergences

Three formulas state what the documentation says and the code does not keep. They stand
in their modules; added to the `INVARIANTS` of the configuration named, each gives a
short counterexample.

* `DeliveredOnConnect` (`Delivery`, `MCDelivery.cfg`), after api/openapi.json:30 "Messages
  sent to offline recipients are queued in Redis and delivered on next connect": the
  recipient registers and drains its list between the sender's lookup (Session.cpp:404)
  and the completion of its `lpush` (429); the message waits for the next connect
  although the recipient is online.
* `Unique` (`SnowflakeGen`, `MCSnowflakeGen.cfg`), after SnowflakeGen.hpp:14 "Returns the
  next unique ID": after the spin of an overflow `last_ms_` keeps its old value, so the
  next call in the new millisecond starts its sequence at 0 again.
* `Traced` (`Accounts`, `MCAccounts.cfg`), after api/openapi.json:5, by which the
  `X-Request-ID` of a response "uniquely identifies the request": a second connection is
  accepted while the first request is being read; it overwrites the request id of the
  thread (HttpServer.cpp:136), and the first answer carries it (203; it is empty if the
  second connection has ended meanwhile).

Others were seen while modelling and left out of the properties, because the code does
not promise otherwise or the case is of the same kind as one above:

* a TCP connection that fails AUTH is never taken off `loomic_active_connections`
  (Session.cpp:105-119 against TcpServer.cpp:63);
* a WebSocket ping does not refresh the presence key (WebSocketSession.cpp:167), and
  the cleanup of one connection deletes the key another one of the same user still
  needs (Session.cpp:229), so `GET /users/{id}/presence` can report a connected user
  as offline;
* DELIVERED is sent when the frame is posted to the recipient's strand, before
  anything is written; a closing connection then drops it (Session.cpp:411);
* on TCP `run()` writes PONG and ERROR past the queue while `do_write()` may be inside
  an `async_write` (Session.cpp:149, 162, 560), and so splits a large frame; `FramesIntact`
  holds because it passes over these frames, and shows that nothing else splits one;
* a CHAT header announcing more than 1 MB leaves `Session::run` with a `co_return` that
  skips the cleanup (Session.cpp:153): the session stays in the gauge whose help text is
  "Number of currently authenticated TCP/WebSocket sessions" (MetricsRegistry.cpp:35),
  its presence key is left to its TTL, and its registry entry until the user connects again;
* ids repeat when the system clock is set back (SnowflakeGen.cpp:19; set `ClockSteps`
  to `BackAndForth`);
* LRANGE and DEL are two commands: if the connection breaks between them the
  items are delivered and remain in the list for the next server process;
* a read of a group resets the counter at its HDEL, some awaits after it arrived: a message
  pushed and counted in between is no longer counted although nobody has read it
  (ReceiptsHandler.cpp:69-104); `UnreadCovers` leaves out exactly these messages;
* a SADD or SREM that is dropped after the Redis connection broke leaves the set and
  PostgreSQL different for good; the properties of `Groups` except it (`lost`);
* a group message is fanned out, and a WebSocket message stored, without a check that
  the sender is a member (WebSocketSession.cpp:427, Session.cpp:309);
* over TCP a conversation is named by the smaller user id (Session.cpp:388), so all
  conversations of one user with users of larger ids share one history;
* a DELETE before the store has run, or one that Cassandra drops, leaves the message
  although 204 is answered and DELETE_NOTIFY sent; messages whose store is pending
  when the server dies are not stored; an error of the SELECT is an empty page with
  status 200 (CassandraClient.cpp:250); the preview of a conversation may be missing
  or an older one, when its UPDATE overtakes the upsert or another UPDATE;
* two overlapping refreshes of one token both succeed and leave two valid tokens, as
  do a refresh and a logout (AuthHandler.cpp:283), while openapi.json:661 says "The old
  refresh token is invalidated immediately"; `FamilyBound` shows the extent;
* the loser of two overlapping registrations gets 500, not 409; a device token that
  could not be written is answered 200 or 204 (PushService.cpp:37);
* gateway: `disconnect()` during a connection attempt does not reach the new socket
  (chat-gateway.ts:182-196, 221), which authenticates and stays connected after the sign-out,
  while the next request opens a tunnel of a new object: the browser has two. A POST that was
  waiting resets `userInitiatedDisconnect`, so that the forgotten object reconnects for good.
  `NoneLeft` in `TunnelSound` excepts these objects (`cutOff`), and shows that no other
  forgotten object has a tunnel. A callback of AUTH after `disconnect()` sets the status to
  "connected"; a reconnect cancels the idle timer and nothing sets it again
  (chat-gateway.ts:123), so a connection without event streams stays;
* workspace: an own message is shown twice, as the entry it was sent with and as the message
  of the server, when the code cannot match the two. These are the cases of `parted`: the
  timeout settled the entry before the message had an id, and a history page does not recognise
  it (ChatWorkspace.tsx:424, 499); the clocks are more than 15 seconds apart; a receipt for an
  id the list does not have is given to the first own message without one (606), which is
  another, because the one meant was refused, deleted, or overtaken; or the entry is that of
  an earlier send of the same text, taken over within 1.2 seconds (the earlier one is then
  shown only when its message comes). `ShownOnce` shows that there are no others. A page that was
  read before a deletion brings the message back.

## What is proved

For every value of the constants, from the named assumptions of each module.

| Module | Theorems | Inductive invariant |
|---|---|---|
| `DeliveryProofs` | of `SessionLife`: `LifeTypes`, `RegistrySound`, `PresenceSound`, `RegistryOwnership`, `GaugesSound` | `LifeInv`: types, `RegistryBacked` and `PresenceBacked` together are inductive; `PcMove` says once what every move of `run()` that touches neither registry nor Redis keeps. `GaugeInv`: `active_sessions` is the number of sessions between AUTH and `cleanup`, or gone without it, and `active_connections` at least that of the counted connections (one refused at AUTH is never subtracted) |
| | of `Delivery`: `DeliveryInvariant`, `DeliveryTypes`, `NothingUnstored`, `RightConnection`, `InPathOrder`, `DeliveredOnce` | `DeliveryInv`, explained below |
| `SessionIoProofs` | of `WriteQueue`: `QueueTypes`, `SingleWriter`, `WakeupKept`, `FramesWhole`, `QueueImplementsOutbox` | `QueueInv`: the number of writers is that of `writing`, which makes the wakeup property inductive; the refinement has one step per action. `FrameInv` adds that the last piece of a queued frame on the wire, replies of `run()` passed over, is the one before the next piece of the frame being written (`Tip`); it needs the one writer |
| | of `RateLimit`: `RateTypes`, `RateWindows`, `RateFair` | `RateInv`: what a bucket holds is bounded above and below by its grants and the time since; the windows follow |
| `GroupsProofs` | `GroupsInvariant`, `MembershipsSettled`, `FanoutComplete`, `FanoutPrivate`, `UnreadNeverShort`, `RolesKept` | `GroupsInv`: for every handler what its `due`, `banned`, `todo`, `posted` and `pushed` say about the member rows and the Redis set at its `pc`; a claim of a client is backed by rows, set and the absence of a handler that could undo it; the counters. One lemma per action, over what a step does to one handler. `AdminOnly` (`RolesKept`) is inductive beside the types |
| `HistoryProofs` | `HistoryInvariant`, `MessagesKept`, `DeletesFinal`, `PagingExact`, `DeletesTold`, `DeletesAuthorised`, `BothMayRead`, `HistoryTypes` | `HistInv`: what is stored, deleted, dead-lettered and pending is kept apart (`StoreApart`), and nothing is forgotten; the second gives that a deleted message has no store left that could bring it back. `ReadInv`: the reader's pages go down to its cursor and hold what was there from the start above it. `TellInv`: whom a DELETE has told and has still to tell. `ReadableInv`: `Readable`, and a message over TCP is for a user, whose row its upsert writes. `HistTypes`: the foreign key and the conversation of a preview |
| `AccountsProofs` | `TokensValid`, `RegisteredOnce`, `TokensBounded`, `SoloRequestsTraced`, `PatchesKept` | `HandedOutValid` is inductive itself; for registrations `RegInv`: `Registered` and what a connection holds at each `pc` (`ConnOK`), from the assumption that the accounts there were have distinct names and emails; for token families `TokInv`: tokens are drawn one after the other, and the one a connection is about to insert is in no row yet, is of the family of the one it replaces, and is no other connection's. `SoloInv`: while a request is alone every other connection is idle and the variable of the thread is its own. `PatchInv`: nothing is concluded about a field with an UPDATE under way, and of two for one field both know of the clash. Both rest on a classification of the steps of a handler (`Begins`, `Continues`, `Answers`, `Ends`) |
| `ChatGatewayProofs` | `GatewayInvariant`, `TunnelSingle`, `NoneLeftBehind`, `AuthAlwaysFirst`, `BytesInStep`, `HeartbeatKept`, `TunnelAlwaysSound`, `NotStranded` | `GwInv`, of every object, in the map or forgotten: `Sound` (at most one socket alive, which is the one held or the one the promise is for; what was written and buffered belongs to it) and `Busy` (a wanted connection has an event to come); a forgotten object that was not signed out in the middle of an attempt is `Still` (no attempt, no timer to reconnect). Lemmas say of each method, as an operator on the record, what it keeps; an action is their composition |
| `ResourceProofs` | of `SnowflakeGen`: `IdsOrdered`, `IdsAtMostTwice` | `GenInv`: where the last ids stand relative to the clock, `last_ms` and `sequence`, before and after an overflow; assumes `ClockSteps \subseteq Nat` |
| | of `PgPool`: `PoolTypes`, `SlotsAccounted`, `CommitsBounded`, `AcquireNeverBlocks` | `PoolInv`: slots are partitioned between the free list and the threads inside; effects are bounded by where the call is. `AcquireNeverBlocks` adds \|Thread\| <= \|Slot\| and the pigeonhole principle |
| `MessageMergeProofs` | `MergeInvariant`, `MergeTypes`, `SendInvariant`, `AllShownOnce`, `PagingSkipsNothing`, `TicksOnlyRise` | `MergeInv` and `SendInv`, explained below |

**The argument for `Delivery`.** The three properties of messages are not inductive, and
need each other. `DeliveryInv` has five parts besides `LifeInv`:

* `MsgTypes`, and `HistoryComplete` as it stands;
* `AddressInv`: every frame a connection holds (`Held`: on its strand, in its write queue,
  with its peer) is for its owner, and so is what is in a Redis list;
* `PlaceInv`: no two connections hold one message; while a handler pushes a message nobody
  else has it, it is not marked as gone offline, and it is the last one its connection sent;
  as long as Redis works, a list and a connection have no message in common;
* `OrderInv`: two messages are kin when one connection sent them and both went the same
  way. Kin is in order in what is written, queued and posted, in this order (`Line`), and in
  the lists; what is listed comes after what the owner's connections have; what is posted
  never went offline, what is listed did.

That a message is kin of itself makes `AtMostOnce` follow from the order. The drain of a list
is where the parts meet: what it appends comes after all earlier drains, and is of no kin of
what waits on the strand. The LPUSH needs that its message is the sender's last. The proof
first shows that every action has one of six effects on messages (`Effect`), then each part
effect by effect. `DeliveryInv` holds on both instances of the runs.

**The argument for `MessageMerge`.** A page is merged into the list message by message, and
a deletion goes through it entry by entry; in the model both are recursive functions over the
number of messages done. What they compute for a page and a list of any length is an
induction, which the proofs do from the least counterexample (`LeastNat`, from the
well-foundedness of the numbers), with an invariant of the loop (the list stays `Tidy`, and
`Follows` from the one before: what was shown stays shown, status ranks only rise). `ShownOnce` needs `MergeInv` and `SendInv`:

* `ListInv`: the list is `Tidy` (no id twice, a pending entry has a temporary id), temporary
  ids are used up in order (`TempIds`), so that a new optimistic entry meets no old one, and
  what was received is shown with its text and side;
* `PagingInv`: how the cursor, the page on its way and what was received relate (`PagedSoFar`,
  `PageNext`), and that only what the server has deleted is removed;
* `SendInv`: an entry whose message the server has, and that is not parted from it, is
  pending, and the only pending one of its text (`Matched`). So the message finds this entry
  when it comes, by its text in a page or as the first without an id for a receipt. A send
  that takes over a pending entry of its text is the case where this could fail, and is parted.

Only model-checked is liveness (`SessionEnds`, `Settles`, `CallsEnd`,
`RequestsEnd`, `TriedAgain`, `SendEnds` and the fairness half of the refinement of `Outbox`),
which the prover cannot handle, and the type invariants of `Groups` (the bounds of its
counters), `Accounts` and `ChatGateway` beyond what the inductive invariants hold of them.
`TypeOK` of `Accounts` says besides that ids are drawn beyond those of the accounts there
were, which the instances satisfy and `AccountsAssumption` does not ask for.

## Not modelled, and the plan

Left out of the modelled components:

* the bytes of a stream: frames are whole, so that the payload of a PING or TYPING
  frame, which `Session::run` does not read (Session.cpp:165), is never out of step;
  header encoding and `extractFrames` on the client are the other half of it;
* typing and read events of a direct conversation: a query, a lookup and a post, with
  no state behind them;
* upload and download of files: a stream to and from Azure Blob Storage without state
  of the server's own;
* the matching of paths in `HttpServer` (an operation is chosen directly), start-up and
  shutdown of the server, the build without Cassandra;
* the 90 days after which Cassandra drops a row, its replicas, and cursors beyond 2^63;
* counters and histograms of the metrics, which nothing reads;
* in the web client the reconnect loop of the browser's own WebSocket, which is that of
  the gateway without a promise, the list of conversations and the session refresh.

Left out for good: JWT signing, password hashing, TLS and protobuf (libraries);
configuration, logging, health and docs endpoints (pure I/O); push delivery (a
stub); rendering, the command line client and the load generator (no protocol of
their own).

Next: `FrameStream` for header and payload in step on both ends; the browser's
WebSocket as a second instance of the gateway's pattern. Proofs to add: the rest of the type
invariants of `Groups` and `Accounts`, which need the number of increments under way and the
ids of the accounts there were.
