------------------------------- MODULE Accounts -------------------------------
(***************************************************************************)
(* The HTTP server and the handlers behind it that keep accounts: register,*)
(* login, logout and refresh, profiles, presence, device tokens.           *)
(*                                                                         *)
(* A connection carries one request.  Its coroutine runs on the io thread  *)
(* with those of all other connections; a step is the code from one        *)
(* co_await to the next.  A read of PostgreSQL may throw; a write may      *)
(* throw with the commit done or not (NonRetryableWrite).  Refresh tokens  *)
(* and user ids are numbered in the order they are drawn.                  *)
(***************************************************************************)
EXTENDS Integers, FiniteSets

CONSTANTS
    Conn,       \* connections at a time; a slot is used again after its close
    Value,      \* values of bio and avatar_url
    Signups,    \* bound: <<username, email>> of POST /auth/register
    Menus,      \* bound: [ops, users]: the <<connection, operation>>s that occur in a
                \* behaviour, and the accounts there were before it
    MaxUser,    \* bound: ids drawn for users
    MaxToken,   \* bound: refresh tokens drawn
    Mortal      \* bound: tokens that may expire

None == "none"
Field == {"bio", "avatar_url"}
Uid == 1 .. MaxUser
Token == 1 .. MaxToken
Op == {"register", "login", "logout", "refresh", "patch", "presence", "user",
       "push", "unpush", "options", "unknown", "ws"}

ASSUME AccountsAssumption ==
    /\ MaxUser \in Nat /\ MaxToken \in Nat /\ None \notin Conn \cup Value
    /\ \A m \in Menus :
          /\ m.ops \subseteq Conn \X Op
          /\ \A u \in m.users : u.uid \in 1 .. MaxUser
          /\ \A u, w \in m.users : u.name = w.name \/ u.email = w.email => u = w
    /\ Mortal \subseteq Token

VARIABLES
    users,      \* users: [uid, name, email]
    profile,    \* users.bio, users.avatar_url
    devices,    \* device_tokens: users with a registered device
    live,       \* refresh_tokens: the rows
    expired,    \* tokens past expires_at
    family,     \* family[t]: the token of the login that t descends from
    owner,      \* owner[f]: the user of the login
    uids, drawn,    \* ids and tokens drawn so far
    access,     \* users who hold an access token
    ctx,        \* g_request_ctx.request_id: the connection it was made for
    conn,       \* the coroutines
    menu,       \* the element of Menus this behaviour uses
    \* What happened, for the properties:
    late,       \* late[f]: rotations whose DELETE hit nothing
    outs,       \* outs[f]: logouts whose DELETE hit
    handed,     \* tokens of an answer 200
    ended,      \* tokens a committed rotation or logout deleted
    sure        \* what a client may conclude about a field, None when nothing

tokenVars == <<live, expired, family, owner, drawn, late, outs, handed, ended>>
userVars == <<users, uids, profile, sure, devices>>
vars == <<userVars, tokenVars, access, ctx, conn, menu>>

Idle == [pc |-> "idle", op |-> None, uid |-> 0, name |-> None, email |-> None,
         tok |-> 0, new |-> 0, field |-> "bio", val |-> None,
         clash |-> FALSE, status |-> 0, xid |-> None, solo |-> FALSE]

Init ==
    /\ menu \in Menus
    /\ users = menu.users /\ uids = Cardinality(users) /\ devices = {}
    /\ profile = [u \in Uid |-> [f \in Field |-> None]]
    /\ sure = [u \in Uid |-> [f \in Field |-> None]]
    /\ live = {} /\ expired = {} /\ drawn = 0 /\ handed = {} /\ ended = {}
    /\ family = [t \in Token |-> t] /\ owner = [t \in Token |-> 0]
    /\ late = [t \in Token |-> 0] /\ outs = [t \in Token |-> 0]
    /\ access = {u.uid : u \in users} /\ ctx = None
    /\ conn = [c \in Conn |-> Idle]

-----------------------------------------------------------------------------
(***************************************************************************)
(* HttpServer                                                              *)
(***************************************************************************)

\* listen() and the start of handle_connection().
Accept(c) ==
    /\ conn[c].pc = "idle"
    /\ ctx' = c
    /\ conn' = [d \in Conn |->
          IF d = c THEN [Idle EXCEPT !.pc = "reading",
                                     !.solo = \A e \in Conn \ {c} : conn[e].pc = "idle"]
          ELSE [conn[d] EXCEPT !.solo = FALSE]]
    /\ UNCHANGED <<userVars, tokenVars, access>>

\* handle_connection() returns; the peer has its answer, or an exception was
\* swallowed and it has none.
Leave(c) ==
    /\ ctx' = None
    /\ conn' = [conn EXCEPT ![c] = Idle]

\* The peer goes before its request is complete; or the handler throws before its
\* first await (a field of the body with the wrong type), which nobody catches.
ReadFails(c) == conn[c].pc = "reading" /\ Leave(c) /\ UNCHANGED <<userVars, tokenVars, access>>

\* Of a request, what its answer is about.
Keep(c, status) ==
    IF status \in {201, 409}
    THEN [Idle EXCEPT !.uid = conn[c].uid, !.name = conn[c].name, !.email = conn[c].email]
    ELSE Idle

\* The answer of a handler gets its X-Request-ID and is being written.
Answer(c, status) ==
    conn' = [conn EXCEPT ![c] = [Keep(c, status) EXCEPT !.pc = "writing", !.status = status, !.xid = ctx,
                                             !.solo = conn[c].solo]]

\* async_write returns or throws.
Written(c) == conn[c].pc = "writing" /\ Leave(c) /\ UNCHANGED <<userVars, tokenVars, access>>

\* OPTIONS, and a request no route matches.
Unrouted(c, op) ==
    /\ op \in {"options", "unknown"}
    /\ Answer(c, IF op = "options" THEN 204 ELSE 404)

\* /ws: the coroutine lives as long as the WebSocket session (SessionLife), and
\* clears the request id when that ends.
Upgrade(c, op) == op = "ws" /\ conn' = [conn EXCEPT ![c].pc = "ws"]
WsEnds(c) == conn[c].pc = "ws" /\ Leave(c) /\ UNCHANGED <<userVars, tokenVars, access>>

-----------------------------------------------------------------------------
(***************************************************************************)
(* The first part of the handlers: require_auth, the body, the parameters. *)
(***************************************************************************)

\* The caller of a handler that needs an access token.  Tokens are not revoked.
RequireAuth(c, op, u, pc) ==
    \/ u \notin access /\ Answer(c, 403)
    \/ u \in access /\ conn' = [conn EXCEPT ![c].op = op, ![c].uid = u, ![c].pc = pc]

\* A body that is no JSON, lacks a field or has a short password; a bad id.
BadRequest(c, op) == op \notin {"options", "unknown", "ws"} /\ Answer(c, 400)

PostRegister(c, op) ==
    /\ op = "register"
    /\ \E s \in Signups :
          conn' = [conn EXCEPT ![c].op = op, ![c].name = s[1], ![c].email = s[2],
                               ![c].pc = "unique"]
PostLogin(c, op) ==
    /\ op = "login"
    /\ \E s \in Signups :
          conn' = [conn EXCEPT ![c].op = op, ![c].name = s[1], ![c].pc = "lookup"]
PostLogout(c, op) ==
    /\ op = "logout"
    /\ \E u \in Uid, t \in handed :
          \/ u \notin access /\ Answer(c, 403)
          \/ u \in access /\ conn' = [conn EXCEPT ![c].op = op, ![c].uid = u, ![c].tok = t,
                                                   ![c].pc = "logout"]
PostRefresh(c, op) ==
    /\ op = "refresh"
    /\ \E t \in handed :
          conn' = [conn EXCEPT ![c].op = op, ![c].tok = t, ![c].pc = "select"]

\* GET /users/{id}, GET /users/search (which wants a token): one read.  Presence:
\* Redis twice, then PostgreSQL.
GetUser(c, op) ==
    /\ op = "user"
    /\ Answer(c, 403) \/ conn' = [conn EXCEPT ![c].op = op, ![c].pc = "read"]
GetPresence(c, op) == op = "presence" /\ \E u \in Uid : RequireAuth(c, op, u, "redis")

\* POST and DELETE /push/register
PushRegister(c, op) ==
    op \in {"push", "unpush"} /\ \E u \in Uid : RequireAuth(c, op, u, "device")

\* PATCH /users/{id} of one field, by its owner; 403 for anybody else.  From here
\* to the answer of the write nothing can be concluded about the field.
PatchUser(c, op) ==
    /\ op = "patch"
    /\ \/ Answer(c, 403) /\ UNCHANGED sure
       \/ \E u \in access, f \in Field, v \in Value :
             LET same(d) == conn[d].pc = "update" /\ conn[d].uid = u /\ conn[d].field = f
             IN
             /\ conn' = [d \in Conn |->
                   IF d = c
                   THEN [conn[c] EXCEPT !.op = op, !.uid = u, !.field = f, !.val = v, !.pc = "update",
                                        !.clash = \E e \in Conn \ {c} : same(e)]
                   ELSE [conn[d] EXCEPT !.clash = @ \/ same(d)]]
             /\ sure' = [sure EXCEPT ![u][f] = None]

\* async_read is through: the route is found and its handler runs.
Dispatch(c, op) ==
    /\ conn[c].pc = "reading" /\ <<c, op>> \in menu.ops
    /\ \/ /\ \/ Unrouted(c, op) \/ Upgrade(c, op) \/ BadRequest(c, op)
             \/ PostRegister(c, op) \/ PostLogin(c, op) \/ PostLogout(c, op) \/ PostRefresh(c, op)
             \/ GetUser(c, op) \/ GetPresence(c, op) \/ PushRegister(c, op)
          /\ UNCHANGED sure
       \/ PatchUser(c, op)
    /\ UNCHANGED <<users, uids, profile, devices, tokenVars, access, ctx>>

-----------------------------------------------------------------------------
(***************************************************************************)
(* The awaits of the handlers.                                             *)
(***************************************************************************)

\* The status after a database error: presence and device tokens swallow it.
Despite(op) == CASE op \in {"presence", "push"} -> 200 [] op = "unpush" -> 204 [] OTHER -> 500

\* A read that throws, and a write that throws without effect.
PgThrows(c) ==
    /\ conn[c].pc \in {"unique", "insert", "lookup", "login", "logout", "select", "rotate",
                       "read", "update", "device"}
    /\ Answer(c, Despite(conn[c].op))
    /\ UNCHANGED <<userVars, tokenVars, access, ctx>>

Taken(n, e) == \E u \in users : u.name = n \/ u.email = e

\* register: SELECT, hash, and a new id.
CheckUnique(c) ==
    /\ conn[c].pc = "unique"
    /\ \/ Taken(conn[c].name, conn[c].email) /\ Answer(c, 409)
       \/ ~Taken(conn[c].name, conn[c].email) /\ conn' = [conn EXCEPT ![c].pc = "hash"]
    /\ UNCHANGED <<userVars, tokenVars, access, ctx>>

Hash(c) ==
    /\ conn[c].pc = "hash" /\ uids < MaxUser
    /\ uids' = uids + 1
    /\ conn' = [conn EXCEPT ![c].pc = "insert", ![c].uid = uids + 1]
    /\ UNCHANGED <<users, profile, sure, devices, tokenVars, access, ctx>>

\* hash() throws, which no handler catches: the connection closes without answer.
HashThrows(c) == conn[c].pc = "hash" /\ Leave(c) /\ UNCHANGED <<userVars, tokenVars, access>>

\* Mutant: users without the UNIQUE constraints, trusting the SELECT.
InsertUserTrusting(c) ==
    /\ conn[c].pc = "insert"
    /\ users' = users \cup {[uid |-> conn[c].uid, name |-> conn[c].name, email |-> conn[c].email]}
    /\ Answer(c, 201)
    /\ UNCHANGED <<uids, profile, sure, devices, tokenVars, access, ctx>>

\* INSERT INTO users: UNIQUE(username) and UNIQUE(email) stop the loser of a race,
\* who gets 500, as does a winner whose commit is in doubt.
InsertUser(c) ==
    /\ conn[c].pc = "insert" /\ ~Taken(conn[c].name, conn[c].email)
    /\ users' = users \cup {[uid |-> conn[c].uid, name |-> conn[c].name, email |-> conn[c].email]}
    /\ \E status \in {201, 500} : Answer(c, status)
    /\ UNCHANGED <<uids, profile, sure, devices, tokenVars, access, ctx>>

\* login: the row, the password, a new token.
LookupUser(c) ==
    /\ conn[c].pc = "lookup"
    /\ \/ (\A u \in users : u.name # conn[c].name) /\ Answer(c, 401)
       \/ \E u \in users : /\ u.name = conn[c].name
                           /\ conn' = [conn EXCEPT ![c].pc = "verify", ![c].uid = u.uid]
    /\ UNCHANGED <<userVars, tokenVars, access, ctx>>

\* generate_refresh_token
Draw(c, pc, f) ==
    /\ drawn < MaxToken
    /\ drawn' = drawn + 1
    /\ family' = [family EXCEPT ![drawn + 1] = IF f = 0 THEN drawn + 1 ELSE f]
    /\ conn' = [conn EXCEPT ![c].pc = pc, ![c].new = drawn + 1]

VerifyPassword(c) ==
    /\ conn[c].pc = "verify"
    /\ \/ Answer(c, 401) /\ UNCHANGED <<tokenVars>>
       \/ /\ Draw(c, "login", 0)
          /\ owner' = [owner EXCEPT ![drawn + 1] = conn[c].uid]
          /\ UNCHANGED <<live, expired, late, outs, handed, ended>>
    /\ UNCHANGED <<userVars, access, ctx>>

\* The answer to a committed INSERT of conn[c].new: 200 with both tokens, or 500.
HandOut(c, u) ==
    \/ /\ Answer(c, 200)
       /\ handed' = handed \cup {conn[c].new} /\ access' = access \cup {u}
    \/ Answer(c, 500) /\ UNCHANGED <<handed, access>>

InsertToken(c) ==
    /\ conn[c].pc = "login"
    /\ live' = live \cup {conn[c].new}
    /\ HandOut(c, conn[c].uid)
    /\ UNCHANGED <<userVars, expired, family, owner, drawn, late, outs, ended, ctx>>

\* logout: DELETE ... WHERE token=$1 AND user_id=$2; 204 also when it hits nothing.
DeleteToken(c) ==
    LET t == conn[c].tok
        hit == t \in live /\ owner[family[t]] = conn[c].uid
    IN
    /\ conn[c].pc = "logout"
    /\ live' = IF hit THEN live \ {t} ELSE live
    /\ ended' = IF hit THEN ended \cup {t} ELSE ended
    /\ outs' = IF hit THEN [outs EXCEPT ![family[t]] = @ + 1] ELSE outs
    /\ \E status \in {204, 500} : Answer(c, status)
    /\ UNCHANGED <<userVars, expired, family, owner, drawn, late, handed, access, ctx>>

\* refresh: the old token has to be there, and not expired.
SelectToken(c) ==
    LET t == conn[c].tok IN
    /\ conn[c].pc = "select"
    /\ \/ t \notin live \ expired /\ Answer(c, 401) /\ UNCHANGED tokenVars
       \/ /\ t \in live \ expired
          /\ Draw(c, "rotate", family[t])
          /\ UNCHANGED <<live, expired, owner, late, outs, handed, ended>>
    /\ UNCHANGED <<userVars, access, ctx>>

\* Mutants: the old token stays; an error of the transaction is not noticed.
RotateKeepsOld(c) ==
    /\ conn[c].pc = "rotate"
    /\ live' = live \cup {conn[c].new}
    /\ HandOut(c, owner[family[conn[c].tok]])
    /\ UNCHANGED <<userVars, expired, family, owner, drawn, late, outs, ended, ctx>>
RotateUnnoticed(c) ==
    /\ conn[c].pc = "rotate"
    /\ live' \in {live, (live \ {conn[c].tok}) \cup {conn[c].new}}
    /\ HandOut(c, owner[family[conn[c].tok]])
    /\ UNCHANGED <<userVars, expired, family, owner, drawn, late, outs, ended, ctx>>

\* One transaction: DELETE the old token, which may hit nothing by now, and
\* INSERT the new one.
Rotate(c) ==
    LET t == conn[c].tok IN
    /\ conn[c].pc = "rotate"
    /\ live' = (live \ {t}) \cup {conn[c].new}
    /\ ended' = ended \cup ({t} \cap live)
    /\ late' = IF t \in live THEN late ELSE [late EXCEPT ![family[t]] = @ + 1]
    /\ HandOut(c, owner[family[t]])
    /\ UNCHANGED <<userVars, expired, family, owner, drawn, outs, ctx>>

\* UPDATE with COALESCE: only the field of the request changes.
UpdateProfile(c) ==
    LET r == conn[c] IN
    /\ r.pc = "update"
    /\ profile' = [profile EXCEPT ![r.uid][r.field] = r.val]
    /\ \/ Answer(c, 200) /\ sure' = IF r.clash THEN sure ELSE [sure EXCEPT ![r.uid][r.field] = r.val]
       \/ Answer(c, 500) /\ UNCHANGED sure
    /\ UNCHANGED <<users, uids, devices, tokenVars, access, ctx>>

\* register_token, unregister_token
WriteDevice(c) ==
    LET r == conn[c] IN
    /\ r.pc = "device"
    /\ devices' = IF r.op = "push" THEN devices \cup {r.uid} ELSE devices \ {r.uid}
    /\ Answer(c, Despite(r.op))
    /\ UNCHANGED <<users, uids, profile, sure, tokenVars, access, ctx>>

\* Mutant: presence is polled until it is known.
ReadRowPolls(c) ==
    /\ \/ conn[c].pc = "redis" /\ (Answer(c, 200) \/ conn' = [conn EXCEPT ![c].pc = "lastseen"])
       \/ conn[c].pc = "lastseen" /\ (Answer(c, 200) \/ conn' = [conn EXCEPT ![c].pc = "redis"])
       \/ conn[c].pc = "read" /\ Answer(c, 200)
    /\ UNCHANGED <<userVars, tokenVars, access, ctx>>

\* Reads: 200 or 404 from PostgreSQL; a presence found in Redis is the answer.
ReadRow(c) ==
    /\ \/ conn[c].pc = "redis" /\ (Answer(c, 200) \/ conn' = [conn EXCEPT ![c].pc = "lastseen"])
       \/ conn[c].pc = "lastseen" /\ (Answer(c, 200) \/ conn' = [conn EXCEPT ![c].pc = "read"])
       \/ conn[c].pc = "read" /\ \E status \in (IF conn[c].op = "user" THEN {200, 404} ELSE {200}) :
             Answer(c, status)
    /\ UNCHANGED <<userVars, tokenVars, access, ctx>>

\* 30 days pass for a token.
Expire(t) ==
    /\ t \in (live \cap Mortal) \ expired
    /\ expired' = expired \cup {t}
    /\ UNCHANGED <<userVars, live, family, owner, drawn, late, outs, handed, ended, access, ctx, conn>>

-----------------------------------------------------------------------------
Step(c) ==
    \/ CheckUnique(c) \/ Hash(c) \/ HashThrows(c) \/ InsertUser(c)
    \/ LookupUser(c) \/ VerifyPassword(c) \/ InsertToken(c)
    \/ DeleteToken(c) \/ SelectToken(c) \/ Rotate(c)
    \/ UpdateProfile(c) \/ WriteDevice(c) \/ ReadRow(c)
    \/ PgThrows(c) \/ Written(c)

Next ==
    /\ UNCHANGED menu
    /\ \/ \E c \in Conn : Accept(c) \/ ReadFails(c) \/ WsEnds(c) \/ Step(c)
       \/ \E c \in Conn, op \in Op : Dispatch(c, op)
       \/ \E t \in Token : Expire(t)

\* PostgreSQL, Redis and the thread pool answer or fail, and a write ends: the
\* peer takes the answer, or its connection breaks.
Fairness == \A c \in Conn : WF_vars(Step(c) /\ UNCHANGED menu)

Spec == Init /\ [][Next]_vars /\ Fairness

-----------------------------------------------------------------------------
(***************************************************************************)
(* Properties.                                                             *)
(***************************************************************************)

Pc == {"idle", "reading", "writing", "ws", "unique", "hash", "insert", "lookup", "verify", "login",
       "logout", "select", "rotate", "redis", "lastseen", "read", "update", "device"}

\* The types of the state; a token that is valid, handed out or ended was drawn.
TypeOK ==
    /\ \A u \in users : u.uid \in 1 .. uids
    /\ uids <= MaxUser /\ drawn <= MaxToken
    /\ profile \in [Uid -> [Field -> Value \cup {None}]] /\ devices \subseteq Uid
    /\ live \cup handed \cup ended \subseteq 1 .. drawn /\ expired \subseteq live \cup ended
    /\ access \subseteq {u.uid : u \in users}
    /\ ctx \in Conn \cup {None}
    /\ \A c \in Conn : conn[c].pc \in Pc

\* However registrations of one name or one email overlap, one account comes out,
\* and who is told 201 has it; a 409 is only given for something that is taken.
Registered ==
    /\ \A u, w \in users : u.name = w.name \/ u.email = w.email => u = w
    /\ \A c \in Conn :
          /\ conn[c].status = 201 => \E u \in users : u.uid = conn[c].uid /\ u.name = conn[c].name
          /\ conn[c].status = 409 => Taken(conn[c].name, conn[c].email)

\* A login has one valid token at a time, none after a logout, whatever commits
\* were in doubt; each rotation that overlapped another one, or a logout, of its
\* own token adds at most one.
FamilyBound ==
    \A f \in Token :
        Cardinality({t \in live : family[t] = f}) + outs[f] <= 1 + late[f]

\* A refresh token that was handed out is valid until it is rotated or logged
\* out (or expires): an answer 200 is never about a transaction that failed.
HandedOutValid == handed \subseteq live \cup ended

\* Overlapping PATCHes of one user do not undo each other: a field has the value
\* that was acknowledged, unless another request for the same field was under way.
PatchesMerge ==
    \A u \in Uid, f \in Field : sure[u][f] # None => profile[u][f] = sure[u][f]

\* The X-Request-ID, which goes through one variable of the thread, is right at
\* least for a request that overlapped no other connection.
SoloTraced == \A c \in Conn : conn[c].pc = "writing" /\ conn[c].solo => conn[c].xid = c

\* What api/openapi.json says of every response: its X-Request-ID identifies its
\* request.  Violated when two connections overlap.
Traced == \A c \in Conn : conn[c].pc = "writing" => conn[c].xid = c

\* A request that has been read is answered or dropped, and its connection closed.
RequestsEnd == \A c \in Conn : (conn[c].pc \notin {"idle", "reading", "ws"}) ~> (conn[c].pc = "idle")
=============================================================================
