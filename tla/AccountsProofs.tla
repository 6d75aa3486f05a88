---------------------------- MODULE AccountsProofs ----------------------------
(***************************************************************************)
(* Theorems about Accounts, for any number of connections, accounts and    *)
(* tokens: registrations are unique, a refresh token that was handed out   *)
(* is valid until it is rotated or logged out, a login has one at a time,  *)
(* and what is promised of overlapping requests holds.                     *)
(***************************************************************************)
EXTENDS Accounts, FiniteSetTheorems, TLAPS

-----------------------------------------------------------------------------
(***************************************************************************)
(* Refresh tokens.                                                         *)
(***************************************************************************)

\* HandedOutValid is inductive by itself: a token is handed out by the step that
\* inserts it, and the steps that delete one write it down.
LEMMA HandedStep == HandedOutValid /\ [Next]_vars => HandedOutValid'
  <1> SUFFICES ASSUME HandedOutValid, [Next]_vars PROVE HandedOutValid'
    OBVIOUS
  <1> DEFINE Still == UNCHANGED <<live, handed, ended>>
  <1>0. Still => HandedOutValid'
    BY DEF HandedOutValid
  <1>1. ASSUME NEW c \in Conn, Accept(c) \/ ReadFails(c) \/ WsEnds(c) PROVE Still
    BY <1>1 DEF Accept, ReadFails, WsEnds, tokenVars
  <1>2. ASSUME NEW c \in Conn, NEW op \in Op, Dispatch(c, op) PROVE Still
    BY <1>2 DEF Dispatch, tokenVars
  <1>3. ASSUME NEW t \in Token, Expire(t) PROVE Still
    BY <1>3 DEF Expire
  <1>4. ASSUME NEW c \in Conn, Step(c) PROVE HandedOutValid'
    <2>1. CASE InsertToken(c)
      BY <2>1 DEF InsertToken, HandOut, HandedOutValid
    <2>2. CASE DeleteToken(c)
      BY <2>2 DEF DeleteToken, HandedOutValid
    <2>3. CASE Rotate(c)
      BY <2>3 DEF Rotate, HandOut, HandedOutValid
    <2>4. CASE VerifyPassword(c)
      BY <1>0, <2>4 DEF VerifyPassword, tokenVars
    <2>5. CASE SelectToken(c)
      BY <1>0, <2>5 DEF SelectToken, tokenVars
    <2>6. CASE CheckUnique(c) \/ Hash(c) \/ HashThrows(c) \/ InsertUser(c) \/ LookupUser(c)
      BY <1>0, <2>6 DEF CheckUnique, Hash, HashThrows, InsertUser, LookupUser, tokenVars
    <2>7. CASE UpdateProfile(c) \/ WriteDevice(c) \/ ReadRow(c) \/ PgThrows(c) \/ Written(c)
      BY <1>0, <2>7 DEF UpdateProfile, WriteDevice, ReadRow, PgThrows, Written, tokenVars
    <2> QED
      BY <1>4, <2>1, <2>2, <2>3, <2>4, <2>5, <2>6, <2>7 DEF Step
  <1>5. CASE UNCHANGED vars
    BY <1>0, <1>5 DEF vars, tokenVars
  <1> QED
    BY <1>0, <1>1, <1>2, <1>3, <1>4, <1>5 DEF Next

\* An answer 200 of login or refresh is about a token whose INSERT was committed,
\* and the token stays valid until a rotation or a logout deletes it (or it
\* expires), for any overlap of requests and any commits in doubt.
THEOREM TokensValid == Spec => []HandedOutValid
  <1>1. Init => HandedOutValid
    BY DEF Init, HandedOutValid
  <1> QED
    BY <1>1, HandedStep, PTL DEF Spec

-----------------------------------------------------------------------------
(***************************************************************************)
(* Registration.                                                           *)
(***************************************************************************)

\* The state of a connection has the fields it starts with.
IsState(x) == DOMAIN x = {"pc", "op", "uid", "name", "email", "tok", "new", "field", "val",
                          "clash", "status", "xid", "solo"}

\* x is no answer about an account.
Silent(x) == x.status # 201 /\ x.status # 409

\* Only a connection whose answer is being written says anything of an account.
ConnOK ==
    /\ DOMAIN conn = Conn
    /\ \A c \in Conn : IsState(conn[c]) /\ (conn[c].pc # "writing" => Silent(conn[c]))

\* Inductive: users only grows, so an answer 201 or 409 stays true.
RegInv == ConnOK /\ Registered

\* The others stay as they are, apart from what no answer is about.
Alike(x, y) == /\ x.pc = y.pc /\ x.status = y.status
               /\ x.uid = y.uid /\ x.name = y.name /\ x.email = y.email

\* A step that leaves users alone keeps the invariant when every connection says
\* what it said, or nothing.
LEMMA QuietStep ==
    ASSUME RegInv, UNCHANGED users, DOMAIN conn' = Conn,
           \A d \in Conn : IsState(conn'[d]) /\ (Alike(conn'[d], conn[d]) \/ Silent(conn'[d]))
    PROVE  RegInv'
  <1>1. ConnOK'
    BY DEF RegInv, ConnOK, Alike, Silent
  <1>2. Registered'
    BY DEF RegInv, Registered, Taken, Alike, Silent
  <1> QED
    BY <1>1, <1>2 DEF RegInv

\* Of the connections only c moves.
Moves(c) == /\ DOMAIN conn' = Conn /\ IsState(conn'[c])
            /\ \A d \in Conn \ {c} : conn'[d] = conn[d]

\* A move of one connection to a state that says nothing.
LEMMA OneMoves ==
    ASSUME RegInv, UNCHANGED users, NEW c \in Conn, Moves(c), Silent(conn'[c])
    PROVE  RegInv'
  <1>1. \A d \in Conn : IsState(conn'[d]) /\ (Alike(conn'[d], conn[d]) \/ Silent(conn'[d]))
    BY DEF RegInv, ConnOK, Alike, Moves
  <1> QED
    BY <1>1, QuietStep DEF Moves

\* The state of a connection that is not in use.
LEMMA IdleState == IsState(Idle) /\ Silent(Idle)
  BY DEF Idle, IsState, Silent

\* The answer of a handler.
LEMMA AnswerIs ==
    ASSUME ConnOK, NEW c \in Conn, NEW status, Answer(c, status)
    PROVE  /\ Moves(c) /\ conn'[c].pc = "writing" /\ conn'[c].status = status
           /\ status \in {201, 409} => /\ conn'[c].uid = conn[c].uid
                                       /\ conn'[c].name = conn[c].name
                                       /\ conn'[c].email = conn[c].email
  <1>1. PICK k : k = Keep(c, status)
    OBVIOUS
  <1>2. /\ IsState(k)
        /\ status \in {201, 409} =>
              k.uid = conn[c].uid /\ k.name = conn[c].name /\ k.email = conn[c].email
    <2>1. PICK i : i = Idle /\ IsState(i)
      BY IdleState
    <2>2. k = IF status \in {201, 409}
              THEN [i EXCEPT !.uid = conn[c].uid, !.name = conn[c].name, !.email = conn[c].email]
              ELSE i
      BY <1>1, <2>1 DEF Keep
    <2> QED
      BY <2>1, <2>2 DEF IsState
  <1>3. conn' = [conn EXCEPT ![c] = [k EXCEPT !.pc = "writing", !.status = status, !.xid = ctx,
                                              !.solo = conn[c].solo]]
    BY <1>1 DEF Answer
  <1> QED
    BY <1>2, <1>3 DEF ConnOK, IsState, Moves

\* An answer that is about no account.
LEMMA AnswerKeeps ==
    ASSUME RegInv, UNCHANGED users, NEW c \in Conn, NEW status, Answer(c, status),
           status # 201, status # 409
    PROVE  RegInv'
  <1>1. Moves(c) /\ conn'[c].status = status
    BY AnswerIs DEF RegInv
  <1> QED
    BY <1>1, OneMoves DEF Silent

\* The end of a connection.
LEMMA LeaveKeeps ==
    ASSUME RegInv, UNCHANGED users, NEW c \in Conn, Leave(c)
    PROVE  RegInv'
  <1>1. Moves(c) /\ conn'[c] = Idle
    BY IdleState DEF Leave, Moves, RegInv, ConnOK
  <1> QED
    BY <1>1, IdleState, OneMoves

\* A handler that goes on to its next await.
LEMMA GoesOn ==
    ASSUME RegInv, UNCHANGED users, NEW c \in Conn, conn[c].pc # "writing", Moves(c),
           conn'[c].status = conn[c].status
    PROVE  RegInv'
  <1>1. Silent(conn'[c])
    BY DEF RegInv, ConnOK, Silent
  <1> QED
    BY <1>1, OneMoves

-----------------------------------------------------------------------------
\* A new connection; the others lose their claim to be alone.
LEMMA AcceptKeeps ==
    ASSUME RegInv, NEW c \in Conn, Accept(c)
    PROVE  RegInv'
  <1>1. IsState(conn'[c]) /\ Silent(conn'[c])
    <2>1. PICK i : i = Idle /\ IsState(i) /\ Silent(i)
      BY IdleState
    <2>2. PICK p : conn'[c] = [i EXCEPT !.pc = "reading", !.solo = p]
      BY <2>1 DEF Accept
    <2> QED
      BY <2>1, <2>2 DEF IsState, Silent
  <1>2. ASSUME NEW d \in Conn \ {c} PROVE IsState(conn'[d]) /\ Alike(conn'[d], conn[d])
    <2>1. conn'[d] = [conn[d] EXCEPT !.solo = FALSE] /\ IsState(conn[d])
      BY DEF Accept, RegInv, ConnOK
    <2> QED
      BY <2>1 DEF IsState, Alike
  <1>3. UNCHANGED users /\ DOMAIN conn' = Conn
    BY DEF Accept, userVars
  <1> QED
    BY <1>1, <1>2, <1>3, QuietStep

\* The first part of a handler.  PatchUser also marks the connections whose PATCH
\* of the same field is under way.
LEMMA DispatchKeeps ==
    ASSUME RegInv, NEW c \in Conn, NEW op \in Op, Dispatch(c, op)
    PROVE  RegInv'
  <1>1. UNCHANGED users /\ conn[c].pc = "reading" /\ ConnOK
    BY DEF Dispatch, RegInv
  <1>2. CASE Unrouted(c, op) \/ BadRequest(c, op)
    BY <1>1, <1>2, AnswerKeeps DEF Unrouted, BadRequest
  <1>3. CASE Upgrade(c, op) \/ PostRegister(c, op) \/ PostLogin(c, op) \/ PostRefresh(c, op)
    <2>1. CASE Upgrade(c, op)
      BY <1>1, <2>1, GoesOn DEF Upgrade, ConnOK, IsState, Moves
    <2>2. CASE PostRegister(c, op)
      <3>1. PICK s \in Signups :
               conn' = [conn EXCEPT ![c].op = op, ![c].name = s[1], ![c].email = s[2], ![c].pc = "unique"]
        BY <2>2 DEF PostRegister
      <3>2. Moves(c) /\ conn'[c].status = conn[c].status
        BY <1>1, <3>1 DEF ConnOK, IsState, Moves
      <3> QED
        BY <1>1, <3>2, GoesOn
    <2>3. CASE PostLogin(c, op)
      <3>1. PICK s \in Signups :
               conn' = [conn EXCEPT ![c].op = op, ![c].name = s[1], ![c].pc = "lookup"]
        BY <2>3 DEF PostLogin
      <3>2. Moves(c) /\ conn'[c].status = conn[c].status
        BY <1>1, <3>1 DEF ConnOK, IsState, Moves
      <3> QED
        BY <1>1, <3>2, GoesOn
    <2>4. CASE PostRefresh(c, op)
      <3>1. PICK t \in handed : conn' = [conn EXCEPT ![c].op = op, ![c].tok = t, ![c].pc = "select"]
        BY <2>4 DEF PostRefresh
      <3>2. Moves(c) /\ conn'[c].status = conn[c].status
        BY <1>1, <3>1 DEF ConnOK, IsState, Moves
      <3> QED
        BY <1>1, <3>2, GoesOn
    <2> QED
      BY <1>3, <2>1, <2>2, <2>3, <2>4
  <1>4. CASE PostLogout(c, op)
    <2>1. CASE Answer(c, 403)
      BY <1>1, <2>1, AnswerKeeps
    <2>2. CASE ~Answer(c, 403)
      <3>1. Moves(c) /\ conn'[c].status = conn[c].status
        BY <1>1, <1>4, <2>2 DEF PostLogout, ConnOK, IsState, Moves
      <3> QED
        BY <1>1, <3>1, GoesOn
    <2> QED
      BY <2>1, <2>2
  <1>5. CASE GetUser(c, op) \/ GetPresence(c, op) \/ PushRegister(c, op)
    <2>1. CASE Answer(c, 403)
      BY <1>1, <2>1, AnswerKeeps
    <2>2. CASE ~Answer(c, 403)
      <3>1. ASSUME GetUser(c, op) PROVE Moves(c) /\ conn'[c].status = conn[c].status
        <4>1. conn' = [conn EXCEPT ![c].op = op, ![c].pc = "read"]
          BY <2>2, <3>1 DEF GetUser
        <4> QED
          BY <1>1, <4>1 DEF ConnOK, IsState, Moves
      <3>2. ASSUME GetPresence(c, op) \/ PushRegister(c, op)
            PROVE  Moves(c) /\ conn'[c].status = conn[c].status
        <4>1. PICK u \in Uid, p \in {"redis", "device"} :
                 conn' = [conn EXCEPT ![c].op = op, ![c].uid = u, ![c].pc = p]
          BY <2>2, <3>2 DEF GetPresence, PushRegister, RequireAuth
        <4> QED
          BY <1>1, <4>1 DEF ConnOK, IsState, Moves
      <3>3. Moves(c) /\ conn'[c].status = conn[c].status
        BY <1>5, <3>1, <3>2
      <3> QED
        BY <1>1, <3>3, GoesOn
    <2> QED
      BY <2>1, <2>2
  <1>6. CASE PatchUser(c, op)
    <2>1. CASE Answer(c, 403)
      BY <1>1, <2>1, AnswerKeeps
    <2>2. CASE ~Answer(c, 403)
      <3>1. PICK u \in access, f \in Field, v \in Value :
               LET same(d) == conn[d].pc = "update" /\ conn[d].uid = u /\ conn[d].field = f IN
               conn' = [d \in Conn |->
                   IF d = c
                   THEN [conn[c] EXCEPT !.op = op, !.uid = u, !.field = f, !.val = v, !.pc = "update",
                                        !.clash = \E e \in Conn \ {c} : same(e)]
                   ELSE [conn[d] EXCEPT !.clash = @ \/ same(d)]]
        BY <1>6, <2>2, ZenonT(40) DEF PatchUser
      <3>2. DOMAIN conn' = Conn
        BY <3>1
      <3>3. IsState(conn'[c]) /\ Silent(conn'[c])
        <4>1. PICK p : conn'[c] = [conn[c] EXCEPT !.op = op, !.uid = u, !.field = f, !.val = v,
                                                  !.pc = "update", !.clash = p]
          BY <3>1
        <4>2. Silent(conn[c]) /\ IsState(conn[c])
          BY <1>1 DEF ConnOK
        <4> QED
          BY <4>1, <4>2 DEF IsState, Silent
      <3>4. ASSUME NEW d \in Conn \ {c} PROVE IsState(conn'[d]) /\ Alike(conn'[d], conn[d])
        <4>1. PICK q : conn'[d] = [conn[d] EXCEPT !.clash = q]
          BY <3>1, <3>4
        <4> QED
          BY <1>1, <3>4, <4>1 DEF ConnOK, IsState, Alike
      <3> QED
        BY <1>1, <3>2, <3>3, <3>4, QuietStep
    <2> QED
      BY <2>1, <2>2
  <1> QED
    BY <1>2, <1>3, <1>4, <1>5, <1>6 DEF Dispatch

-----------------------------------------------------------------------------
\* SELECT ... WHERE username = $1 OR email = $2: 409 is about something taken.
LEMMA CheckUniqueKeeps ==
    ASSUME RegInv, NEW c \in Conn, CheckUnique(c)
    PROVE  RegInv'
  <1>1. UNCHANGED users /\ conn[c].pc = "unique" /\ ConnOK
    BY DEF CheckUnique, userVars, RegInv
  <1>2. CASE Taken(conn[c].name, conn[c].email) /\ Answer(c, 409)
    <2>1. /\ Moves(c) /\ conn'[c].pc = "writing" /\ conn'[c].status = 409
          /\ conn'[c].name = conn[c].name /\ conn'[c].email = conn[c].email
      BY <1>1, <1>2, AnswerIs
    <2>2. ConnOK'
      BY <1>1, <2>1 DEF ConnOK, Moves
    <2>3. Registered'
      BY <1>1, <1>2, <2>1 DEF RegInv, Registered, Taken, Moves
    <2> QED
      BY <2>2, <2>3 DEF RegInv
  <1>3. CASE conn' = [conn EXCEPT ![c].pc = "hash"]
    BY <1>1, <1>3, GoesOn DEF ConnOK, IsState, Moves
  <1> QED
    BY <1>2, <1>3 DEF CheckUnique

\* INSERT INTO users: the UNIQUE constraints, and 201 only for a row that is there.
LEMMA InsertUserKeeps ==
    ASSUME RegInv, NEW c \in Conn, InsertUser(c)
    PROVE  RegInv'
  <1> DEFINE new == [uid |-> conn[c].uid, name |-> conn[c].name, email |-> conn[c].email]
  <1>1. /\ users' = users \cup {new} /\ ~Taken(conn[c].name, conn[c].email)
        /\ ConnOK
    BY DEF InsertUser, RegInv
  <1>2. PICK status \in {201, 500} : Answer(c, status)
    BY DEF InsertUser
  <1>3. /\ Moves(c) /\ conn'[c].pc = "writing" /\ conn'[c].status = status
        /\ status = 201 => conn'[c].uid = conn[c].uid /\ conn'[c].name = conn[c].name
    BY <1>1, <1>2, AnswerIs
  <1>4. ConnOK'
    BY <1>1, <1>3 DEF ConnOK, Moves
  <1>5. new.uid = conn[c].uid /\ new.name = conn[c].name /\ new.email = conn[c].email
    OBVIOUS
  <1> HIDE DEF new
  <1>6. \A u, w \in users' : u.name = w.name \/ u.email = w.email => u = w
    BY <1>1, <1>5 DEF RegInv, Registered, Taken
  <1>7. ASSUME NEW d \in Conn
        PROVE  /\ conn'[d].status = 201 =>
                     \E u \in users' : u.uid = conn'[d].uid /\ u.name = conn'[d].name
               /\ conn'[d].status = 409 =>
                     \E u \in users' : u.name = conn'[d].name \/ u.email = conn'[d].email
    <2>1. CASE d = c
      BY <1>1, <1>2, <1>3, <1>5, <2>1
    <2>2. CASE d # c
      BY <1>1, <1>3, <2>2 DEF RegInv, Registered, Taken, Moves
    <2> QED
      BY <2>1, <2>2
  <1> QED
    BY <1>4, <1>6, <1>7 DEF RegInv, Registered, Taken

\* The steps that draw ids and tokens and go on.
LEMMA DrawKeeps ==
    ASSUME RegInv, UNCHANGED users, NEW c \in Conn, conn[c].pc # "writing", NEW pc, NEW f,
           Draw(c, pc, f)
    PROVE  RegInv'
  <1>1. Moves(c) /\ conn'[c].status = conn[c].status
    BY DEF Draw, Moves, RegInv, ConnOK, IsState
  <1> QED
    BY <1>1, GoesOn

\* Every other step answers without a word on accounts, goes on, or leaves.
LEMMA StepKeeps ==
    ASSUME RegInv, NEW c \in Conn, Step(c)
    PROVE  RegInv'
  <1>0. ConnOK
    BY DEF RegInv
  <1>1. CASE CheckUnique(c) \/ InsertUser(c)
    BY <1>1, CheckUniqueKeeps, InsertUserKeeps
  <1>2. CASE HashThrows(c) \/ Written(c)
    BY <1>2, LeaveKeeps DEF HashThrows, Written, userVars
  <1>3. CASE Hash(c)
    <2>1. /\ UNCHANGED users /\ conn[c].pc # "writing"
          /\ Moves(c) /\ conn'[c].status = conn[c].status
      BY <1>0, <1>3 DEF Hash, ConnOK, IsState, Moves
    <2> QED
      BY <2>1, GoesOn
  <1>4. CASE LookupUser(c)
    <2>1. UNCHANGED users /\ conn[c].pc # "writing"
      BY <1>4 DEF LookupUser, userVars
    <2>2. CASE Answer(c, 401)
      BY <2>1, <2>2, AnswerKeeps
    <2>3. CASE \E u \in users : conn' = [conn EXCEPT ![c].pc = "verify", ![c].uid = u.uid]
      <3>1. Moves(c) /\ conn'[c].status = conn[c].status
        BY <1>0, <2>3 DEF ConnOK, IsState, Moves
      <3> QED
        BY <2>1, <3>1, GoesOn
    <2> QED
      BY <1>4, <2>2, <2>3 DEF LookupUser
  <1>5. CASE VerifyPassword(c)
    BY <1>5, AnswerKeeps, DrawKeeps DEF VerifyPassword, userVars
  <1>6. CASE SelectToken(c)
    BY <1>6, AnswerKeeps, DrawKeeps DEF SelectToken, userVars
  <1>7. CASE InsertToken(c) \/ Rotate(c)
    BY <1>7, AnswerKeeps DEF InsertToken, Rotate, HandOut, userVars
  <1>8. CASE DeleteToken(c)
    BY <1>8, AnswerKeeps DEF DeleteToken, userVars
  <1>9. CASE UpdateProfile(c)
    BY <1>9, AnswerKeeps DEF UpdateProfile
  <1>10. CASE WriteDevice(c) \/ PgThrows(c)
    BY <1>10, AnswerKeeps DEF WriteDevice, PgThrows, Despite, userVars
  <1>11. CASE ReadRow(c)
    <2>1. UNCHANGED users /\ conn[c].pc # "writing"
      BY <1>11 DEF ReadRow, userVars
    <2>2. CASE \E status \in {200, 404} : Answer(c, status)
      BY <2>1, <2>2, AnswerKeeps
    <2>3. CASE \E pc \in {"lastseen", "read"} : conn' = [conn EXCEPT ![c].pc = pc]
      <3>1. Moves(c) /\ conn'[c].status = conn[c].status
        BY <1>0, <2>3 DEF ConnOK, IsState, Moves
      <3> QED
        BY <2>1, <3>1, GoesOn
    <2> QED
      BY <1>11, <2>2, <2>3 DEF ReadRow
  <1> QED
    BY <1>1, <1>2, <1>3, <1>4, <1>5, <1>6, <1>7, <1>8, <1>9, <1>10, <1>11 DEF Step

\* Registration stays in order.
LEMMA RegStep == RegInv /\ [Next]_vars => RegInv'
  <1> SUFFICES ASSUME RegInv, [Next]_vars PROVE RegInv'
    OBVIOUS
  <1>1. ASSUME NEW c \in Conn, ReadFails(c) \/ WsEnds(c) PROVE RegInv'
    BY <1>1, LeaveKeeps DEF ReadFails, WsEnds, userVars
  <1>2. ASSUME NEW t \in Token, Expire(t) PROVE RegInv'
    BY <1>2 DEF Expire, userVars, RegInv, ConnOK, Registered, Taken
  <1>3. CASE UNCHANGED vars
    BY <1>3 DEF vars, userVars, RegInv, ConnOK, Registered, Taken
  <1> QED
    BY <1>1, <1>2, <1>3, AcceptKeeps, StepKeeps, DispatchKeeps DEF Next

\* However registrations overlap, fail or commit in doubt, a name or an email has
\* one account, who is told 201 has it, and a 409 is about something taken: for
\* any number of connections and sign-ups.
THEOREM RegisteredOnce == Spec => []Registered
  <1>1. Init => RegInv
    <2> SUFFICES ASSUME Init PROVE RegInv
      OBVIOUS
    <2>1. conn = [c \in Conn |-> Idle] /\ \A u, w \in users : u.name = w.name \/ u.email = w.email => u = w
      BY AccountsAssumption DEF Init
    <2> QED
      BY <2>1, IdleState DEF RegInv, ConnOK, Registered, Silent
  <1>2. RegInv /\ [Next]_vars => RegInv'
    BY RegStep
  <1>3. RegInv => Registered
    BY DEF RegInv
  <1> QED
    BY <1>1, <1>2, <1>3, PTL DEF Spec
-----------------------------------------------------------------------------
(***************************************************************************)
(* The tokens of a login.                                                  *)
(***************************************************************************)

\* A connection that holds a token it has not inserted yet.
Pending(x) == x.pc \in {"login", "rotate"}

\* Tokens are drawn one after the other; what is not drawn yet is in no use.
DrawnInv ==
    /\ drawn \in Nat /\ drawn <= MaxToken
    /\ live \subseteq 1 .. drawn /\ handed \subseteq 1 .. drawn
    /\ family \in [Token -> Token] /\ \A t \in 1 .. drawn : family[t] \in 1 .. drawn
    /\ late \in [Token -> Nat] /\ outs \in [Token -> Nat]
    /\ \A f \in Token : f > drawn => outs[f] = 0

\* What a connection has in hand: the token of its request was drawn; the one it
\* will insert is in no row yet and of the family of the one it replaces; the
\* first token of a login is so far alone in its family.
HoldsOK(x) ==
    /\ x.pc \in {"logout", "select", "rotate"} => x.tok \in 1 .. drawn
    /\ Pending(x) => x.new \in 1 .. drawn /\ x.new \notin live
    /\ x.pc = "rotate" => family[x.new] = family[x.tok]
    /\ x.pc = "login" => /\ family[x.new] = x.new /\ outs[x.new] = 0
                         /\ \A t \in 1 .. drawn : family[t] = x.new => t = x.new

\* Inductive: no two connections insert the same token.
TokInv ==
    /\ ConnOK /\ DrawnInv /\ FamilyBound
    /\ \A c \in Conn : HoldsOK(conn[c])
    /\ \A c, d \in Conn : c # d /\ Pending(conn[c]) /\ Pending(conn[d]) => conn[c].new # conn[d].new

\* The valid tokens of a login are finitely many.
LEMMA ClassFinite ==
    ASSUME DrawnInv, NEW f
    PROVE  /\ IsFiniteSet({r \in live : family[r] = f})
           /\ Cardinality({r \in live : family[r] = f}) \in Nat
  <1>1. IsFiniteSet(1 .. drawn)
    BY FS_Interval DEF DrawnInv
  <1>2. {r \in live : family[r] = f} \in SUBSET (1 .. drawn)
    BY DEF DrawnInv
  <1>3. IsFiniteSet({r \in live : family[r] = f})
    BY <1>1, <1>2, FS_Subset
  <1> QED
    BY <1>3, FS_CardinalityType

\* Of the state of a connection, what TokInv is about.
Kept(x, y) == x.pc = y.pc /\ x.tok = y.tok /\ x.new = y.new

\* A state with no token in hand, or with one that was handed out.
Free(x) ==
    \/ x.pc \notin {"logout", "select", "rotate", "login"}
    \/ x.pc \in {"logout", "select"} /\ x.tok \in 1 .. drawn

\* A step that neither draws, inserts nor deletes a token.
LEMMA QuietTokens ==
    ASSUME TokInv, ConnOK', UNCHANGED <<live, family, drawn, late, outs, handed>>,
           \A d \in Conn : Kept(conn'[d], conn[d]) \/ Free(conn'[d])
    PROVE  TokInv'
  <1>1. DrawnInv'
    BY DEF TokInv, DrawnInv
  <1>2. FamilyBound'
    BY DEF TokInv, FamilyBound
  <1>3. ASSUME NEW d \in Conn PROVE HoldsOK(conn[d])'
    <2>1. CASE Kept(conn'[d], conn[d])
      BY <2>1 DEF TokInv, HoldsOK, Pending, Kept
    <2>2. CASE Free(conn'[d])
      BY <2>2 DEF HoldsOK, Pending, Free
    <2> QED
      BY <2>1, <2>2
  <1>4. \A d \in Conn : Pending(conn'[d]) => Pending(conn[d]) /\ conn'[d].new = conn[d].new
    BY DEF Kept, Free, Pending
  <1>5. (\A c, d \in Conn : c # d /\ Pending(conn[c]) /\ Pending(conn[d]) => conn[c].new # conn[d].new)'
    BY <1>4 DEF TokInv, Pending
  <1> QED
    BY <1>1, <1>2, <1>3, <1>5 DEF TokInv

\* The same when one connection moves.
LEMMA QuietMove ==
    ASSUME TokInv, ConnOK', UNCHANGED <<live, family, drawn, late, outs, handed>>,
           NEW c \in Conn, Moves(c), Kept(conn'[c], conn[c]) \/ Free(conn'[c])
    PROVE  TokInv'
  <1>1. \A d \in Conn : Kept(conn'[d], conn[d]) \/ Free(conn'[d])
    BY DEF Moves, Kept
  <1> QED
    BY <1>1, QuietTokens

\* An answer that leaves the tokens alone.
LEMMA QuietAnswer ==
    ASSUME TokInv, ConnOK', UNCHANGED <<live, family, drawn, late, outs, handed>>,
           NEW c \in Conn, NEW status, Answer(c, status)
    PROVE  TokInv'
  <1>1. Moves(c) /\ conn'[c].pc = "writing"
    BY AnswerIs DEF TokInv
  <1>2. Free(conn'[c])
    BY <1>1 DEF Free
  <1> QED
    BY <1>1, <1>2, QuietMove

\* The end of a connection.
LEMMA QuietLeave ==
    ASSUME TokInv, ConnOK', UNCHANGED <<live, family, drawn, late, outs, handed>>,
           NEW c \in Conn, Leave(c)
    PROVE  TokInv'
  <1>1. Moves(c) /\ conn'[c] = Idle
    BY IdleState DEF Leave, Moves, TokInv, ConnOK
  <1>2. Free(conn'[c])
    BY <1>1 DEF Free, Idle
  <1> QED
    BY <1>1, <1>2, QuietMove

\* The first part of a handler: the token of a logout or a refresh was handed out.
LEMMA DispatchTokens ==
    ASSUME TokInv, ConnOK', NEW c \in Conn, NEW op \in Op, Dispatch(c, op)
    PROVE  TokInv'
  <1>1. UNCHANGED <<live, family, drawn, late, outs, handed>> /\ ConnOK /\ conn[c].pc = "reading"
    BY DEF Dispatch, tokenVars, TokInv
  <1>2. CASE \E status \in {204, 404, 400, 403} : Answer(c, status)
    BY <1>1, <1>2, QuietAnswer
  <1>3. CASE ~ \E status \in {204, 404, 400, 403} : Answer(c, status)
    <2>1. CASE Upgrade(c, op)
      <3>1. Moves(c) /\ conn'[c].pc = "ws"
        BY <1>1, <2>1 DEF Upgrade, ConnOK, IsState, Moves
      <3> QED
        BY <1>1, <3>1, QuietMove DEF Free
    <2>2. CASE PostRegister(c, op)
      <3>1. PICK s \in Signups :
               conn' = [conn EXCEPT ![c].op = op, ![c].name = s[1], ![c].email = s[2], ![c].pc = "unique"]
        BY <2>2 DEF PostRegister
      <3>2. Moves(c) /\ conn'[c].pc = "unique"
        BY <1>1, <3>1 DEF ConnOK, IsState, Moves
      <3> QED
        BY <1>1, <3>2, QuietMove DEF Free
    <2>3. CASE PostLogin(c, op)
      <3>1. PICK s \in Signups :
               conn' = [conn EXCEPT ![c].op = op, ![c].name = s[1], ![c].pc = "lookup"]
        BY <2>3 DEF PostLogin
      <3>2. Moves(c) /\ conn'[c].pc = "lookup"
        BY <1>1, <3>1 DEF ConnOK, IsState, Moves
      <3> QED
        BY <1>1, <3>2, QuietMove DEF Free
    <2>4. CASE PostLogout(c, op)
      <3>1. PICK u \in Uid, t \in handed :
               conn' = [conn EXCEPT ![c].op = op, ![c].uid = u, ![c].tok = t, ![c].pc = "logout"]
        <4>1. ~Answer(c, 403)
          BY <1>3
        <4> QED
          BY <2>4, <4>1, Zenon DEF PostLogout
      <3>2. Moves(c) /\ conn'[c].pc = "logout" /\ conn'[c].tok = t
        BY <1>1, <3>1 DEF ConnOK, IsState, Moves
      <3>3. Free(conn'[c])
        BY <3>2 DEF Free, TokInv, DrawnInv
      <3> QED
        BY <1>1, <3>2, <3>3, QuietMove
    <2>5. CASE PostRefresh(c, op)
      <3>1. PICK t \in handed : conn' = [conn EXCEPT ![c].op = op, ![c].tok = t, ![c].pc = "select"]
        BY <2>5 DEF PostRefresh
      <3>2. Moves(c) /\ conn'[c].pc = "select" /\ conn'[c].tok = t
        BY <1>1, <3>1 DEF ConnOK, IsState, Moves
      <3>3. Free(conn'[c])
        BY <3>2 DEF Free, TokInv, DrawnInv
      <3> QED
        BY <1>1, <3>2, <3>3, QuietMove
    <2>6. CASE GetUser(c, op)
      <3>1. conn' = [conn EXCEPT ![c].op = op, ![c].pc = "read"]
        BY <1>3, <2>6 DEF GetUser
      <3>2. Moves(c) /\ conn'[c].pc = "read"
        BY <1>1, <3>1 DEF ConnOK, IsState, Moves
      <3> QED
        BY <1>1, <3>2, QuietMove DEF Free
    <2>7. CASE GetPresence(c, op) \/ PushRegister(c, op)
      <3>1. PICK u \in Uid, p \in {"redis", "device"} :
               conn' = [conn EXCEPT ![c].op = op, ![c].uid = u, ![c].pc = p]
        <4>1. PICK u \in Uid, p \in {"redis", "device"} : RequireAuth(c, op, u, p)
          BY <2>7, Zenon DEF GetPresence, PushRegister
        <4>2. ~Answer(c, 403)
          BY <1>3
        <4> QED
          BY <4>1, <4>2, Zenon DEF RequireAuth
      <3>2. Moves(c) /\ conn'[c].pc = p
        BY <1>1, <3>1 DEF ConnOK, IsState, Moves
      <3> QED
        BY <1>1, <3>2, QuietMove DEF Free
    <2>8. CASE PatchUser(c, op)
      <3>1. PICK u \in access, f \in Field, v \in Value :
               LET same(d) == conn[d].pc = "update" /\ conn[d].uid = u /\ conn[d].field = f IN
               conn' = [d \in Conn |->
                   IF d = c
                   THEN [conn[c] EXCEPT !.op = op, !.uid = u, !.field = f, !.val = v, !.pc = "update",
                                        !.clash = \E e \in Conn \ {c} : same(e)]
                   ELSE [conn[d] EXCEPT !.clash = @ \/ same(d)]]
        <4>1. ~Answer(c, 403)
          BY <1>3
        <4> QED
          BY <2>8, <4>1, ZenonT(40) DEF PatchUser
      <3>2. Free(conn'[c])
        <4>1. PICK p : conn'[c] = [conn[c] EXCEPT !.op = op, !.uid = u, !.field = f, !.val = v,
                                                  !.pc = "update", !.clash = p]
          BY <3>1
        <4>2. conn'[c].pc = "update"
          BY <1>1, <4>1 DEF ConnOK, IsState
        <4> QED
          BY <4>2 DEF Free
      <3>3. ASSUME NEW d \in Conn \ {c} PROVE Kept(conn'[d], conn[d])
        <4>1. PICK q : conn'[d] = [conn[d] EXCEPT !.clash = q]
          BY <3>1, <3>3
        <4> QED
          BY <1>1, <3>3, <4>1 DEF ConnOK, IsState, Kept
      <3> QED
        BY <1>1, <3>2, <3>3, QuietTokens
    <2> QED
      BY <1>3, <2>1, <2>2, <2>3, <2>4, <2>5, <2>6, <2>7, <2>8
      DEF Dispatch, Unrouted, BadRequest
  <1> QED
    BY <1>2, <1>3
-----------------------------------------------------------------------------
\* generate_refresh_token: a new token, the first of its family (login) or of the
\* family of a token that is valid at this moment (refresh).
LEMMA DrawTokens ==
    ASSUME TokInv, ConnOK', NEW c \in Conn, NEW pc, NEW f, Draw(c, pc, f),
           UNCHANGED <<live, late, outs, handed>>, ~Pending(conn[c]),
           \/ pc = "login" /\ f = 0
           \/ pc = "rotate" /\ conn[c].tok \in live /\ f = family[conn[c].tok]
    PROVE  TokInv'
  <1>1. PICK n : n = drawn + 1
    OBVIOUS
  <1>2. /\ n \in Token /\ drawn \in Nat /\ n \in Nat /\ drawn' = n /\ drawn < n /\ 1 .. n = (1 .. drawn) \cup {n}
        /\ n \notin 1 .. drawn /\ 1 .. drawn \subseteq Token /\ n <= MaxToken /\ MaxToken \in Nat
    BY <1>1, AccountsAssumption DEF Draw, TokInv, DrawnInv, Token
  <1>3. PICK g : g = IF f = 0 THEN n ELSE f
    OBVIOUS
  <1>4. family' = [family EXCEPT ![n] = g]
    BY <1>1, <1>3 DEF Draw
  <1>5. /\ pc = "login" => g = n
        /\ pc = "rotate" => conn[c].tok \in live /\ g = family[conn[c].tok] /\ g \in 1 .. drawn
    <2>1. conn[c].tok \in live => family[conn[c].tok] \in 1 .. drawn
      BY DEF TokInv, DrawnInv
    <2>2. 0 \notin 1 .. drawn
      BY <1>2
    <2> QED
      BY <1>3, <2>1, <2>2
  <1>6. g \in 1 .. n /\ g \in Token
    BY <1>2, <1>5
  <1>7. /\ family' \in [Token -> Token] /\ family'[n] = g
        /\ \A t \in 1 .. drawn : family'[t] = family[t] /\ family[t] \in 1 .. drawn
    BY <1>2, <1>4, <1>6 DEF TokInv, DrawnInv
  <1>8. /\ Moves(c) /\ conn'[c].pc = pc /\ conn'[c].new = n /\ conn'[c].tok = conn[c].tok
    BY <1>1 DEF Draw, Moves, TokInv, ConnOK, IsState
  <1>9. DrawnInv'
    <2>1. live \subseteq 1 .. drawn /\ handed \subseteq 1 .. drawn /\ late \in [Token -> Nat] /\ outs \in [Token -> Nat]
      BY DEF TokInv, DrawnInv
    <2>2. \A t \in 1 .. n : family'[t] \in 1 .. n
      BY <1>2, <1>6, <1>7
    <2>3. \A h \in Token : h > n => outs[h] = 0
      BY <1>2, AccountsAssumption DEF TokInv, DrawnInv, Token
    <2> QED
      BY <1>2, <1>7, <2>1, <2>2, <2>3 DEF DrawnInv
  <1>10. FamilyBound'
    <2>1. \A h : {t \in live : family'[t] = h} = {t \in live : family[t] = h}
      BY <1>7 DEF TokInv, DrawnInv
    <2> QED
      BY <2>1 DEF TokInv, FamilyBound
  <1>11. ASSUME NEW d \in Conn PROVE HoldsOK(conn[d])'
    <2>1. CASE d = c
      <3>1. CASE pc = "login"
        <4>1. outs[n] = 0
          BY <1>2, AccountsAssumption DEF TokInv, DrawnInv, Token
        <4>2. \A t \in 1 .. n : family'[t] = n => t = n
          BY <1>2, <1>7
        <4>3. n \notin live
          BY <1>2 DEF TokInv, DrawnInv
        <4> QED
          BY <1>2, <1>5, <1>7, <1>8, <2>1, <3>1, <4>1, <4>2, <4>3 DEF HoldsOK, Pending
      <3>2. CASE pc = "rotate"
        <4>1. conn[c].tok \in 1 .. drawn /\ n \notin live
          BY <1>2, <1>5, <3>2 DEF TokInv, DrawnInv
        <4>2. family'[n] = family'[conn[c].tok]
          BY <1>5, <1>7, <3>2, <4>1
        <4> QED
          BY <1>2, <1>8, <2>1, <3>2, <4>1, <4>2 DEF HoldsOK, Pending
      <3> QED
        BY <3>1, <3>2
    <2>2. CASE d # c
      <3>1. conn'[d] = conn[d] /\ HoldsOK(conn[d])
        BY <1>8, <2>2 DEF Moves, TokInv
      <3>2. PICK x : x = conn[d]
        OBVIOUS
      <3>3. x.pc \in {"logout", "select", "rotate"} => x.tok \in 1 .. n
        BY <1>2, <3>1, <3>2 DEF HoldsOK
      <3>4. Pending(x) => x.new \in 1 .. n /\ x.new \notin live
        BY <1>2, <3>1, <3>2 DEF HoldsOK
      <3>5. x.pc = "rotate" => family'[x.new] = family'[x.tok]
        BY <1>7, <3>1, <3>2 DEF HoldsOK, Pending
      <3>6. x.pc = "login" => /\ family'[x.new] = x.new /\ outs[x.new] = 0
                              /\ \A t \in 1 .. n : family'[t] = x.new => t = x.new
        <4> SUFFICES ASSUME x.pc = "login"
                     PROVE  /\ family'[x.new] = x.new /\ outs[x.new] = 0
                            /\ \A t \in 1 .. n : family'[t] = x.new => t = x.new
          OBVIOUS
        <4>1. /\ x.new \in 1 .. drawn /\ x.new \notin live /\ family[x.new] = x.new /\ outs[x.new] = 0
              /\ \A t \in 1 .. drawn : family[t] = x.new => t = x.new
          BY <3>1, <3>2 DEF HoldsOK, Pending
        <4>2. g # x.new
          <5>1. live \subseteq 1 .. drawn
            BY DEF TokInv, DrawnInv
          <5> QED
            BY <1>2, <1>5, <4>1, <5>1
        <4> QED
          BY <1>2, <1>7, <4>1, <4>2
      <3> QED
        BY <1>2, <3>1, <3>2, <3>3, <3>4, <3>5, <3>6 DEF HoldsOK, Pending
    <2> QED
      BY <2>1, <2>2
  <1>12. ASSUME NEW a \in Conn, NEW b \in Conn, a # b, Pending(conn'[a]), Pending(conn'[b])
         PROVE  conn'[a].new # conn'[b].new
    <2>1. \A d \in Conn \ {c} : conn'[d] = conn[d]
      BY <1>8 DEF Moves
    <2>2. \A d \in Conn \ {c} : Pending(conn[d]) => conn[d].new # n
      BY <1>2 DEF TokInv, HoldsOK
    <2>3. CASE a = c \/ b = c
      BY <1>8, <1>12, <2>1, <2>2, <2>3
    <2>4. CASE a # c /\ b # c
      BY <1>12, <2>1, <2>4 DEF TokInv
    <2> QED
      BY <2>3, <2>4
  <1> QED
    BY <1>9, <1>10, <1>11, <1>12 DEF TokInv, Pending

\* A step that changes the rows: c answers, no token is drawn.  What another
\* connection will insert is in no row, and c's was its own.
LEMMA RowsTokens ==
    ASSUME TokInv, ConnOK', NEW c \in Conn, Moves(c), conn'[c].pc = "writing",
           UNCHANGED <<family, drawn>>, DrawnInv', FamilyBound',
           \A t \in live' : t \in live \/ (Pending(conn[c]) /\ t = conn[c].new),
           \A t \in Token : outs'[t] # outs[t] => \E r \in live : family[r] = t
    PROVE  TokInv'
  <1>1. \A d \in Conn \ {c} : conn'[d] = conn[d]
    BY DEF Moves
  <1>2. ASSUME NEW d \in Conn PROVE HoldsOK(conn[d])'
    <2>1. CASE d = c
      BY <2>1 DEF HoldsOK, Pending
    <2>2. CASE d # c
      <3>1. PICK x : x = conn[d] /\ x = conn'[d] /\ HoldsOK(x)
        BY <1>1, <2>2 DEF TokInv
      <3>2. Pending(x) => x.new \in 1 .. drawn /\ x.new \notin live'
        <4>1. Pending(x) => x.new \in 1 .. drawn /\ x.new \notin live
          BY <3>1 DEF HoldsOK
        <4>2. Pending(x) /\ Pending(conn[c]) => x.new # conn[c].new
          BY <2>2, <3>1 DEF TokInv
        <4> QED
          BY <4>1, <4>2
      <3>3. x.pc = "login" => outs'[x.new] = outs[x.new]
        <4> SUFFICES ASSUME x.pc = "login" PROVE outs'[x.new] = outs[x.new]
          OBVIOUS
        <4>1. /\ x.new \in 1 .. drawn /\ x.new \notin live
              /\ \A t \in 1 .. drawn : family[t] = x.new => t = x.new
          BY <3>1 DEF HoldsOK, Pending
        <4>2. live \subseteq 1 .. drawn /\ x.new \in Token
          <5>1. drawn \in Nat /\ drawn <= MaxToken /\ MaxToken \in Nat /\ live \subseteq 1 .. drawn
            BY AccountsAssumption DEF TokInv, DrawnInv
          <5> QED
            BY <4>1, <5>1 DEF Token
        <4> QED
          BY <4>1, <4>2
      <3> QED
        BY <3>1, <3>2, <3>3 DEF HoldsOK, Pending
    <2> QED
      BY <2>1, <2>2
  <1>3. \A a, b \in Conn : a # b /\ Pending(conn'[a]) /\ Pending(conn'[b]) => conn'[a].new # conn'[b].new
    <2>1. ~Pending(conn'[c])
      BY DEF Pending
    <2> QED
      BY <1>1, <2>1 DEF TokInv
  <1> QED
    BY <1>2, <1>3 DEF TokInv, Pending
\* The answer to a committed INSERT hands out the new token, or nothing.
LEMMA HandOutIs ==
    ASSUME TokInv, NEW c \in Conn, NEW u, HandOut(c, u)
    PROVE  /\ Moves(c) /\ conn'[c].pc = "writing"
           /\ handed' \subseteq handed \cup {conn[c].new}
  <1>1. PICK status \in {200, 500} : Answer(c, status)
    BY DEF HandOut
  <1>2. Moves(c) /\ conn'[c].pc = "writing"
    BY <1>1, AnswerIs DEF TokInv
  <1> QED
    BY <1>2 DEF HandOut

\* The INSERT of a login: the first valid token of its family.
LEMMA InsertTokens ==
    ASSUME TokInv, ConnOK', NEW c \in Conn, InsertToken(c)
    PROVE  TokInv'
  <1>1. /\ conn[c].pc = "login" /\ live' = live \cup {conn[c].new}
        /\ UNCHANGED <<family, drawn, late, outs>> /\ HandOut(c, conn[c].uid)
    BY DEF InsertToken
  <1>2. PICK n : n = conn[c].new
    OBVIOUS
  <1>3. /\ n \in 1 .. drawn /\ n \notin live /\ family[n] = n /\ outs[n] = 0
        /\ \A t \in 1 .. drawn : family[t] = n => t = n
    BY <1>1, <1>2 DEF TokInv, HoldsOK, Pending
  <1>4. Moves(c) /\ conn'[c].pc = "writing" /\ handed' \subseteq handed \cup {n}
    BY <1>1, <1>2, HandOutIs
  <1>5. DrawnInv'
    BY <1>1, <1>2, <1>3, <1>4 DEF TokInv, DrawnInv
  <1>6. FamilyBound'
    <2> SUFFICES ASSUME NEW f \in Token
                 PROVE  Cardinality({t \in live \cup {n} : family[t] = f}) + outs[f] <= 1 + late[f]
      BY <1>1, <1>2 DEF FamilyBound
    <2>1. CASE f = n
      <3>1. {t \in live \cup {n} : family[t] = f} = {n}
        BY <1>3, <2>1 DEF TokInv, DrawnInv
      <3>2. Cardinality({n}) = 1
        BY FS_Singleton
      <3>3. late[f] \in Nat
        BY DEF TokInv, DrawnInv
      <3> QED
        BY <1>3, <2>1, <3>1, <3>2, <3>3
    <2>2. CASE f # n
      <3>1. {t \in live \cup {n} : family[t] = f} = {t \in live : family[t] = f}
        BY <1>3, <2>2
      <3> QED
        BY <3>1 DEF TokInv, FamilyBound
    <2> QED
      BY <2>1, <2>2
  <1>7. \A t \in live' : t \in live \/ (Pending(conn[c]) /\ t = conn[c].new)
    BY <1>1 DEF Pending
  <1> QED
    BY <1>1, <1>4, <1>5, <1>6, <1>7, RowsTokens

\* The DELETE of a logout: a hit takes one valid token from the family.
LEMMA DeleteTokens ==
    ASSUME TokInv, ConnOK', NEW c \in Conn, DeleteToken(c)
    PROVE  TokInv'
  <1>1. PICK t : t = conn[c].tok
    OBVIOUS
  <1>2. /\ conn[c].pc = "logout" /\ UNCHANGED <<family, drawn, late, handed>>
        /\ \/ live' = live /\ outs' = outs
           \/ t \in live /\ live' = live \ {t} /\ outs' = [outs EXCEPT ![family[t]] = @ + 1]
    BY <1>1 DEF DeleteToken
  <1>3. \E status : Answer(c, status)
    BY DEF DeleteToken
  <1>4. Moves(c) /\ conn'[c].pc = "writing"
    BY <1>3, AnswerIs DEF TokInv
  <1>5. CASE live' = live /\ outs' = outs
    BY <1>2, <1>3, <1>5, QuietAnswer
  <1>6. CASE t \in live /\ live' = live \ {t} /\ outs' = [outs EXCEPT ![family[t]] = @ + 1]
    <2>1. PICK g : g = family[t] /\ g \in 1 .. drawn /\ g \in Token
      <3>1. drawn \in Nat /\ drawn <= MaxToken /\ MaxToken \in Nat /\ family[t] \in 1 .. drawn
        <4>1. drawn \in Nat /\ drawn <= MaxToken /\ MaxToken \in Nat /\ live \subseteq 1 .. drawn
          BY AccountsAssumption DEF TokInv, DrawnInv
        <4>2. t \in 1 .. drawn
          BY <1>6, <4>1
        <4> QED
          BY <4>1, <4>2 DEF TokInv, DrawnInv
      <3> QED
        BY <3>1 DEF Token
    <2>2. /\ outs \in [Token -> Nat] /\ late \in [Token -> Nat] /\ outs' \in [Token -> Nat]
          /\ outs'[g] = outs[g] + 1 /\ \A f \in Token : f # g => outs'[f] = outs[f]
      BY <1>6, <2>1 DEF TokInv, DrawnInv
    <2>3. DrawnInv'
      <3>1. \A f \in Token : f > drawn => f # g
        BY <2>1 DEF TokInv, DrawnInv, Token
      <3> QED
        BY <1>2, <1>6, <2>2, <3>1 DEF TokInv, DrawnInv
    <2>4. FamilyBound'
      <3> SUFFICES ASSUME NEW f \in Token
                   PROVE  Cardinality({r \in live' : family[r] = f}) + outs'[f] <= 1 + late[f]
        BY <1>2 DEF FamilyBound
      <3>1. PICK K : K = {r \in live : family[r] = f} /\ IsFiniteSet(K)
        BY ClassFinite DEF TokInv
      <3>2. Cardinality(K) \in Nat /\ Cardinality(K) + outs[f] <= 1 + late[f]
        BY <3>1, FS_CardinalityType DEF TokInv, FamilyBound
      <3>3. CASE f = g
        <4>1. {r \in live' : family[r] = f} = K \ {t} /\ t \in K
          BY <1>6, <2>1, <3>1, <3>3
        <4>2. Cardinality(K \ {t}) = Cardinality(K) - 1
          BY <3>1, <4>1, FS_RemoveElement
        <4> QED
          <5>1. PICK k, a, b \in Nat : k = Cardinality(K) /\ a = outs[f] /\ b = late[f]
            BY <2>2, <3>2
          <5>2. Cardinality({r \in live' : family[r] = f}) = k - 1 /\ outs'[f] = a + 1
            BY <2>2, <3>3, <4>1, <4>2, <5>1
          <5> QED
            BY <3>2, <5>1, <5>2
      <3>4. CASE f # g
        <4>1. {r \in live' : family[r] = f} = K
          BY <1>6, <2>1, <3>1, <3>4
        <4> QED
          BY <2>2, <3>2, <3>4, <4>1
      <3> QED
        BY <3>3, <3>4
    <2>5. \A f \in Token : outs'[f] # outs[f] => \E r \in live : family[r] = f
      BY <1>6, <2>1, <2>2
    <2> QED
      BY <1>2, <1>4, <1>6, <2>3, <2>4, <2>5, RowsTokens
  <1> QED
    BY <1>2, <1>5, <1>6

\* The transaction of a refresh: one token of the family for another; or, when a
\* rotation or a logout of the same token came first, one more.
LEMMA RotateTokens ==
    ASSUME TokInv, ConnOK', NEW c \in Conn, Rotate(c)
    PROVE  TokInv'
  <1>1. PICK t, n : t = conn[c].tok /\ n = conn[c].new
    OBVIOUS
  <1>2. /\ conn[c].pc = "rotate" /\ UNCHANGED <<family, drawn, outs>>
        /\ live' = (live \ {t}) \cup {n} /\ HandOut(c, owner[family[t]])
        /\ late' = IF t \in live THEN late ELSE [late EXCEPT ![family[t]] = @ + 1]
    BY <1>1 DEF Rotate
  <1>3. /\ Moves(c) /\ conn'[c].pc = "writing" /\ handed' \subseteq handed \cup {n}
    BY <1>1, <1>2, HandOutIs
  <1>4. t \in 1 .. drawn /\ n \in 1 .. drawn /\ n \notin live /\ family[n] = family[t]
    BY <1>1, <1>2 DEF TokInv, HoldsOK, Pending
  <1>5. PICK g : g = family[t] /\ g \in Token /\ family[n] = g
    <2>1. drawn \in Nat /\ drawn <= MaxToken /\ MaxToken \in Nat /\ family[t] \in 1 .. drawn
      BY <1>4, AccountsAssumption DEF TokInv, DrawnInv
    <2> QED
      BY <1>4, <2>1 DEF Token
  <1>6. /\ outs \in [Token -> Nat] /\ late \in [Token -> Nat] /\ late' \in [Token -> Nat]
        /\ late'[g] = IF t \in live THEN late[g] ELSE late[g] + 1
        /\ \A f \in Token : f # g => late'[f] = late[f]
    BY <1>2, <1>5 DEF TokInv, DrawnInv
  <1>7. DrawnInv'
    BY <1>2, <1>3, <1>4, <1>6 DEF TokInv, DrawnInv
  <1>8. FamilyBound'
    <2> SUFFICES ASSUME NEW f \in Token
                 PROVE  Cardinality({r \in live' : family[r] = f}) + outs[f] <= 1 + late'[f]
      BY <1>2 DEF FamilyBound
    <2>1. PICK K : K = {r \in live : family[r] = f} /\ IsFiniteSet(K)
      BY ClassFinite DEF TokInv
    <2>2. Cardinality(K) \in Nat /\ Cardinality(K) + outs[f] <= 1 + late[f] /\ n \notin K
      BY <1>4, <2>1, FS_CardinalityType DEF TokInv, FamilyBound
    <2>3. CASE f = g /\ t \in live
      <3>1. {r \in live' : family[r] = f} = (K \ {t}) \cup {n} /\ t \in K
        BY <1>2, <1>5, <2>1, <2>3
      <3>2. IsFiniteSet(K \ {t}) /\ Cardinality(K \ {t}) = Cardinality(K) - 1
        BY <2>1, <3>1, FS_RemoveElement
      <3>3. n \notin K \ {t}
        BY <2>2
      <3>4. Cardinality((K \ {t}) \cup {n}) = Cardinality(K \ {t}) + 1
        BY <3>2, <3>3, FS_AddElement
      <3> QED
        <4>1. PICK k, a, b \in Nat : k = Cardinality(K) /\ a = outs[f] /\ b = late[f]
          BY <1>6, <2>2
        <4>2. Cardinality({r \in live' : family[r] = f}) = (k - 1) + 1 /\ late'[f] = b
          BY <1>6, <2>3, <3>1, <3>2, <3>4, <4>1
        <4> QED
          BY <2>2, <4>1, <4>2
    <2>4. CASE f = g /\ t \notin live
      <3>1. {r \in live' : family[r] = f} = K \cup {n}
        BY <1>2, <1>5, <2>1, <2>4
      <3>2. Cardinality(K \cup {n}) = Cardinality(K) + 1
        BY <2>1, <2>2, FS_AddElement
      <3> QED
        <4>1. PICK k, a, b \in Nat : k = Cardinality(K) /\ a = outs[f] /\ b = late[f]
          BY <1>6, <2>2
        <4>2. Cardinality({r \in live' : family[r] = f}) = k + 1 /\ late'[f] = b + 1
          BY <1>6, <2>4, <3>1, <3>2, <4>1
        <4> QED
          BY <2>2, <4>1, <4>2
    <2>5. CASE f # g
      <3>1. {r \in live' : family[r] = f} = K
        BY <1>2, <1>5, <2>1, <2>5
      <3> QED
        BY <1>6, <2>2, <2>5, <3>1
    <2> QED
      BY <2>3, <2>4, <2>5
  <1>9. \A r \in live' : r \in live \/ (Pending(conn[c]) /\ r = conn[c].new)
    BY <1>1, <1>2 DEF Pending
  <1> QED
    BY <1>2, <1>3, <1>7, <1>8, <1>9, RowsTokens

\* The steps of the handlers.
LEMMA StepTokens ==
    ASSUME TokInv, ConnOK', NEW c \in Conn, Step(c)
    PROVE  TokInv'
  <1> DEFINE Still == UNCHANGED <<live, family, drawn, late, outs, handed>>
  <1>0. ConnOK
    BY DEF TokInv
  <1>1. CASE InsertToken(c) \/ DeleteToken(c) \/ Rotate(c)
    BY <1>1, InsertTokens, DeleteTokens, RotateTokens
  <1>2. CASE VerifyPassword(c)
    <2>1. conn[c].pc = "verify" /\ UNCHANGED <<live, late, outs, handed>>
      BY <1>2 DEF VerifyPassword, tokenVars
    <2>2. CASE Answer(c, 401) /\ UNCHANGED tokenVars
      BY <2>2, QuietAnswer DEF tokenVars
    <2>3. CASE Draw(c, "login", 0)
      BY <2>1, <2>3, DrawTokens DEF Pending
    <2> QED
      BY <1>2, <2>2, <2>3 DEF VerifyPassword
  <1>3. CASE SelectToken(c)
    <2>1. conn[c].pc = "select" /\ UNCHANGED <<live, late, outs, handed>>
      BY <1>3 DEF SelectToken, tokenVars
    <2>2. CASE Answer(c, 401) /\ UNCHANGED tokenVars
      BY <2>2, QuietAnswer DEF tokenVars
    <2>3. CASE conn[c].tok \in live /\ Draw(c, "rotate", family[conn[c].tok])
      BY <2>1, <2>3, DrawTokens DEF Pending
    <2> QED
      BY <1>3, <2>2, <2>3 DEF SelectToken
  <1>4. CASE HashThrows(c) \/ Written(c)
    BY <1>4, QuietLeave DEF HashThrows, Written, tokenVars
  <1>5. CASE CheckUnique(c)
    <2>1. Still
      BY <1>5 DEF CheckUnique, tokenVars
    <2>2. CASE Answer(c, 409)
      BY <2>1, <2>2, QuietAnswer
    <2>3. CASE conn' = [conn EXCEPT ![c].pc = "hash"]
      <3>1. Moves(c) /\ conn'[c].pc = "hash"
        BY <1>0, <2>3 DEF ConnOK, IsState, Moves
      <3> QED
        BY <2>1, <3>1, QuietMove DEF Free
    <2> QED
      BY <1>5, <2>2, <2>3 DEF CheckUnique
  <1>6. CASE Hash(c)
    <2>1. Moves(c) /\ conn'[c].pc = "insert" /\ Still
      BY <1>0, <1>6 DEF Hash, ConnOK, IsState, Moves, tokenVars
    <2> QED
      BY <2>1, QuietMove DEF Free
  <1>7. CASE LookupUser(c)
    <2>1. Still
      BY <1>7 DEF LookupUser, tokenVars
    <2>2. CASE Answer(c, 401)
      BY <2>1, <2>2, QuietAnswer
    <2>3. CASE \E u \in users : conn' = [conn EXCEPT ![c].pc = "verify", ![c].uid = u.uid]
      <3>1. Moves(c) /\ conn'[c].pc = "verify"
        BY <1>0, <2>3 DEF ConnOK, IsState, Moves
      <3> QED
        BY <2>1, <3>1, QuietMove DEF Free
    <2> QED
      BY <1>7, <2>2, <2>3 DEF LookupUser
  <1>8. CASE InsertUser(c) \/ UpdateProfile(c) \/ WriteDevice(c) \/ PgThrows(c)
    <2>1. Still /\ \E status : Answer(c, status)
      BY <1>8 DEF InsertUser, UpdateProfile, WriteDevice, PgThrows, tokenVars
    <2> QED
      BY <2>1, QuietAnswer
  <1>9. CASE ReadRow(c)
    <2>1. Still
      BY <1>9 DEF ReadRow, tokenVars
    <2>2. CASE \E status : Answer(c, status)
      BY <2>1, <2>2, QuietAnswer
    <2>3. CASE \E pc \in {"lastseen", "read"} : conn' = [conn EXCEPT ![c].pc = pc]
      <3>1. Moves(c) /\ conn'[c].pc \in {"lastseen", "read"}
        BY <1>0, <2>3 DEF ConnOK, IsState, Moves
      <3> QED
        BY <2>1, <3>1, QuietMove DEF Free
    <2> QED
      BY <1>9, <2>2, <2>3 DEF ReadRow
  <1> QED
    BY <1>1, <1>2, <1>3, <1>4, <1>5, <1>6, <1>7, <1>8, <1>9 DEF Step

\* A login never has more than one valid refresh token, and none after a logout,
\* but for one more per rotation that lost a race for its own token: however the
\* requests of any number of connections overlap, fail or commit in doubt.
THEOREM TokensBounded == Spec => []FamilyBound
  <1>1. Init => RegInv /\ TokInv
    <2> SUFFICES ASSUME Init PROVE RegInv /\ TokInv
      OBVIOUS
    <2>1. conn = [c \in Conn |-> Idle] /\ \A u, w \in users : u.name = w.name \/ u.email = w.email => u = w
      BY AccountsAssumption DEF Init
    <2>2. RegInv
      BY <2>1, IdleState DEF RegInv, ConnOK, Registered, Silent
    <2>3. DrawnInv
      BY AccountsAssumption DEF Init, DrawnInv, Token
    <2>4. FamilyBound
      <3>1. \A f : {t \in live : family[t] = f} = {}
        BY DEF Init
      <3>2. \A f \in Token : outs[f] = 0 /\ late[f] = 0
        BY DEF Init
      <3> QED
        BY <3>1, <3>2, FS_EmptySet DEF FamilyBound
    <2>5. \A c \in Conn : HoldsOK(conn[c]) /\ ~Pending(conn[c])
      BY <2>1 DEF HoldsOK, Pending, Idle
    <2> QED
      BY <2>2, <2>3, <2>4, <2>5 DEF TokInv, RegInv
  <1>2. RegInv /\ TokInv /\ [Next]_vars => (RegInv /\ TokInv)'
    <2> SUFFICES ASSUME RegInv, TokInv, [Next]_vars PROVE RegInv' /\ TokInv'
      OBVIOUS
    <2>1. RegInv'
      BY RegStep
    <2>2. ConnOK'
      BY <2>1 DEF RegInv
    <2>3. ASSUME NEW c \in Conn, ReadFails(c) \/ WsEnds(c) PROVE TokInv'
      BY <2>2, <2>3, QuietLeave DEF ReadFails, WsEnds, tokenVars
    <2>4. ASSUME NEW c \in Conn, Accept(c) PROVE TokInv'
      <3>1. ASSUME NEW d \in Conn \ {c} PROVE Kept(conn'[d], conn[d])
        <4>1. conn'[d] = [conn[d] EXCEPT !.solo = FALSE] /\ IsState(conn[d])
          BY <2>4, <3>1 DEF Accept, RegInv, ConnOK
        <4> QED
          BY <4>1 DEF IsState, Kept
      <3>2. Free(conn'[c])
        <4>1. PICK i : i = Idle /\ IsState(i)
          BY IdleState
        <4>2. PICK p : conn'[c] = [i EXCEPT !.pc = "reading", !.solo = p]
          BY <2>4, <4>1 DEF Accept
        <4>3. conn'[c].pc = "reading"
          BY <4>1, <4>2 DEF IsState
        <4> QED
          BY <4>3 DEF Free
      <3>3. UNCHANGED <<live, family, drawn, late, outs, handed>>
        BY <2>4 DEF Accept, tokenVars
      <3> QED
        BY <2>2, <3>1, <3>2, <3>3, QuietTokens
    <2>5. ASSUME NEW t \in Token, Expire(t) PROVE TokInv'
      BY <2>2, <2>5, QuietTokens DEF Expire, Kept
    <2>6. CASE UNCHANGED vars
      <3>1. UNCHANGED <<live, family, drawn, late, outs, handed>> /\ UNCHANGED conn
        BY <2>6 DEF vars, tokenVars
      <3> QED
        <4>1. \A d \in Conn : Kept(conn'[d], conn[d])
          BY <3>1 DEF Kept
        <4> QED
          BY <2>1, <2>2, <3>1, <4>1, QuietTokens
    <2>7. TokInv'
      BY <2>2, <2>3, <2>4, <2>5, <2>6, StepTokens, DispatchTokens DEF Next
    <2> QED
      BY <2>1, <2>7
  <1>3. TokInv => FamilyBound
    BY DEF TokInv
  <1> QED
    BY <1>1, <1>2, <1>3, PTL DEF Spec

-----------------------------------------------------------------------------
(***************************************************************************)
(* The request id of the thread, and PATCHes that overlap.                 *)
(***************************************************************************)

\* A handler goes on to its next await, answers, or ends; a PATCH begins.
Continues(c) ==
    /\ Moves(c) /\ conn[c].pc # "idle" /\ conn'[c].solo = conn[c].solo
    /\ conn'[c].pc \notin {"idle", "writing", "update"}
    /\ UNCHANGED <<ctx, profile, sure>>
Answers(c) ==
    /\ Moves(c) /\ conn[c].pc # "idle" /\ conn'[c].solo = conn[c].solo
    /\ conn'[c].pc = "writing" /\ conn'[c].xid = ctx
    /\ UNCHANGED ctx
Ends(c) ==
    /\ Moves(c) /\ conn[c].pc # "idle" /\ conn'[c].pc = "idle" /\ ~conn'[c].solo
    /\ UNCHANGED <<profile, sure>>
SameField(x, u, f) == x.pc = "update" /\ x.uid = u /\ x.field = f
Begins(c, u, f, v) ==
    /\ conn[c].pc = "reading" /\ DOMAIN conn' = Conn
    /\ SameField(conn'[c], u, f) /\ conn'[c].val = v /\ conn'[c].solo = conn[c].solo
    /\ (\E e \in Conn \ {c} : SameField(conn[e], u, f)) => conn'[c].clash
    /\ \A d \in Conn \ {c} :
          /\ conn'[d].pc = conn[d].pc /\ conn'[d].uid = conn[d].uid
          /\ conn'[d].field = conn[d].field /\ conn'[d].val = conn[d].val
          /\ conn'[d].xid = conn[d].xid /\ conn'[d].solo = conn[d].solo
          /\ conn[d].clash \/ SameField(conn[d], u, f) => conn'[d].clash
    /\ sure' = [sure EXCEPT ![u][f] = None]
    /\ UNCHANGED <<ctx, profile>>

\* An answer has the request id the thread has, and stays as alone as the request.
LEMMA AnswerTraced ==
    ASSUME ConnOK, NEW c \in Conn, NEW status, Answer(c, status), conn[c].pc # "idle",
           UNCHANGED ctx
    PROVE  Answers(c)
  <1>1. Moves(c) /\ conn'[c].pc = "writing"
    BY AnswerIs
  <1>2. PICK k : k = Keep(c, status)
    OBVIOUS
  <1>3. IsState(k)
    <2>1. PICK i : i = Idle /\ IsState(i)
      BY IdleState
    <2>2. k = IF status \in {201, 409}
              THEN [i EXCEPT !.uid = conn[c].uid, !.name = conn[c].name, !.email = conn[c].email]
              ELSE i
      BY <1>2, <2>1 DEF Keep
    <2> QED
      BY <2>1, <2>2 DEF IsState
  <1>4. conn' = [conn EXCEPT ![c] = [k EXCEPT !.pc = "writing", !.status = status, !.xid = ctx,
                                              !.solo = conn[c].solo]]
    BY <1>2 DEF Answer
  <1>5. conn'[c].xid = ctx /\ conn'[c].solo = conn[c].solo
    BY <1>3, <1>4 DEF ConnOK, IsState
  <1> QED
    BY <1>1, <1>5 DEF Answers

\* handle_connection() returns.
LEMMA LeaveEnds ==
    ASSUME ConnOK, NEW c \in Conn, Leave(c), conn[c].pc # "idle", UNCHANGED userVars
    PROVE  Ends(c)
  <1>1. conn'[c] = Idle /\ Moves(c)
    BY IdleState DEF Leave, Moves, ConnOK
  <1> QED
    BY <1>1 DEF Ends, Idle, userVars

\* PATCH /users/{id} gets to its UPDATE.
LEMMA PatchBegins ==
    ASSUME ConnOK, NEW c \in Conn, NEW op \in Op, Dispatch(c, op), PatchUser(c, op),
           ~(Answer(c, 403) /\ UNCHANGED sure)
    PROVE  \E u \in access, f \in Field, v \in Value : Begins(c, u, f, v)
  <1>1. PICK u \in access, f \in Field, v \in Value :
           LET same(d) == conn[d].pc = "update" /\ conn[d].uid = u /\ conn[d].field = f IN
           /\ conn' = [d \in Conn |->
                   IF d = c
                   THEN [conn[c] EXCEPT !.op = op, !.uid = u, !.field = f, !.val = v, !.pc = "update",
                                        !.clash = \E e \in Conn \ {c} : same(e)]
                   ELSE [conn[d] EXCEPT !.clash = @ \/ same(d)]]
           /\ sure' = [sure EXCEPT ![u][f] = None]
    BY DEF PatchUser
  <1>2. conn[c].pc = "reading" /\ UNCHANGED <<ctx, profile>> /\ DOMAIN conn' = Conn
    BY <1>1 DEF Dispatch
  <1>3. /\ SameField(conn'[c], u, f) /\ conn'[c].val = v /\ conn'[c].solo = conn[c].solo
        /\ (\E e \in Conn \ {c} : SameField(conn[e], u, f)) => conn'[c].clash
    <2>1. PICK p \in BOOLEAN : p <=> \E e \in Conn \ {c} : SameField(conn[e], u, f)
      OBVIOUS
    <2>2. PICK h : h = conn[c]
      OBVIOUS
    <2>3. conn'[c] = [h EXCEPT !.op = op, !.uid = u, !.field = f, !.val = v, !.pc = "update",
                               !.clash = p]
      BY <1>1, <2>1, <2>2 DEF SameField
    <2>4. PICK n : n = [h EXCEPT !.op = op, !.uid = u, !.field = f, !.val = v, !.pc = "update",
                                 !.clash = p]
      OBVIOUS
    <2>5. /\ n.pc = "update" /\ n.uid = u /\ n.field = f /\ n.val = v /\ n.solo = h.solo
          /\ n.clash = p
      BY <2>2, <2>4 DEF ConnOK, IsState
    <2> QED
      BY <2>1, <2>2, <2>3, <2>4, <2>5 DEF SameField
  <1>4. ASSUME NEW d \in Conn \ {c}
        PROVE  /\ conn'[d].pc = conn[d].pc /\ conn'[d].uid = conn[d].uid
               /\ conn'[d].field = conn[d].field /\ conn'[d].val = conn[d].val
               /\ conn'[d].xid = conn[d].xid /\ conn'[d].solo = conn[d].solo
               /\ conn[d].clash \/ SameField(conn[d], u, f) => conn'[d].clash
    <2>1. PICK k : k = (conn[d].clash \/ SameField(conn[d], u, f))
      OBVIOUS
    <2>2. PICK h : h = conn[d]
      OBVIOUS
    <2>3. h.clash \/ SameField(h, u, f) => k
      BY <2>1, <2>2
    <2>4. conn'[d] = [h EXCEPT !.clash = k]
      BY <1>1, <2>1, <2>2 DEF SameField
    <2>5. PICK n : n = [h EXCEPT !.clash = k]
      OBVIOUS
    <2>6. /\ n.pc = h.pc /\ n.uid = h.uid /\ n.field = h.field /\ n.val = h.val
          /\ n.xid = h.xid /\ n.solo = h.solo /\ n.clash = k
      BY <2>2, <2>5 DEF ConnOK, IsState
    <2> QED
      BY <2>2, <2>3, <2>4, <2>5, <2>6
  <1>5. Begins(c, u, f, v)
    BY <1>1, <1>2, <1>3, <1>4 DEF Begins
  <1> QED
    BY <1>5

\* The first part of a handler.
LEMMA DispatchIs ==
    ASSUME ConnOK, NEW c \in Conn, NEW op \in Op, Dispatch(c, op)
    PROVE  \/ Continues(c)
           \/ Answers(c) /\ UNCHANGED <<profile, sure>>
           \/ \E u \in access, f \in Field, v \in Value : Begins(c, u, f, v)
  <1>1. conn[c].pc = "reading" /\ UNCHANGED <<profile, ctx>>
    BY DEF Dispatch
  <1>2. CASE PatchUser(c, op) /\ ~(Answer(c, 403) /\ UNCHANGED sure)
    BY <1>2, PatchBegins
  <1>3. CASE UNCHANGED sure /\ (PatchUser(c, op) => Answer(c, 403))
    <2>1. CASE \E status : Answer(c, status)
      BY <1>1, <1>3, <2>1, AnswerTraced
    <2>2. CASE ~\E status : Answer(c, status)
      <3>1. Moves(c) /\ conn'[c].solo = conn[c].solo
              /\ conn'[c].pc \in {"ws", "unique", "lookup", "logout", "select", "read", "redis",
                                  "device"}
        <4>1. CASE Upgrade(c, op)
          BY <1>1, <4>1 DEF Upgrade, ConnOK, IsState, Moves
        <4>2. CASE PostRegister(c, op)
          <5>1. PICK s \in Signups :
                   conn' = [conn EXCEPT ![c].op = op, ![c].name = s[1], ![c].email = s[2],
                                        ![c].pc = "unique"]
            BY <4>2 DEF PostRegister
          <5> QED
            BY <5>1 DEF ConnOK, IsState, Moves
        <4>3. CASE PostLogin(c, op)
          <5>1. PICK s \in Signups :
                   conn' = [conn EXCEPT ![c].op = op, ![c].name = s[1], ![c].pc = "lookup"]
            BY <4>3 DEF PostLogin
          <5> QED
            BY <5>1 DEF ConnOK, IsState, Moves
        <4>4. CASE PostLogout(c, op)
          <5>1. PICK u, t : conn' = [conn EXCEPT ![c].op = op, ![c].uid = u, ![c].tok = t,
                                                 ![c].pc = "logout"]
            BY <2>2, <4>4 DEF PostLogout
          <5> QED
            BY <5>1 DEF ConnOK, IsState, Moves
        <4>5. CASE PostRefresh(c, op)
          <5>1. PICK t : conn' = [conn EXCEPT ![c].op = op, ![c].tok = t, ![c].pc = "select"]
            BY <4>5 DEF PostRefresh
          <5> QED
            BY <5>1 DEF ConnOK, IsState, Moves
        <4>6. CASE GetUser(c, op)
          <5>1. conn' = [conn EXCEPT ![c].op = op, ![c].pc = "read"]
            BY <2>2, <4>6 DEF GetUser
          <5> QED
            BY <5>1 DEF ConnOK, IsState, Moves
        <4>7. CASE GetPresence(c, op) \/ PushRegister(c, op)
          <5>1. PICK u \in Uid, p \in {"redis", "device"} :
                   conn' = [conn EXCEPT ![c].op = op, ![c].uid = u, ![c].pc = p]
            BY <2>2, <4>7 DEF GetPresence, PushRegister, RequireAuth
          <5> QED
            BY <5>1 DEF ConnOK, IsState, Moves
        <4>8. ~Unrouted(c, op) /\ ~BadRequest(c, op) /\ ~PatchUser(c, op)
          BY <1>3, <2>2 DEF Unrouted, BadRequest
        <4>9. \/ Upgrade(c, op) \/ PostRegister(c, op) \/ PostLogin(c, op) \/ PostLogout(c, op)
              \/ PostRefresh(c, op) \/ GetUser(c, op) \/ GetPresence(c, op)
              \/ PushRegister(c, op)
          BY <4>8, Zenon DEF Dispatch
        <4> QED
          BY <4>1, <4>2, <4>3, <4>4, <4>5, <4>6, <4>7, <4>9
      <3> QED
        BY <1>1, <1>3, <3>1 DEF Continues
    <2> QED
      BY <2>1, <2>2
  <1> QED
    BY <1>2, <1>3, Zenon DEF Dispatch

\* The awaits of the handlers.
LEMMA StepIs ==
    ASSUME ConnOK, NEW c \in Conn, Step(c), ~UpdateProfile(c)
    PROVE  Continues(c) \/ Ends(c) \/ (Answers(c) /\ UNCHANGED <<profile, sure>>)
  <1>1. CASE HashThrows(c) \/ Written(c)
    BY <1>1, LeaveEnds DEF HashThrows, Written
  <1>2. CASE ~(HashThrows(c) \/ Written(c))
    <2>1. conn[c].pc # "idle" /\ UNCHANGED <<ctx, profile, sure>>
      BY <1>2 DEF Step, CheckUnique, Hash, InsertUser, LookupUser, VerifyPassword, InsertToken,
           DeleteToken, SelectToken, Rotate, WriteDevice, ReadRow, PgThrows, userVars
    <2>2. CASE \E status : Answer(c, status)
      BY <2>1, <2>2, AnswerTraced
    <2>3. CASE ~\E status : Answer(c, status)
      <3>1. \/ \E p \in {"hash", "lastseen", "read"} : conn' = [conn EXCEPT ![c].pc = p]
            \/ \E x : \/ conn' = [conn EXCEPT ![c].pc = "insert", ![c].uid = x]
                      \/ conn' = [conn EXCEPT ![c].pc = "verify", ![c].uid = x]
                      \/ conn' = [conn EXCEPT ![c].pc = "login", ![c].new = x]
                      \/ conn' = [conn EXCEPT ![c].pc = "rotate", ![c].new = x]
        <4>1. CASE CheckUnique(c) \/ ReadRow(c)
          BY <2>3, <4>1 DEF CheckUnique, ReadRow
        <4>2. CASE Hash(c) \/ LookupUser(c)
          BY <2>3, <4>2 DEF Hash, LookupUser
        <4>3. CASE VerifyPassword(c) \/ SelectToken(c)
          BY <2>3, <4>3 DEF VerifyPassword, SelectToken, Draw
        <4>4. ~InsertUser(c) /\ ~InsertToken(c) /\ ~Rotate(c)
          BY <2>3, Zenon DEF InsertUser, InsertToken, Rotate, HandOut
        <4>5. ~DeleteToken(c) /\ ~WriteDevice(c) /\ ~PgThrows(c)
          <5>1. ~DeleteToken(c)
            BY <2>3 DEF DeleteToken
          <5>2. ~WriteDevice(c)
            BY <2>3 DEF WriteDevice
          <5>3. ~PgThrows(c)
            BY <2>3 DEF PgThrows
          <5> QED
            BY <5>1, <5>2, <5>3
        <4>6. \/ CheckUnique(c) \/ ReadRow(c) \/ Hash(c) \/ LookupUser(c)
              \/ VerifyPassword(c) \/ SelectToken(c)
          BY <1>2, <4>4, <4>5, Zenon DEF Step
        <4> QED
          BY <4>1, <4>2, <4>3, <4>6
      <3>2. /\ Moves(c) /\ conn'[c].solo = conn[c].solo
            /\ conn'[c].pc \in {"hash", "lastseen", "read", "insert", "verify", "login", "rotate"}
        <4>1. CASE \E p \in {"hash", "lastseen", "read"} : conn' = [conn EXCEPT ![c].pc = p]
          BY <4>1 DEF ConnOK, IsState, Moves
        <4>2. ASSUME NEW x, \/ conn' = [conn EXCEPT ![c].pc = "insert", ![c].uid = x]
                            \/ conn' = [conn EXCEPT ![c].pc = "verify", ![c].uid = x]
              PROVE  /\ Moves(c) /\ conn'[c].solo = conn[c].solo
                     /\ conn'[c].pc \in {"insert", "verify"}
          BY <4>2 DEF ConnOK, IsState, Moves
        <4>3. ASSUME NEW x, \/ conn' = [conn EXCEPT ![c].pc = "login", ![c].new = x]
                            \/ conn' = [conn EXCEPT ![c].pc = "rotate", ![c].new = x]
              PROVE  /\ Moves(c) /\ conn'[c].solo = conn[c].solo
                     /\ conn'[c].pc \in {"login", "rotate"}
          BY <4>3 DEF ConnOK, IsState, Moves
        <4> QED
          BY <3>1, <4>1, <4>2, <4>3
      <3> QED
        BY <2>1, <3>2 DEF Continues
    <2> QED
      BY <2>2, <2>3
  <1> QED
    BY <1>1, <1>2

-----------------------------------------------------------------------------
\* A request that overlapped no other connection has the thread's request id for
\* itself: there is no other connection now, and the id is its own.
SoloInv ==
    \A c \in Conn : conn[c].solo =>
        /\ ctx = c
        /\ \A e \in Conn \ {c} : conn[e].pc = "idle"
        /\ conn[c].pc = "writing" => conn[c].xid = c

\* A step of one connection.
LEMMA SoloMove ==
    ASSUME SoloInv, NEW c \in Conn, conn[c].pc # "idle",
           \A d \in Conn \ {c} : /\ conn'[d].pc = conn[d].pc /\ conn'[d].xid = conn[d].xid
                                 /\ conn'[d].solo = conn[d].solo,
           \/ ~conn'[c].solo
           \/ /\ conn'[c].solo = conn[c].solo /\ UNCHANGED ctx
              /\ conn'[c].pc = "writing" => conn'[c].xid = ctx
    PROVE  SoloInv'
  <1>1. \A d \in Conn \ {c} : ~conn[d].solo
    BY DEF SoloInv
  <1>2. \A d \in Conn \ {c} : ~conn'[d].solo
    BY <1>1
  <1>3. CASE ~conn'[c].solo
    BY <1>2, <1>3 DEF SoloInv
  <1>4. CASE /\ conn'[c].solo = conn[c].solo /\ UNCHANGED ctx
             /\ conn'[c].pc = "writing" => conn'[c].xid = ctx
    <2>1. ASSUME conn'[c].solo
          PROVE  /\ ctx' = c /\ \A e \in Conn \ {c} : conn'[e].pc = "idle"
                 /\ conn'[c].pc = "writing" => conn'[c].xid = c
      BY <1>4, <2>1 DEF SoloInv
    <2> QED
      BY <1>2, <2>1 DEF SoloInv
  <1> QED
    BY <1>3, <1>4

\* A new connection is alone or not; the others are not.
LEMMA SoloAccept ==
    ASSUME ConnOK, NEW c \in Conn, Accept(c)
    PROVE  SoloInv'
  <1>1. /\ conn'[c].pc = "reading"
        /\ conn'[c].solo => \A e \in Conn \ {c} : conn[e].pc = "idle"
    <2>1. PICK i : i = Idle /\ IsState(i)
      BY IdleState
    <2>2. PICK p \in BOOLEAN : p <=> \A e \in Conn \ {c} : conn[e].pc = "idle"
      OBVIOUS
    <2>3. conn'[c] = [i EXCEPT !.pc = "reading", !.solo = p]
      BY <2>1, <2>2 DEF Accept
    <2>4. PICK n : n = [i EXCEPT !.pc = "reading", !.solo = p]
      OBVIOUS
    <2>5. n.pc = "reading" /\ n.solo = p
      BY <2>1, <2>4 DEF IsState
    <2> QED
      BY <2>2, <2>3, <2>4, <2>5
  <1>2. ASSUME NEW d \in Conn \ {c} PROVE ~conn'[d].solo /\ conn'[d].pc = conn[d].pc
    <2>1. conn'[d] = [conn[d] EXCEPT !.solo = FALSE] /\ IsState(conn[d])
      BY DEF Accept, ConnOK
    <2> QED
      BY <2>1 DEF IsState
  <1>3. ctx' = c
    BY DEF Accept
  <1> QED
    BY <1>1, <1>2, <1>3 DEF SoloInv

\* Every step.
LEMMA SoloStep == ConnOK /\ SoloInv /\ [Next]_vars => SoloInv'
  <1> SUFFICES ASSUME ConnOK, SoloInv, [Next]_vars PROVE SoloInv'
    OBVIOUS
  <1>1. ASSUME NEW c \in Conn, Continues(c) \/ Answers(c) \/ Ends(c) PROVE SoloInv'
    BY <1>1, SoloMove DEF Continues, Answers, Ends, Moves
  <1>2. ASSUME NEW c \in Conn, NEW u, NEW f, NEW v, Begins(c, u, f, v) PROVE SoloInv'
    BY <1>2, SoloMove DEF Begins, SameField
  <1>3. ASSUME NEW c \in Conn, ReadFails(c) \/ WsEnds(c) PROVE SoloInv'
    <2>1. Ends(c)
      BY <1>3, LeaveEnds DEF ReadFails, WsEnds
    <2> QED
      BY <1>1, <2>1
  <1>4. ASSUME NEW c \in Conn, Step(c) PROVE SoloInv'
    <2>1. CASE UpdateProfile(c)
      <3>1. Answers(c)
        BY <2>1, AnswerTraced DEF UpdateProfile
      <3> QED
        BY <1>1, <3>1
    <2> QED
      BY <1>1, <1>4, <2>1, StepIs
  <1>5. ASSUME NEW c \in Conn, NEW op \in Op, Dispatch(c, op) PROVE SoloInv'
    BY <1>1, <1>2, <1>5, DispatchIs
  <1>6. CASE UNCHANGED <<conn, ctx>>
    BY <1>6 DEF SoloInv
  <1>7. (\E t \in Token : Expire(t)) \/ UNCHANGED vars => UNCHANGED <<conn, ctx>>
    BY DEF Expire, vars
  <1> QED
    BY <1>3, <1>4, <1>5, <1>6, <1>7, SoloAccept DEF Next

\* The X-Request-ID goes through g_request_ctx, which all coroutines of the thread
\* share; for a request that overlapped no other connection it is right
\* (HttpServer::handle_connection).
THEOREM SoloRequestsTraced == Spec => []SoloTraced
  <1>1. Init => RegInv /\ SoloInv
    <2> SUFFICES ASSUME Init PROVE RegInv /\ SoloInv
      OBVIOUS
    <2>1. conn = [c \in Conn |-> Idle] /\ \A u, w \in users : u.name = w.name \/ u.email = w.email => u = w
      BY AccountsAssumption DEF Init
    <2>2. RegInv
      BY <2>1, IdleState DEF RegInv, ConnOK, Registered, Silent
    <2>3. SoloInv
      BY <2>1 DEF SoloInv, Idle
    <2> QED
      BY <2>2, <2>3
  <1>2. RegInv /\ SoloInv /\ [Next]_vars => RegInv' /\ SoloInv'
    BY RegStep, SoloStep DEF RegInv
  <1>3. SoloInv => SoloTraced
    BY DEF SoloInv, SoloTraced
  <1> QED
    BY <1>1, <1>2, <1>3, PTL DEF Spec

-----------------------------------------------------------------------------
\* What the UPDATEs under way are about: nothing is concluded of their fields, and two
\* of one field know of each other.
PatchInv ==
    /\ profile \in [Uid -> [Field -> Value \cup {None}]]
    /\ sure \in [Uid -> [Field -> Value \cup {None}]]
    /\ PatchesMerge
    /\ \A c \in Conn : conn[c].pc = "update" =>
          /\ conn[c].field \in Field /\ conn[c].val \in Value
          /\ conn[c].uid \in Uid => sure[conn[c].uid][conn[c].field] = None
    /\ \A c, d \in Conn :
          c # d /\ conn[c].pc = "update" /\ SameField(conn[d], conn[c].uid, conn[c].field)
          => conn[c].clash

\* No UPDATE begins or ends with an effect.
LEMMA PatchQuiet ==
    ASSUME PatchInv, UNCHANGED <<profile, sure>>,
           \A d \in Conn : \/ conn'[d].pc # "update"
                           \/ /\ conn'[d].pc = conn[d].pc /\ conn'[d].uid = conn[d].uid
                              /\ conn'[d].field = conn[d].field /\ conn'[d].val = conn[d].val
                              /\ conn'[d].clash = conn[d].clash
    PROVE  PatchInv'
  <1>1. PatchesMerge'
    BY DEF PatchInv, PatchesMerge
  <1>2. \A c \in Conn : conn'[c].pc = "update" =>
          /\ conn'[c].field \in Field /\ conn'[c].val \in Value
          /\ conn'[c].uid \in Uid => sure'[conn'[c].uid][conn'[c].field] = None
    BY DEF PatchInv
  <1>3. ASSUME NEW c \in Conn, NEW d \in Conn, c # d, conn'[c].pc = "update",
               SameField(conn'[d], conn'[c].uid, conn'[c].field)
        PROVE  conn'[c].clash
    BY <1>3 DEF PatchInv, SameField
  <1> QED
    BY <1>1, <1>2, <1>3 DEF PatchInv

\* A PATCH begins: the conclusion about its field ends, and the other PATCHes of the
\* field are marked.
LEMMA PatchStarts ==
    ASSUME PatchInv, NEW c \in Conn, NEW u, NEW f \in Field, NEW v \in Value, Begins(c, u, f, v)
    PROVE  PatchInv'
  <1>1. sure' \in [Uid -> [Field -> Value \cup {None}]] /\ UNCHANGED profile
    BY DEF PatchInv, Begins
  <1>2. \A w \in Uid, g \in Field : sure'[w][g] = IF w = u /\ g = f THEN None ELSE sure[w][g]
    BY DEF PatchInv, Begins
  <1>3. PatchesMerge'
    BY <1>1, <1>2 DEF PatchInv, PatchesMerge
  <1>4. ASSUME NEW d \in Conn, conn'[d].pc = "update"
        PROVE  /\ conn'[d].field \in Field /\ conn'[d].val \in Value
               /\ conn'[d].uid \in Uid => sure'[conn'[d].uid][conn'[d].field] = None
    <2>1. CASE d = c
      BY <1>2, <2>1 DEF Begins, SameField
    <2>2. CASE d # c
      <3>1. /\ conn[d].pc = "update" /\ conn'[d].uid = conn[d].uid
            /\ conn'[d].field = conn[d].field /\ conn'[d].val = conn[d].val
        BY <1>4, <2>2 DEF Begins
      <3> QED
        BY <1>2, <3>1 DEF PatchInv
    <2> QED
      BY <2>1, <2>2
  <1>5. ASSUME NEW d \in Conn, NEW e \in Conn, d # e, conn'[d].pc = "update",
               SameField(conn'[e], conn'[d].uid, conn'[d].field)
        PROVE  conn'[d].clash
    <2>1. CASE d = c
      <3>1. SameField(conn[e], u, f)
        BY <1>5, <2>1 DEF Begins, SameField
      <3> QED
        BY <1>5, <2>1, <3>1 DEF Begins
    <2>2. CASE d # c /\ e = c
      <3>1. SameField(conn[d], u, f)
        BY <1>5, <2>2 DEF Begins, SameField
      <3> QED
        BY <2>2, <3>1 DEF Begins
    <2>3. CASE d # c /\ e # c
      <3>1. conn[d].pc = "update" /\ SameField(conn[e], conn[d].uid, conn[d].field)
        BY <1>5, <2>3 DEF Begins, SameField
      <3>2. conn[d].clash
        BY <1>5, <3>1 DEF PatchInv
      <3> QED
        BY <2>3, <3>2 DEF Begins
    <2> QED
      BY <2>1, <2>2, <2>3
  <1>6. profile' \in [Uid -> [Field -> Value \cup {None}]]
    BY <1>1 DEF PatchInv
  <1> QED
    BY <1>1, <1>3, <1>4, <1>5, <1>6 DEF PatchInv

\* The UPDATE commits: without a clash no other UPDATE of the field is under way.
LEMMA PatchCommits ==
    ASSUME PatchInv, ConnOK, NEW c \in Conn, UpdateProfile(c)
    PROVE  PatchInv'
  <1>1. PICK r : r = conn[c]
    OBVIOUS
  <1>2. /\ r.pc = "update" /\ profile' = [profile EXCEPT ![r.uid][r.field] = r.val]
        /\ \/ sure' = sure
           \/ ~r.clash /\ sure' = [sure EXCEPT ![r.uid][r.field] = r.val]
    BY <1>1 DEF UpdateProfile
  <1>3. /\ r.field \in Field /\ r.val \in Value
        /\ r.uid \in Uid => sure[r.uid][r.field] = None
    BY <1>1, <1>2 DEF PatchInv
  <1>4. conn'[c].pc = "writing" /\ Moves(c)
    <2>1. Answers(c)
      BY <1>1, <1>2, AnswerTraced DEF UpdateProfile
    <2> QED
      BY <2>1 DEF Answers
  <1>5. profile' \in [Uid -> [Field -> Value \cup {None}]]
    BY <1>2, <1>3 DEF PatchInv
  <1>6. sure' \in [Uid -> [Field -> Value \cup {None}]]
    <2>1. sure \in [Uid -> [Field -> Value \cup {None}]]
      BY DEF PatchInv
    <2>2. CASE sure' = [sure EXCEPT ![r.uid][r.field] = r.val]
      BY <1>3, <2>1, <2>2
    <2> QED
      BY <1>2, <2>1, <2>2
  <1>7. \A w \in Uid, g \in Field :
           /\ profile'[w][g] = IF w = r.uid /\ g = r.field THEN r.val ELSE profile[w][g]
           /\ \/ sure'[w][g] = sure[w][g]
              \/ ~r.clash /\ w = r.uid /\ g = r.field /\ sure'[w][g] = r.val
    <2> SUFFICES ASSUME NEW w \in Uid, NEW g \in Field
                 PROVE  /\ profile'[w][g] = IF w = r.uid /\ g = r.field THEN r.val ELSE profile[w][g]
                        /\ \/ sure'[w][g] = sure[w][g]
                           \/ ~r.clash /\ w = r.uid /\ g = r.field /\ sure'[w][g] = r.val
      OBVIOUS
    <2>1. DOMAIN profile = Uid /\ DOMAIN profile[w] = Field
          /\ DOMAIN sure = Uid /\ DOMAIN sure[w] = Field
      BY DEF PatchInv
    <2>2. profile'[w][g] = IF w = r.uid /\ g = r.field THEN r.val ELSE profile[w][g]
      BY <1>2, <2>1
    <2>3. CASE sure' = sure
      BY <2>2, <2>3
    <2>4. CASE ~r.clash /\ sure' = [sure EXCEPT ![r.uid][r.field] = r.val]
      BY <2>1, <2>2, <2>4
    <2> QED
      BY <1>2, <2>3, <2>4
  <1>8. PatchesMerge'
    BY <1>3, <1>7 DEF PatchInv, PatchesMerge
  <1>9. ASSUME NEW d \in Conn, conn'[d].pc = "update"
        PROVE  /\ conn'[d].field \in Field /\ conn'[d].val \in Value
               /\ conn'[d].uid \in Uid => sure'[conn'[d].uid][conn'[d].field] = None
    <2>1. d # c /\ conn'[d] = conn[d]
      BY <1>4, <1>9 DEF Moves
    <2>2. SameField(conn[d], r.uid, r.field) => r.clash
      BY <1>1, <1>2, <2>1 DEF PatchInv
    <2>3. /\ conn[d].pc = "update" /\ conn[d].field \in Field /\ conn[d].val \in Value
          /\ conn[d].uid \in Uid => sure[conn[d].uid][conn[d].field] = None
      BY <1>9, <2>1 DEF PatchInv
    <2>4. ASSUME conn[d].uid \in Uid PROVE sure'[conn[d].uid][conn[d].field] = None
      BY <1>7, <2>2, <2>3, <2>4 DEF SameField
    <2> QED
      BY <2>1, <2>3, <2>4
  <1>10. ASSUME NEW d \in Conn, NEW e \in Conn, d # e, conn'[d].pc = "update",
                SameField(conn'[e], conn'[d].uid, conn'[d].field)
         PROVE  conn'[d].clash
    <2>1. conn'[d] = conn[d] /\ conn'[e] = conn[e]
      BY <1>4, <1>10 DEF Moves, SameField
    <2> QED
      BY <1>10, <2>1 DEF PatchInv
  <1> QED
    BY <1>5, <1>6, <1>8, <1>9, <1>10 DEF PatchInv

\* Every step.
LEMMA PatchStep == ConnOK /\ PatchInv /\ [Next]_vars => PatchInv'
  <1> SUFFICES ASSUME ConnOK, PatchInv, [Next]_vars PROVE PatchInv'
    OBVIOUS
  <1>1. ASSUME NEW c \in Conn,
               Continues(c) \/ Ends(c) \/ (Answers(c) /\ UNCHANGED <<profile, sure>>)
        PROVE  PatchInv'
    <2>1. conn'[c].pc # "update" /\ Moves(c) /\ UNCHANGED <<profile, sure>>
      BY <1>1 DEF Continues, Answers, Ends
    <2> QED
      BY <2>1, PatchQuiet DEF Moves
  <1>2. ASSUME NEW c \in Conn, ReadFails(c) \/ WsEnds(c) PROVE PatchInv'
    <2>1. Ends(c)
      BY <1>2, LeaveEnds DEF ReadFails, WsEnds
    <2> QED
      BY <1>1, <2>1
  <1>3. ASSUME NEW c \in Conn, Step(c) PROVE PatchInv'
    BY <1>1, <1>3, StepIs, PatchCommits
  <1>4. ASSUME NEW c \in Conn, NEW op \in Op, Dispatch(c, op) PROVE PatchInv'
    BY <1>1, <1>4, DispatchIs, PatchStarts
  <1>5. ASSUME NEW c \in Conn, Accept(c) PROVE PatchInv'
    <2>1. conn'[c].pc # "update"
      <3>1. PICK i : i = Idle /\ IsState(i)
        BY IdleState
      <3>2. PICK p : conn'[c] = [i EXCEPT !.pc = "reading", !.solo = p]
        BY <1>5, <3>1 DEF Accept
      <3> QED
        BY <3>1, <3>2 DEF IsState
    <2>2. ASSUME NEW d \in Conn \ {c}
          PROVE  /\ conn'[d].pc = conn[d].pc /\ conn'[d].uid = conn[d].uid
                 /\ conn'[d].field = conn[d].field /\ conn'[d].val = conn[d].val
                 /\ conn'[d].clash = conn[d].clash
      <3>1. conn'[d] = [conn[d] EXCEPT !.solo = FALSE] /\ IsState(conn[d])
        BY <1>5 DEF Accept, ConnOK
      <3> QED
        BY <3>1 DEF IsState
    <2>3. UNCHANGED <<profile, sure>>
      BY <1>5 DEF Accept, userVars
    <2> QED
      BY <2>1, <2>2, <2>3, PatchQuiet
  <1>6. CASE UNCHANGED <<conn, profile, sure>>
    BY <1>6, PatchQuiet
  <1>7. (\E t \in Token : Expire(t)) \/ UNCHANGED vars => UNCHANGED <<conn, profile, sure>>
    BY DEF Expire, vars, userVars
  <1> QED
    BY <1>2, <1>3, <1>4, <1>5, <1>6, <1>7 DEF Next

\* Overlapping PATCHes of one user do not undo each other, for any number of them and
\* with commits in doubt: the UPDATE with COALESCE writes the field of its request
\* only (PATCH /users/{id}).
THEOREM PatchesKept == Spec => []PatchesMerge
  <1>1. Init => RegInv /\ PatchInv
    <2> SUFFICES ASSUME Init PROVE RegInv /\ PatchInv
      OBVIOUS
    <2>1. conn = [c \in Conn |-> Idle] /\ \A u, w \in users : u.name = w.name \/ u.email = w.email => u = w
      BY AccountsAssumption DEF Init
    <2>2. RegInv
      BY <2>1, IdleState DEF RegInv, ConnOK, Registered, Silent
    <2>3. PatchInv
      <3>1. \A c \in Conn : conn[c].pc = "idle"
        BY <2>1 DEF Idle
      <3>2. PatchesMerge
        BY DEF Init, PatchesMerge
      <3>3. /\ profile \in [Uid -> [Field -> Value \cup {None}]]
            /\ sure \in [Uid -> [Field -> Value \cup {None}]]
        BY DEF Init
      <3> QED
        BY <3>1, <3>2, <3>3 DEF PatchInv
    <2> QED
      BY <2>2, <2>3
  <1>2. RegInv /\ PatchInv /\ [Next]_vars => RegInv' /\ PatchInv'
    BY RegStep, PatchStep DEF RegInv
  <1>3. PatchInv => PatchesMerge
    BY DEF PatchInv
  <1> QED
    BY <1>1, <1>2, <1>3, PTL DEF Spec
=============================================================================
