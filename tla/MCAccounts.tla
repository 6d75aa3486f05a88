------------------------------ MODULE MCAccounts ------------------------------
(***************************************************************************)
(* An instance of Accounts for TLC: two connections at a time.  A          *)
(* behaviour is about accounts, refresh tokens, or profiles and devices.   *)
(***************************************************************************)
EXTENDS Accounts

CONSTANTS c1, c2

MCConn == {c1, c2}
MCSignups == {<<"ann", "a">>, <<"ann", "b">>}
MCAnn == {[uid |-> 1, name |-> "ann", email |-> "a"]}

\* Accounts; tokens; profiles and devices.
MCMenus ==
    {[users |-> {},
      ops |-> ({c1} \X {"register", "login"}) \cup ({c2} \X {"register", "user"})],
     [users |-> MCAnn,
      ops |-> ({c1} \X {"login", "refresh"}) \cup ({c2} \X {"logout", "refresh"})],
     [users |-> MCAnn,
      ops |-> ({c1} \X {"patch", "push"})
              \cup ({c2} \X {"patch", "unpush", "presence", "options", "unknown", "ws"})]}
=============================================================================
