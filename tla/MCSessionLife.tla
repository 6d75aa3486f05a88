---------------------------- MODULE MCSessionLife ----------------------------
(***************************************************************************)
(* Instances of SessionLife for TLC: one user connects twice, over TCP and *)
(* over a WebSocket, so that a reconnect can overlap the old connection's  *)
(* cleanup in every way; another user never does.                          *)
(***************************************************************************)
EXTENDS SessionLife, TLC

CONSTANTS alice, bob, s1, s2

MCUser == {alice, bob}
MCSess == {s1, s2}
MCOwner == s1 :> alice @@ s2 :> alice
MCMixed == s1 :> "tcp" @@ s2 :> "ws"
=============================================================================
