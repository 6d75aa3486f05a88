---------------------------- MODULE MCWriteQueue ----------------------------
(***************************************************************************)
(* Instances of WriteQueue for TLC: two frames of one piece and one of two *)
(* pieces, enqueued in every order.                                        *)
(***************************************************************************)
EXTENDS WriteQueue, TLC

CONSTANTS small, large, reply

MCFrame == {small, large}
MCPieces == small :> 1 @@ large :> 2
=============================================================================
