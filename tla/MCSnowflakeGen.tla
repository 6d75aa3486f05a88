---------------------------- MODULE MCSnowflakeGen ----------------------------
(***************************************************************************)
(* Instances of SnowflakeGen for TLC.                                      *)
(***************************************************************************)
EXTENDS SnowflakeGen

Forward == {1, 2}
BackAndForth == {1, -1}
=============================================================================
