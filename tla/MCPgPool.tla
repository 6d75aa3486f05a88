------------------------------ MODULE MCPgPool ------------------------------
(***************************************************************************)
(* An instance of PgPool for TLC.                                          *)
(***************************************************************************)
EXTENDS PgPool

CONSTANTS t1, t2, c1, c2
=============================================================================
