---------------------------- MODULE MCMessageMerge ----------------------------
(***************************************************************************)
(* An instance of MessageMerge for TLC.  Texts are only compared.          *)
(***************************************************************************)
EXTENDS MessageMerge

Texts == Permutations(Content)
=============================================================================
