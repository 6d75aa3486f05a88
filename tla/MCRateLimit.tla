----------------------------- MODULE MCRateLimit -----------------------------
(***************************************************************************)
(* Instances of RateLimit for TLC: a bucket of two and a half tokens that  *)
(* gains half a token per tick.                                            *)
(***************************************************************************)
EXTENDS RateLimit

CONSTANTS session, key
=============================================================================
