---------------------------- MODULE MCChatGateway -----------------------------
(***************************************************************************)
(* An instance of ChatGateway for TLC.                                     *)
(***************************************************************************)
EXTENDS ChatGateway
=============================================================================
