-------------------------------- MODULE Outbox --------------------------------
(***************************************************************************)
(* What the outbound side of a session promises to the rest of the server: *)
(* frames leave in the order they were accepted, each at most once, none   *)
(* is lost while the connection is open, and an accepted frame is sent     *)
(* eventually unless the connection closes.  Delivery relies on this;      *)
(* WriteQueue is shown to implement it.                                    *)
(***************************************************************************)
EXTENDS Sequences, Naturals

CONSTANT Frame

VARIABLES pending,  \* accepted, not yet sent
          out,      \* sent to the peer, in order
          open      \* the connection is open

boxVars == <<pending, out, open>>

BoxInit == pending = <<>> /\ out = <<>> /\ open = TRUE

Put(f) ==
    /\ pending' = Append(pending, f)
    /\ UNCHANGED <<out, open>>

Transmit ==
    /\ open /\ pending # <<>>
    /\ out' = Append(out, Head(pending))
    /\ pending' = Tail(pending)
    /\ UNCHANGED open

\* A frame is lost only once the connection is closed.
Drop ==
    /\ ~open /\ pending # <<>>
    /\ pending' = Tail(pending)
    /\ UNCHANGED <<out, open>>

Close ==
    /\ open
    /\ open' = FALSE
    /\ UNCHANGED <<pending, out>>

BoxNext == (\E f \in Frame : Put(f)) \/ Transmit \/ Drop \/ Close

BoxSafety == BoxInit /\ [][BoxNext]_boxVars

BoxSpec == BoxSafety /\ WF_boxVars(Transmit)
=============================================================================
