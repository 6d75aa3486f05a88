------------------------------- MODULE MCGroups -------------------------------
(***************************************************************************)
(* An instance of Groups for TLC: carol creates a group with alice, adds   *)
(* and removes bob; bob leaves, reads, writes, comes and goes.  Handlers   *)
(* of the first slot change the group, those of the second change it as    *)
(* well or read it.                                                        *)
(***************************************************************************)
EXTENDS Groups

CONSTANTS alice, bob, carol, r1, r2

MCUser == {alice, bob, carol}
MCReq == {r1, r2}
MCCalls ==
    {<<r1, "create", carol, carol>>, <<r1, "add", carol, bob>>, <<r1, "remove", carol, bob>>,
     <<r1, "add", alice, bob>>, <<r1, "patch", carol, carol>>,
     <<r2, "add", carol, bob>>, <<r2, "remove", bob, bob>>,
     <<r1, "read", bob, bob>>, <<r2, "get", bob, bob>>, <<r2, "list", bob, bob>>,
     <<r2, "read", bob, bob>>, <<r2, "wsread", bob, bob>>, <<r2, "typing", alice, alice>>,
     <<r2, "tcp", bob, bob>>, <<r2, "ws", alice, alice>>}
=============================================================================
