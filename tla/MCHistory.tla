------------------------------ MODULE MCHistory -------------------------------
(***************************************************************************)
(* An instance of History for TLC.                                         *)
(***************************************************************************)
EXTENDS History

MCUser == {1, 2, 3}
MCChats == {<<"tcp", 2, 1>>, <<"ws", 1, 7>>, <<"group", 2, 8>>}
MCOpens == {<<1, {2}>>}
MCReads == {<<1, 1, 0>>, <<3, 8, 5>>}
MCDeletes == {<<2, 1>>, <<2, 8>>}
=============================================================================
