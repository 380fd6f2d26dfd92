--------------------------- MODULE MCSortedDialer ---------------------------
(***************************************************************************)
(* SortedDialer.tla for TLC: lists of servers.                             *)
(***************************************************************************)
EXTENDS SortedDialer

ThreeServers == <<"a", "b", "c">>
First == {"a"}
=============================================================================
