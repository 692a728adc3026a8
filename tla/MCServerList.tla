---------------------------- MODULE MCServerList ----------------------------
(* Lists of up to two servers for ServerList. *)
EXTENDS ServerList

CONSTANTS a, b

ListsUpToTwo == {<<>>, <<a>>, <<a, b>>, <<b>>}
=============================================================================
