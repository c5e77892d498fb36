--------------------------- MODULE MCCacheManager ---------------------------
(***************************************************************************)
(* A small instance of CacheManager for TLC.                               *)
(***************************************************************************)
EXTENDS CacheManager

CONSTANTS small, large

(* The limit configured is the size of the large one; the one request for  *)
(* others lowers it, and asks for an age that overflows.                   *)
MCTorrents == {small, large}
MCChanges == {[size |-> 1, age |-> 5]}
MCConfigured == [size |-> 2, age |-> 1]
MCSizeOf == [h \in Torrents |-> IF h = large THEN 2 ELSE 1]
=============================================================================
