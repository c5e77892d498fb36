---------------------------- MODULE MCCacheFile ----------------------------
(***************************************************************************)
(* A small instance of CacheFile for TLC.                                  *)
(***************************************************************************)
EXTENDS CacheFile, TLC

CONSTANTS a, b, first, second, cleaner

MCTorrents == {a, b}
MCSaves == {first, second, cleaner}

(* The saves that accesses start are alike, and so are the torrents.       *)
MCSymmetry == Permutations({first, second}) \cup Permutations({a, b})
=============================================================================
