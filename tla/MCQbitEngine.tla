---------------------------- MODULE MCQbitEngine ----------------------------
(* Two torrents: one of two files, one of them longer than its first       *)
(* piece, and one of a single short file.                                  *)
EXTENDS QbitEngine, TLC

CONSTANTS a, b

MCTorrents == {a, b}
MCParts == a :> (0 :> 2 @@ 1 :> 1) @@ b :> (0 :> 1)
=============================================================================
