------------------------------- MODULE MCRelay -------------------------------
(***************************************************************************)
(* Small instances of Relay for TLC.                                       *)
(***************************************************************************)
EXTENDS Relay, TLC

(* Callers, URLs and handlers are interchangeable.                         *)
Symmetry == Permutations(Callers) \cup Permutations(Urls)
            \cup Permutations(Handlers)
=============================================================================
