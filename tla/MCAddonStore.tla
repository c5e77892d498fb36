---------------------------- MODULE MCAddonStore ----------------------------
(***************************************************************************)
(* Small instances of AddonStore for TLC.                                  *)
(***************************************************************************)
EXTENDS AddonStore, TLC

CONSTANTS u1, u2, i1, i2

(* Two addons of different ids.                                            *)
MCIdOf == (u1 :> i1) @@ (u2 :> i2)

Symmetry == Permutations(Requests)
=============================================================================
