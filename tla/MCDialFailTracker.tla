------------------------- MODULE MCDialFailTracker -------------------------
(***************************************************************************)
(* Small instances of DialFailTracker for TLC.                             *)
(***************************************************************************)
EXTENDS DialFailTracker, TLC

Symmetry == Permutations(Callers)
=============================================================================
