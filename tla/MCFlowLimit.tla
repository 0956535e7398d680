---------------------------- MODULE MCFlowLimit ----------------------------
(***************************************************************************)
(* Small instances of FlowLimit for TLC.                                   *)
(***************************************************************************)
EXTENDS FlowLimit, TLC

(* A rate below the size of the one share, so that both limits matter. *)
SmallRate == {[rate |-> 1, burst |-> 2]}
(* Bursts that give two shares one byte each and none at all. *)
TinyBursts == {[rate |-> 1, burst |-> 2], [rate |-> 1, burst |-> 1]}
(* A rate below and one above the size of a share. *)
EitherRate == {[rate |-> 1, burst |-> 2], [rate |-> 3, burst |-> 2]}
(* A burst that does not limit, so that the rate does. *)
TwoRates == {[rate |-> 1, burst |-> 4], [rate |-> 3, burst |-> 4]}

Symmetry == Permutations(Readers)
=============================================================================
