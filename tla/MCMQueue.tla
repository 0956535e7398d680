------------------------------ MODULE MCMQueue ------------------------------
(***************************************************************************)
(* A small instance of MQueue for TLC.  There are as many nodes as values  *)
(* can be accepted: nodePool.Get never runs out, and any node may be       *)
(* recycled for a later value.                                             *)
(***************************************************************************)
EXTENDS MQueue
=============================================================================
