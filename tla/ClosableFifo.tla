---------------------------- MODULE ClosableFifo ----------------------------
(***************************************************************************)
(* What a queue of utils/Queue promises its users (the Queue interface of  *)
(* queue.go): values leave in the order they entered, each exactly once;   *)
(* after Close nothing enters, and what is inside can still be taken out.  *)
(***************************************************************************)
EXTENDS Sequences

CONSTANT Values

VARIABLES items, open

fifoVars == <<items, open>>

FifoInit ==
    /\ items = <<>>
    /\ open = TRUE

Put(v) ==
    /\ open
    /\ items' = Append(items, v)
    /\ UNCHANGED open

Take ==
    /\ items # <<>>
    /\ items' = Tail(items)
    /\ UNCHANGED open

Shut ==
    /\ open' = FALSE
    /\ UNCHANGED items

FifoNext == (\E v \in Values : Put(v)) \/ Take \/ Shut

FifoSpec == FifoInit /\ [][FifoNext]_fifoVars
=============================================================================
