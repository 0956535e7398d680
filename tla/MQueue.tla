------------------------------- MODULE MQueue -------------------------------
(***************************************************************************)
(* utils/Queue/mqueue.go: a linked list behind one lock (recvLock) and one *)
(* condition variable (recvCond), with nodes recycled through a pool.      *)
(*                                                                         *)
(* Every method body that runs under recvLock is one step.  Workers run    *)
(* DequeueFunc with a function that always returns true, as the handlers   *)
(* of server/rabbitmq_product.go do; Waiters call DequeueWait once.        *)
(* order, accepted and taken are history variables: the nodes of the list  *)
(* from head to tail, the values Enqueue accepted, the values dequeue      *)
(* returned.  Nothing in the code reads them and no guard does.            *)
(***************************************************************************)
EXTENDS Naturals, Sequences

CONSTANTS Values,     \* what is stored
          Nodes,      \* the addresses a list node can have
          Workers,    \* goroutines inside DequeueFunc
          Waiters,    \* goroutines inside DequeueWait
          MaxItems,   \* bound: how many values are accepted
          nil

ASSUME MQueueAssumption ==
    /\ nil \notin Nodes
    /\ Workers \cap Waiters = {}
    /\ MaxItems \in Nat

Threads == Workers \cup Waiters

VARIABLES head, tail,       \* node pointers
          next, value,      \* the fields of every node
          nodePool,         \* nodes that nodePool.Get may return
          count, status,
          pc,               \* where each thread is
          order, accepted, taken

list == <<head, tail, next, value, nodePool, count, order>>
vars == <<head, tail, next, value, nodePool, count, status, pc, order,
          accepted, taken>>

Init ==
    /\ head = nil
    /\ tail = nil
    /\ next = [n \in Nodes |-> nil]
    /\ value = [n \in Nodes |-> nil]
    /\ nodePool = Nodes
    /\ count = 0
    /\ status = TRUE
    /\ pc = [t \in Threads |-> "dequeue"]
    /\ order = <<>>
    /\ accepted = <<>>
    /\ taken = <<>>

-----------------------------------------------------------------------------
(* recvCond.Broadcast(): every sleeping thread returns from Wait, releases *)
(* the lock again and goes back to the top of its loop.                    *)
Broadcast ==
    pc' = [t \in Threads |-> IF pc[t] = "wait" THEN "dequeue" ELSE pc[t]]

(* Mutant: Close forgets to wake the sleepers. *)
Close_NoBroadcast ==
    /\ status' = FALSE
    /\ UNCHANGED <<list, pc, accepted, taken>>

Close ==
    /\ status' = FALSE
    /\ Broadcast
    /\ UNCHANGED <<list, accepted, taken>>

(* Mutant: the second node is not linked to the first. *)
Link_NextLost(n) ==
    /\ head' = IF head = nil THEN n ELSE head
    /\ tail' = IF head = nil THEN tail ELSE n
    /\ next' = IF tail = nil THEN [next EXCEPT ![n] = nil]
                             ELSE [next EXCEPT ![n] = nil, ![tail] = n]

(* The three cases of Enqueue that link node n: empty list, one element    *)
(* (tail is nil), several elements.                                        *)
Link(n) ==
    \/ /\ head = nil
       /\ head' = n
       /\ UNCHANGED tail
       /\ next' = [next EXCEPT ![n] = nil]
    \/ /\ head # nil
       /\ tail = nil
       /\ tail' = n
       /\ UNCHANGED head
       /\ next' = [next EXCEPT ![n] = nil, ![head] = n]
    \/ /\ head # nil
       /\ tail # nil
       /\ tail' = n
       /\ UNCHANGED head
       /\ next' = [next EXCEPT ![n] = nil, ![tail] = n]

(* Enqueue on an open queue.  On a closed one it returns an error and      *)
(* changes nothing, which is a stuttering step here.                       *)
Enqueue(v) ==
    /\ status
    /\ Len(accepted) < MaxItems
    /\ \E n \in nodePool :
          /\ nodePool' = nodePool \ {n}
          /\ value' = [value EXCEPT ![n] = v]
          /\ Link(n)
          /\ order' = Append(order, n)
    /\ count' = count + 1
    /\ Broadcast
    /\ accepted' = Append(accepted, v)
    /\ UNCHANGED <<status, taken>>

(* Mutant: the new head goes to the pool instead of the old one. *)
Unlink_PutsNewHead ==
    /\ head # nil
    /\ head' = next[head]
    /\ tail' = IF next[head] # nil /\ next[head] = tail THEN nil ELSE tail
    /\ count' = count - 1
    /\ taken' = Append(taken, value[head])
    /\ value' = [value EXCEPT ![head] = nil]
    /\ next' = [next EXCEPT ![head] = nil]
    /\ nodePool' = nodePool \cup ({head'} \ {nil})
    /\ order' = Tail(order)

(* The part of dequeue that runs when head is not nil. *)
Unlink ==
    /\ head # nil
    /\ head' = next[head]
    /\ tail' = IF next[head] # nil /\ next[head] = tail THEN nil ELSE tail
    /\ count' = count - 1
    /\ taken' = Append(taken, value[head])
    /\ value' = [value EXCEPT ![head] = nil]
    /\ next' = [next EXCEPT ![head] = nil]
    /\ nodePool' = nodePool \cup {head}
    /\ order' = Tail(order)

Goto(t, l) == pc' = [pc EXCEPT ![t] = l]

(* Mutant: isClose is looked at before ok. *)
Dequeue_ClosedFirst(t) ==
    /\ pc[t] = "dequeue"
    /\ \/ /\ status
          /\ Unlink
          /\ Goto(t, IF t \in Workers THEN "fn" ELSE "returned")
       \/ /\ ~status \/ head = nil
          /\ Goto(t, IF status THEN "check" ELSE "closed")
          /\ UNCHANGED <<list, taken>>
    /\ UNCHANGED <<status, accepted>>

(* t, ok, isClose = q.dequeue() and the branch on ok and isClose.  A       *)
(* worker that got a value runs fn on it; a waiter returns with it.        *)
Dequeue(t) ==
    /\ pc[t] = "dequeue"
    /\ \/ /\ Unlink
          /\ Goto(t, IF t \in Workers THEN "fn" ELSE "returned")
       \/ /\ head = nil
          /\ Goto(t, IF status THEN "check" ELSE "closed")
          /\ UNCHANGED <<list, taken>>
    /\ UNCHANGED <<status, accepted>>

(* fn(t, isClose) returns true. *)
Process(t) ==
    /\ pc[t] = "fn"
    /\ Goto(t, "check")
    /\ UNCHANGED <<list, status, accepted, taken>>

(* Mutant: the count is not looked at again before Wait. *)
CheckWait_Unchecked(t) ==
    /\ pc[t] = "check"
    /\ Goto(t, IF status THEN "wait" ELSE "dequeue")
    /\ UNCHANGED <<list, status, accepted, taken>>

(* Lock; if q.status && q.count == 0 { Wait }; Unlock. *)
CheckWait(t) ==
    /\ pc[t] = "check"
    /\ Goto(t, IF status /\ count = 0 THEN "wait" ELSE "dequeue")
    /\ UNCHANGED <<list, status, accepted, taken>>

ThreadStep(t) == Dequeue(t) \/ Process(t) \/ CheckWait(t)

Next ==
    \/ \E v \in Values : Enqueue(v)
    \/ Close
    \/ \E t \in Threads : ThreadStep(t)

Spec == Init /\ [][Next]_vars

(* The Go scheduler runs every runnable goroutine: each thread's own steps *)
(* are weakly fair.  Nobody is obliged to enqueue or to close.             *)
FairSpec == Spec /\ \A t \in Threads : WF_vars(ThreadStep(t))
-----------------------------------------------------------------------------
Ends == {"returned", "closed"}

(* The values the fields of the queue and its nodes take: in particular a  *)
(* dequeued value is one that was stored, never that of a cleared node.    *)
TypeOK ==
    /\ head \in Nodes \cup {nil}
    /\ tail \in Nodes \cup {nil}
    /\ next \in [Nodes -> Nodes \cup {nil}]
    /\ value \in [Nodes -> Values \cup {nil}]
    /\ nodePool \in SUBSET Nodes
    /\ count \in Nat
    /\ status \in BOOLEAN
    /\ pc \in [Threads -> {"dequeue", "fn", "check", "wait"} \cup Ends]
    /\ order \in Seq(Nodes)
    /\ accepted \in Seq(Values)
    /\ taken \in Seq(Values)

(* The pointer structure Enqueue and dequeue maintain (mqueue.go 58-126):  *)
(* following next from head visits every element once and ends in nil,     *)
(* count is the number of elements, tail is nil unless there are two or    *)
(* more elements and is the last one then, and a linked node is never in   *)
(* the pool, so no node is handed out twice.                               *)
ListShape ==
    /\ count = Len(order)
    /\ head = IF order = <<>> THEN nil ELSE order[1]
    /\ tail = IF Len(order) < 2 THEN nil ELSE order[Len(order)]
    /\ \A i \in 1 .. Len(order) :
          /\ order[i] \notin nodePool
          /\ next[order[i]] = IF i = Len(order) THEN nil ELSE order[i + 1]
    /\ \A i, j \in 1 .. Len(order) : order[i] = order[j] => i = j

Contents == [i \in 1 .. Len(order) |-> value[order[i]]]

(* Nothing accepted is lost, duplicated or reordered, whoever dequeues it  *)
(* and however the list nodes are recycled.                                *)
ExactlyOnceInOrder == accepted = taken \o Contents

(* No lost wake-up: a thread sleeps in recvCond.Wait only while the queue  *)
(* is open and empty (mqueue.go 142-146, 166-170 against 52 and 84).       *)
SleepsOnlyWhenIdle ==
    \A t \in Threads : pc[t] = "wait" => status /\ head = nil

(* DequeueFunc and DequeueWait report "closed" only when the queue is      *)
(* closed and everything accepted has been taken out: Close drains.        *)
DrainedBeforeExit ==
    \A t \in Threads :
       pc[t] = "closed" => ~status /\ taken = accepted

Fifo == INSTANCE ClosableFifo WITH items <- Contents, open <- status

(* The linked list implements the abstract queue, step for step. *)
ImplementsFifo == Fifo!FifoSpec

(* Under fair scheduling, once the queue is closed every handler returns,  *)
(* which is what closeRabbitmqSendQueueSlices waits for.                   *)
CloseTerminates == ~status ~> \A t \in Threads : pc[t] \in Ends

(* Under fair scheduling the k-th accepted value is eventually taken out:  *)
(* no element stays in the queue while the workers sleep.                  *)
EventuallyTaken ==
    \A k \in 1 .. MaxItems : (Len(accepted) >= k) ~> (Len(taken) >= k)
=============================================================================
