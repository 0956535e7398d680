--------------------------- MODULE RabbitProducer ---------------------------
(***************************************************************************)
(* The producer side of the RabbitMQ pool (utils/rabbitMQ/rabbitMQPool.go): *)
(* rPush takes the next connection, makes sure it is open, takes a channel *)
(* for the queue from channelPool or opens one, all under channelLock, and *)
(* publishes after the lock is released; it retries with the next          *)
(* connection when Publish fails.                                          *)
(***************************************************************************)
EXTENDS Naturals

CONSTANTS Pushers, Queues,
          MaxConn,           \* maxConnection
          PushMaxTime,       \* pushMaxTime
          MaxFaults,         \* bound on lost connections
          none

Slots == 0 .. MaxConn - 1

VARIABLES
    conn,          \* per slot: number of the connection, whether it is open
    channelPool,   \* per slot and queue: the connection the channel was opened on
    index, lock,   \* connectionIndex, holder of channelLock
    push,          \* per pusher: stage, queue, sendTime, slot and channel
    reach, faults

vars == <<conn, channelPool, index, lock, push, reach, faults>>

Idle == [at |-> "idle", queue |-> none, sendTime |-> 0, rc |-> none, ch |-> none]

Init ==
    /\ conn = [i \in Slots |-> [no |-> 1, open |-> TRUE]]
    /\ channelPool = [k \in Slots \X Queues |-> none]
    /\ index = 0 /\ lock = none
    /\ push = [p \in Pushers |-> Idle]
    /\ reach = TRUE /\ faults = 0

Push(p, q) ==
    /\ push[p].at = "idle"
    /\ push' = [push EXCEPT ![p] = [Idle EXCEPT !.at = "enter", !.queue = q]]
    /\ UNCHANGED <<conn, channelPool, index, lock, reach, faults>>

(* Give up after pushMaxTime attempts; else lock and getConnection. *)
Enter(p) ==
    /\ push[p].at = "enter"
    /\ \/ /\ push[p].sendTime >= PushMaxTime
          /\ push' = [push EXCEPT ![p] = Idle]
          /\ UNCHANGED <<index, lock>>
       \/ /\ push[p].sendTime < PushMaxTime
          /\ lock = none
          /\ lock' = p
          /\ index' = (index + 1) % MaxConn
          /\ push' = [push EXCEPT ![p].at = "conn", ![p].rc = index']
    /\ UNCHANGED <<conn, channelPool, reach, faults>>

(* tryConn: forget the channel for this queue and dial, again and again    *)
(* until it works; the caller is never told that it had to retry.          *)
TryConn(p) ==
    LET i == push[p].rc IN
    /\ push[p].at = "conn"
    /\ \/ conn[i].open /\ UNCHANGED <<conn, channelPool>>
       \/ /\ ~conn[i].open
          /\ reach
          /\ channelPool' = [channelPool EXCEPT ![<<i, push[p].queue>>] = none]
          /\ conn' = [conn EXCEPT ![i] = [no |-> @.no + 1, open |-> TRUE]]
    /\ push' = [push EXCEPT ![p].at = "channel"]
    /\ UNCHANGED <<index, lock, reach, faults>>

(* getChannelQueueReset: the pooled channel, or a new one; if none can be  *)
(* opened Push returns an error.                                           *)
GetChannel(p) ==
    LET k == <<push[p].rc, push[p].queue>> IN
    /\ push[p].at = "channel"
    /\ lock' = none
    /\ \/ /\ channelPool[k] # none
          /\ push' = [push EXCEPT ![p].at = "publish", ![p].ch = channelPool[k]]
          /\ UNCHANGED channelPool
       \/ /\ channelPool[k] = none /\ conn[k[1]].open
          /\ channelPool' = [channelPool EXCEPT ![k] = conn[k[1]].no]
          /\ push' = [push EXCEPT ![p].at = "publish", ![p].ch = conn[k[1]].no]
       \/ /\ channelPool[k] = none /\ ~conn[k[1]].open
          /\ push' = [push EXCEPT ![p] = Idle]
          /\ UNCHANGED channelPool
    /\ UNCHANGED <<conn, index, reach, faults>>

(* A channel works as long as the connection it was opened on; 2 s after   *)
(* a failure everything starts over.                                       *)
Publish(p) ==
    LET c == conn[push[p].rc] IN
    /\ push[p].at = "publish"
    /\ push' = [push EXCEPT ![p] =
                  IF c.open /\ c.no = @.ch THEN Idle
                  ELSE [Idle EXCEPT !.at = "enter", !.queue = push[p].queue,
                                    !.sendTime = push[p].sendTime + 1]]
    /\ UNCHANGED <<conn, channelPool, index, lock, reach, faults>>

(* The broker. *)
Lose(i) ==
    /\ conn[i].open
    /\ faults < MaxFaults
    /\ faults' = faults + 1
    /\ conn' = [conn EXCEPT ![i].open = FALSE]
    /\ reach' \in BOOLEAN
    /\ UNCHANGED <<channelPool, index, lock, push>>

Back ==
    /\ ~reach
    /\ reach' = TRUE
    /\ UNCHANGED <<conn, channelPool, index, lock, push, faults>>

Next ==
    \/ \E p \in Pushers :
          \/ \E q \in Queues : Push(p, q)
          \/ Enter(p) \/ TryConn(p) \/ GetChannel(p) \/ Publish(p)
    \/ \E i \in Slots : Lose(i)
    \/ Back

Spec == Init /\ [][Next]_vars

-----------------------------------------------------------------------------
(* Every connection keeps channels of its own: what channelPool holds for  *)
(* an open connection was opened on that connection.                       *)
ChannelsOfConn ==
    \A i \in Slots, q \in Queues :
       conn[i].open /\ channelPool[<<i, q>>] # none => channelPool[<<i, q>>] = conn[i].no
=============================================================================
