--------------------------- MODULE RabbitConsumer ---------------------------
(***************************************************************************)
(* The consumer side of the RabbitMQ pool (utils/rabbitMQ/rabbitMQPool.go): *)
(* RunConsume starts a generation of consumeTasks, waits for an error and  *)
(* reconnects; the tasks share the connections of the pool round robin,    *)
(* acknowledge a message, handle it and retry it through a dead-letter     *)
(* queue.  One receive is modelled, the auth events (IsTry, IsAutoAck).    *)
(* The broker, which may be unreachable, drop connections or raise errors  *)
(* on a channel, is external.                                              *)
(***************************************************************************)
EXTENDS Naturals

CONSTANTS Channels,     \* consumeMaxChannel
          MaxConn,      \* maxConnection
          Msgs, MaxReTry,
          Routed,       \* whether the dead-letter queue leads back to the queue
          MaxFaults,    \* bound on what goes wrong with the broker
          MaxGen,       \* bound on the generations of consumers
          null

ASSUME RabbitAssumption ==
    /\ Channels \in Nat /\ MaxConn \in Nat \ {0}
    /\ MaxGen \in Nat /\ MaxFaults \in Nat

Gens == 1 .. MaxGen
Nums == 0 .. Channels - 1
Tasks == Gens \X Nums
Listeners == Gens
Epochs == 1 .. MaxGen + MaxFaults + 1
Conns == Epochs \X (0 .. MaxConn - 1)

VARIABLES
    loop,                \* where RunConsume is
    status, lock,        \* status and the holder of statusLock while it sends
    conn,                \* state of every connection that was dialled
    epoch, pool,         \* pool.connections: which, and how many
    index,               \* connectionIndex
    gen,                 \* the last generation of consumers started
    task, on, bad,       \* per task: stage, connection, channel in error
    listener, failCount, loaded, lostCount,   \* per rListenerConsume
    place, retryNums, handled, via,    \* per message: where it is, header, handled
    held, acked,         \* per task: message, whether its Ack succeeded
    reach, faults,       \* the broker
    panicked

loopVars == <<loop, epoch, pool, gen>>
lockVars == <<status, lock>>
taskVars == <<task, on, bad>>
countVars == <<failCount, loaded, lostCount>>
msgVars == <<place, retryNums, handled, via, held, acked>>
brokerVars == <<reach, faults>>
consumerVars == <<loopVars, lockVars, conn, index, taskVars, listener, countVars,
                  msgVars, brokerVars, panicked>>

InitConsumer ==
    /\ loop = "connect"
    /\ status = FALSE /\ lock = null
    /\ conn = [c \in Conns |-> "none"]
    /\ epoch = 1 /\ pool = 0 /\ index = 0 /\ gen = 0
    /\ task = [t \in Tasks |-> "none"]
    /\ on = [t \in Tasks |-> null]
    /\ bad = [t \in Tasks |-> FALSE]
    /\ listener = [g \in Listeners |-> "none"]
    /\ failCount = [g \in Listeners |-> 0]
    /\ loaded = [t \in Tasks |-> 0]
    /\ lostCount = FALSE
    /\ place = [m \in Msgs |-> "queue"]
    /\ retryNums = [m \in Msgs |-> 0]
    /\ handled = [m \in Msgs |-> FALSE]
    /\ via = [m \in Msgs |-> null]
    /\ held = [t \in Tasks |-> null]
    /\ acked = [t \in Tasks |-> FALSE]
    /\ reach = TRUE /\ faults = 0
    /\ panicked = FALSE

-----------------------------------------------------------------------------
(* RunConsume.                                                             *)
LoopLeaves == <<index, taskVars, listener, countVars, msgVars, brokerVars, panicked>>

(* Connect, when the process starts: an error is only logged, and the      *)
(* connections made so far stay.                                           *)
Connect ==
    /\ loop = "connect"
    /\ \/ /\ reach
          /\ conn' = [conn EXCEPT ![<<epoch, pool>>] = "up"]
          /\ pool' = pool + 1
          /\ loop' = IF pool + 1 = MaxConn THEN "start" ELSE "connect"
       \/ ~reach /\ loop' = "start" /\ UNCHANGED <<conn, pool>>
    /\ UNCHANGED <<LoopLeaves, epoch, gen, lockVars>>

(* rConsume: without connections reconnect, else start the tasks. *)
Start ==
    /\ loop = "start"
    /\ \/ pool = 0 /\ loop' = "sleep" /\ UNCHANGED <<gen, task, listener>>
       \/ /\ pool > 0 /\ gen < MaxGen
          /\ gen' = gen + 1
          /\ task' = [t \in Tasks |-> IF t[1] = gen + 1 THEN "start" ELSE task[t]]
          /\ listener' = [listener EXCEPT ![gen + 1] = "wait"]
          /\ loop' = "wait"
    /\ UNCHANGED <<lockVars, conn, epoch, pool, index, on, bad, countVars, msgVars,
                   brokerVars, panicked>>

(* The error has been received (Send): status = true. *)
Lock ==
    /\ loop = "lock"
    /\ lock = null
    /\ status' = TRUE
    /\ loop' = "sleep"
    /\ UNCHANGED <<LoopLeaves, conn, epoch, pool, gen, lock>>

(* retryConsume: after 2 s try a connection, then build a new pool. *)
Probe ==
    /\ loop = "sleep"
    /\ reach
    /\ epoch' = epoch + 1
    /\ pool' = 0
    /\ loop' = "dial"
    /\ UNCHANGED <<LoopLeaves, conn, gen, lockVars>>

(* initConnections; an error starts over. *)
Dial ==
    /\ loop = "dial"
    /\ \/ /\ reach
          /\ conn' = [conn EXCEPT ![<<epoch, pool>>] = "up"]
          /\ pool' = pool + 1
          /\ loop' = IF pool + 1 = MaxConn THEN "release" ELSE "dial"
       \/ ~reach /\ loop' = "sleep" /\ UNCHANGED <<conn, pool>>
    /\ UNCHANGED <<LoopLeaves, epoch, gen, lockVars>>

(* Mutant: status stays set. *)
Release_Keeps ==
    /\ loop = "release"
    /\ lock = null
    /\ loop' = "start"
    /\ UNCHANGED <<LoopLeaves, conn, epoch, pool, gen, lockVars>>

Release ==
    /\ loop = "release"
    /\ lock = null
    /\ status' = FALSE
    /\ loop' = "start"
    /\ UNCHANGED <<LoopLeaves, conn, epoch, pool, gen, lock>>

LoopStep == Connect \/ Start \/ Lock \/ Probe \/ Dial \/ Release

-----------------------------------------------------------------------------
(* consumeTask.                                                            *)
Up(t) == conn[on[t]] = "up" /\ ~bad[t]

TaskTo(t, l) == task' = [task EXCEPT ![t] = l]

SetupLeaves == <<loopVars, lockVars, conn, listener, countVars, msgVars, brokerVars>>

Panic == panicked' = TRUE

(* The next connection of the pool, which may be shorter than maxConnection. *)
GetConnection(t) ==
    LET i == (index + 1) % MaxConn IN
    /\ task[t] = "start"
    /\ index' = i
    /\ \/ /\ i < pool
          /\ on' = [on EXCEPT ![t] = <<epoch, i>>]
          /\ TaskTo(t, "create")
          /\ UNCHANGED panicked
       \/ i >= pool /\ Panic /\ UNCHANGED <<on, task>>
    /\ UNCHANGED <<SetupLeaves, bad>>

(* rCreateChannel: on failure the connection is left alone. *)
CreateChannel(t) ==
    /\ task[t] = "create"
    /\ TaskTo(t, IF Up(t) THEN "declare" ELSE "count")
    /\ on' = IF Up(t) THEN on ELSE [on EXCEPT ![t] = null]
    /\ UNCHANGED <<SetupLeaves, index, bad, panicked>>

(* rDeclare of the queue.  After a failure the second rDeclare fails too.  *)
Declare(t) ==
    /\ task[t] = "declare"
    /\ TaskTo(t, IF ~Up(t) THEN "fail" ELSE IF t[2] % 2 = 0 THEN "dead" ELSE "consume")
    /\ UNCHANGED <<SetupLeaves, index, on, bad, panicked>>

(* The dead-letter queue, for even tasks.  If its channel cannot be made,  *)
(* the text of the first error, which is nil here, is asked for.           *)
DeclareDead(t) ==
    /\ task[t] = "dead"
    /\ \/ conn[on[t]] = "up" /\ TaskTo(t, IF bad[t] THEN "fail" ELSE "consume") /\ UNCHANGED panicked
       \/ conn[on[t]] # "up" /\ Panic /\ UNCHANGED task
    /\ UNCHANGED <<SetupLeaves, index, on, bad>>

Consume(t) ==
    /\ task[t] = "consume"
    /\ TaskTo(t, IF Up(t) THEN "loop" ELSE "fail")
    /\ UNCHANGED <<SetupLeaves, index, on, bad, panicked>>

MsgLeaves == <<loopVars, lockVars, conn, index, on, bad, listener, countVars,
               brokerVars, panicked>>

(* The broker hands out one message at a time (Qos 1). *)
Deliver(t, m) ==
    /\ task[t] = "loop" /\ Up(t)
    /\ place[m] = "queue"
    /\ place' = [place EXCEPT ![m] = "unacked"]
    /\ held' = [held EXCEPT ![t] = m]
    /\ TaskTo(t, "ack")
    /\ UNCHANGED <<MsgLeaves, retryNums, handled, via, acked>>

(* Acknowledged before it is handled; an error is ignored. *)
Ack(t) ==
    /\ task[t] = "ack"
    /\ acked' = [acked EXCEPT ![t] = Up(t)]
    /\ place' = IF Up(t) THEN [place EXCEPT ![held[t]] = "taken"] ELSE place
    /\ TaskTo(t, "handle")
    /\ UNCHANGED <<MsgLeaves, retryNums, handled, via, held>>

(* EventSuccess returns true or false; after a false the message is given  *)
(* up (EventFail) or a goroutine publishes it to the dead-letter queue on  *)
(* this channel, which cannot work if Ack did not.                         *)
Handle(t) ==
    LET m == held[t] IN
    /\ task[t] = "handle"
    /\ handled' = [handled EXCEPT ![m] = TRUE]
    /\ \/ /\ place' = IF acked[t] THEN [place EXCEPT ![m] = "done"] ELSE place
          /\ UNCHANGED via
       \/ /\ place' = IF acked[t] THEN [place EXCEPT ![m] =
                           IF retryNums[m] + 1 >= MaxReTry THEN "failed" ELSE "resend"]
                                  ELSE place
          /\ via' = IF acked[t] THEN [via EXCEPT ![m] = t] ELSE via
    /\ held' = [held EXCEPT ![t] = null]
    /\ acked' = [acked EXCEPT ![t] = FALSE]
    /\ TaskTo(t, "loop")
    /\ UNCHANGED <<MsgLeaves, retryNums>>

(* 200 ms later; the error of Publish is ignored. *)
Publish(m) ==
    /\ place[m] = "resend"
    /\ place' = [place EXCEPT ![m] = IF on[via[m]] # null /\ Up(via[m]) THEN "dead" ELSE "gone"]
    /\ retryNums' = [retryNums EXCEPT ![m] = @ + 1]
    /\ via' = [via EXCEPT ![m] = null]
    /\ UNCHANGED <<MsgLeaves, task, handled, held, acked>>

(* The message expires in the dead-letter queue. *)
Expire(m) ==
    /\ place[m] = "dead"
    /\ place' = [place EXCEPT ![m] = IF Routed THEN "queue" ELSE "gone"]
    /\ UNCHANGED <<MsgLeaves, task, retryNums, handled, via, held, acked>>

(* NotifyClose carries the error of the channel or of a lost connection,   *)
(* and nil when another task has closed the connection they share.         *)
Notify(t) ==
    /\ task[t] = "loop"
    /\ ~Up(t)
    /\ \/ /\ bad[t] \/ conn[on[t]] = "lost"
          /\ TaskTo(t, "report")
          /\ UNCHANGED panicked
       \/ ~bad[t] /\ conn[on[t]] = "closed" /\ Panic /\ UNCHANGED task
    /\ UNCHANGED <<SetupLeaves, index, on, bad>>

-----------------------------------------------------------------------------
(* setConnectError, by a task or by a listener: statusLock is held while   *)
(* the error is sent, and nobody waits for the lock in between.            *)
ReportLeaves == <<conn, epoch, pool, gen, index, on, bad, countVars, msgVars,
                  brokerVars, panicked>>

TaskReport(t) ==
    /\ task[t] = "report"
    /\ lock = null
    /\ lock' = IF status THEN null ELSE t
    /\ TaskTo(t, IF status THEN "close" ELSE "send")
    /\ UNCHANGED <<ReportLeaves, loop, status, listener>>

(* Mutant: returns with the lock held. *)
TaskSend_KeepsLock(t) ==
    /\ task[t] = "send"
    /\ loop = "wait"
    /\ loop' = "lock"
    /\ status' = TRUE
    /\ TaskTo(t, "close")
    /\ UNCHANGED <<ReportLeaves, lock, listener>>

(* rConsume receives; status = true, and the lock is released. *)
TaskSend(t) ==
    /\ task[t] = "send"
    /\ loop = "wait"
    /\ loop' = "lock"
    /\ status' = TRUE
    /\ lock' = null
    /\ TaskTo(t, "close")
    /\ UNCHANGED <<ReportLeaves, listener>>

(* The deferred calls close the channel and the whole connection, with an  *)
(* error ("fail") or without: what others had not acknowledged goes back.  *)
Close(t) ==
    /\ task[t] \in {"close", "fail"}
    /\ conn' = [conn EXCEPT ![on[t]] = IF @ = "up" THEN "closed" ELSE @]
    /\ place' = [m \in Msgs |->
                   IF place[m] = "unacked" /\ \E u \in Tasks : held[u] = m /\ on[u] = on[t]
                     THEN "queue" ELSE place[m]]
    /\ TaskTo(t, IF task[t] = "close" THEN "done" ELSE "count")
    /\ on' = [on EXCEPT ![t] = null]
    /\ bad' = [bad EXCEPT ![t] = FALSE]
    /\ UNCHANGED <<loopVars, lockVars, index, listener, countVars, retryNums,
                   handled, via, held, acked, brokerVars, panicked>>

(* failCount++ is not synchronised. *)
CountLoad(t) ==
    /\ task[t] = "count"
    /\ loaded' = [loaded EXCEPT ![t] = failCount[t[1]]]
    /\ TaskTo(t, "store")
    /\ UNCHANGED <<loopVars, lockVars, conn, index, on, bad, listener, failCount,
                   lostCount, msgVars, brokerVars, panicked>>

CountStore(t) ==
    /\ task[t] = "store"
    /\ failCount' = [failCount EXCEPT ![t[1]] = loaded[t] + 1]
    /\ lostCount' = (lostCount \/ failCount[t[1]] # loaded[t])
    /\ loaded' = [loaded EXCEPT ![t] = 0]
    /\ TaskTo(t, "done")
    /\ UNCHANGED <<loopVars, lockVars, conn, index, on, bad, listener, msgVars,
                   brokerVars, panicked>>

TaskStep(t) ==
    \/ GetConnection(t) \/ CreateChannel(t) \/ Declare(t) \/ DeclareDead(t) \/ Consume(t)
    \/ Ack(t) \/ Handle(t) \/ Notify(t) \/ TaskReport(t) \/ TaskSend(t)
    \/ Close(t) \/ CountLoad(t) \/ CountStore(t)

-----------------------------------------------------------------------------
(* rListenerConsume.                                                       *)
ListenerTo(g, l) == listener' = [listener EXCEPT ![g] = l]

AllDone(g) == \A i \in Nums : task[<<g, i>>] = "done"

(* Mutant: more failures than there are channels. *)
WaitTasks_More(g) ==
    /\ listener[g] = "wait"
    /\ AllDone(g)
    /\ ListenerTo(g, IF failCount[g] > Channels THEN "report" ELSE "done")
    /\ UNCHANGED <<ReportLeaves, loop, lockVars, task>>

WaitTasks(g) ==
    /\ listener[g] = "wait"
    /\ AllDone(g)
    /\ ListenerTo(g, IF failCount[g] >= Channels THEN "report" ELSE "done")
    /\ UNCHANGED <<ReportLeaves, loop, lockVars, task>>

ListenerReport(g) ==
    /\ listener[g] = "report"
    /\ lock = null
    /\ lock' = IF status THEN null ELSE g
    /\ ListenerTo(g, IF status THEN "done" ELSE "send")
    /\ UNCHANGED <<ReportLeaves, loop, status, task>>

ListenerSend(g) ==
    /\ listener[g] = "send"
    /\ loop = "wait"
    /\ loop' = "lock"
    /\ status' = TRUE
    /\ lock' = null
    /\ ListenerTo(g, "done")
    /\ UNCHANGED <<ReportLeaves, task>>

ListenerStep(g) == WaitTasks(g) \/ ListenerReport(g) \/ ListenerSend(g)

-----------------------------------------------------------------------------
(* The broker.                                                             *)
FaultLeaves == <<loopVars, lockVars, index, task, on, listener, countVars,
                 retryNums, handled, via, held, acked, panicked>>

Lose(C) ==
    /\ faults < MaxFaults
    /\ faults' = faults + 1
    /\ conn' = [c \in Conns |-> IF c \in C /\ conn[c] = "up" THEN "lost" ELSE conn[c]]
    /\ place' = [m \in Msgs |->
                   IF place[m] = "unacked" /\ \E u \in Tasks : held[u] = m /\ on[u] \in C
                     THEN "queue" ELSE place[m]]
    /\ UNCHANGED <<FaultLeaves, bad>>

LoseConnection(c) == conn[c] = "up" /\ Lose({c}) /\ UNCHANGED reach

BrokerDown == reach /\ Lose(Conns) /\ reach' = FALSE

BrokerUp ==
    /\ ~reach
    /\ reach' = TRUE
    /\ UNCHANGED <<FaultLeaves, conn, bad, place, faults>>

(* An exception closes the channel only; its message goes back. *)
ChannelError(t) ==
    /\ faults < MaxFaults
    /\ task[t] \in {"declare", "dead", "consume", "loop", "ack", "handle"} /\ Up(t)
    /\ faults' = faults + 1
    /\ bad' = [bad EXCEPT ![t] = TRUE]
    /\ place' = [m \in Msgs |-> IF place[m] = "unacked" /\ held[t] = m THEN "queue"
                                                                       ELSE place[m]]
    /\ UNCHANGED <<FaultLeaves, conn, reach>>

DeliverSome(m) == ~panicked /\ \E t \in Tasks : Deliver(t, m)

NextConsumer ==
    /\ ~panicked
    /\ \/ LoopStep
       \/ \E t \in Tasks : TaskStep(t) \/ ChannelError(t)
       \/ \E g \in Listeners : ListenerStep(g)
       \/ \E m \in Msgs : DeliverSome(m) \/ Publish(m) \/ Expire(m)
       \/ \E c \in Conns : LoseConnection(c)
       \/ BrokerDown \/ BrokerUp

SpecConsumer == InitConsumer /\ [][NextConsumer]_consumerVars

(* The goroutines run; the broker comes back and delivers what it has. *)
Fairness ==
    /\ WF_consumerVars(~panicked /\ LoopStep)
    /\ \A t \in Tasks : WF_consumerVars(~panicked /\ TaskStep(t))
    /\ \A g \in Listeners : WF_consumerVars(~panicked /\ ListenerStep(g))
    /\ \A m \in Msgs : WF_consumerVars(DeliverSome(m))
    /\ WF_consumerVars(~panicked /\ BrokerUp)

FairSpec == SpecConsumer /\ Fairness

-----------------------------------------------------------------------------
(* While RunConsume starts consumers or waits for an error, status is      *)
(* false: otherwise setConnectError would drop every later error, and a    *)
(* consumer that fails would never be replaced.  And whoever holds         *)
(* statusLock to send an error will be heard: RunConsume, which needs the  *)
(* lock to reconnect, is on its way to the receive.                        *)
ErrorsAreHeard ==
    /\ loop \in {"start", "wait"} => ~status
    /\ lock # null => loop \in {"start", "wait"}

(* An error a consumer reports leads to a new generation of consumers: it  *)
(* is not dropped as a duplicate, and neither statusLock nor the           *)
(* unbuffered errorChanel blocks the reconnection.                         *)
ErrorReconnects ==
    (\E t \in Tasks : t[1] = gen /\ task[t] = "report") ~> (loop = "start" \/ panicked)

(* A message in the queue is eventually handled, whatever connections are  *)
(* lost before, unless the process panics or an increment of failCount     *)
(* is lost.                                                                *)
EventuallyHandled ==
    \A m \in Msgs : place[m] = "queue" ~> (handled[m] \/ panicked \/ lostCount)
=============================================================================
