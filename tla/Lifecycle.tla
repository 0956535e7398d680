----------------------------- MODULE Lifecycle -----------------------------
(***************************************************************************)
(* How the server runs and stops: the tasks of StartIpv4 / StartIpv6 under *)
(* utils/taskConsumerManager, the accept loops of server/tcp_server.go,    *)
(* the connections they serve, the send queues of rabbitmq_product.go that *)
(* take the access logs, and manager.Stop.                                 *)
(*                                                                         *)
(* A task runs in at most Count[t] slots (tokens of tChan) at a time.  The *)
(* queues are the abstract ones of ClosableFifo, which MQueue implements.  *)
(* A client connection is served once, and its handler reports at most one *)
(* log, at any time before it returns.                                     *)
(***************************************************************************)
EXTENDS Naturals, Sequences

CONSTANTS Listeners,         \* tcpListener
          Tasks,             \* what Start adds, see AllTasks
          Count,             \* AcceptAmount
          Conns,             \* client connections
          Shares,            \* RabbitmqSendQueueSlicesShareSize
          Handlers,          \* RabbitmqSendQueueSlicesHandlerCount, per share
          nothing

SS == "shadowSocks"
AllTasks == {"tcpAccept", SS, "nacos", "rabbitmq"}

ASSUME LifecycleAssumption ==
    /\ Tasks \subseteq AllTasks
    /\ Count \in Nat \ {0}
    /\ Shares \in Nat \ {0}
    /\ Handlers # {}
    /\ SS \notin Listeners
    /\ {nothing, "ended"} \cap Conns = {}
    /\ nothing # "ended"

SlotsOf(t) == {t} \X (1 .. IF t = "tcpAccept" THEN Count ELSE 1)
Slots == UNION {SlotsOf(t) : t \in Tasks}
ListenersOf(w) ==
    CASE w[1] = "tcpAccept" -> Listeners
      [] w[1] = SS -> {SS}
      [] OTHER -> {}
Loops == UNION {{w} \X ListenersOf(w) : w \in Slots}
QueueHandlers == (0 .. Shares - 1) \X Handlers

VARIABLES
    isRun, listening, done,   \* isRun, the open listeners, the tasks' context
    stop,                     \* where Stop is
    sup, slot,                \* per task: its supervisor; per slot: its worker
    loop,                     \* per slot and listener: an accept loop
    conn, by,                 \* per connection: stage, the loop that serves it
    counter, queue, open,     \* the send queues
    hand,                     \* per queue handler: the log it sends
    reported, sent, dropped   \* history: logs handed to the queues; those Push
                              \* delivered; those it returned an error for

taskVars == <<sup, slot>>
connVars == <<conn, by>>
queueVars == <<counter, queue, open, hand, reported, sent, dropped>>
flags == <<isRun, listening, done>>
serverVars == <<flags, stop, taskVars, loop, connVars, queueVars>>

InitServer ==
    /\ isRun = TRUE
    /\ listening = Listeners \cup (Tasks \cap {SS})
    /\ done = FALSE
    /\ stop = "running"
    /\ sup = [t \in Tasks |-> "loop"]
    /\ slot = [w \in Slots |-> "free"]
    /\ loop = [l \in Loops |-> "off"]
    /\ conn = [c \in Conns |-> "none"]
    /\ by = [c \in Conns |-> nothing]
    /\ counter = 0
    /\ queue = [s \in 0 .. Shares - 1 |-> <<>>]
    /\ open = [s \in 0 .. Shares - 1 |-> TRUE]
    /\ hand = [h \in QueueHandlers |-> nothing]
    /\ reported = {}
    /\ sent = {}
    /\ dropped = {}

-----------------------------------------------------------------------------
(* The goroutine of AddTask: wait for the context or for a free slot, ...  *)
Select(t) ==
    /\ sup[t] = "loop"
    /\ \/ /\ done
          /\ sup' = [sup EXCEPT ![t] = "wait"]
          /\ UNCHANGED slot
       \/ \E w \in SlotsOf(t) :
             /\ slot[w] = "free"
             /\ slot' = [slot EXCEPT ![w] = "taken"]
             /\ sup' = [sup EXCEPT ![t] = "check"]
    /\ UNCHANGED <<flags, stop, loop, connVars, queueVars>>

(* ... look at the context again, and start the function in the slot.      *)
StartTask(t) ==
    /\ sup[t] = "check"
    /\ \/ /\ done
          /\ sup' = [sup EXCEPT ![t] = "wait"]
          /\ UNCHANGED <<slot, loop>>
       \/ /\ ~done
          /\ sup' = [sup EXCEPT ![t] = "loop"]
          /\ \E w \in SlotsOf(t) :
                /\ slot[w] = "taken"
                /\ slot' = [slot EXCEPT ![w] = "run"]
                /\ loop' = [l \in Loops |->
                              IF l[1] = w THEN "test" ELSE loop[l]]
    /\ UNCHANGED <<flags, stop, connVars, queueVars>>

(* Mutant: the supervisor does not wait for its workers. *)
EndTask_NoWait(t) ==
    /\ sup[t] = "wait"
    /\ sup' = [sup EXCEPT ![t] = "ended"]
    /\ UNCHANGED <<flags, stop, slot, loop, connVars, queueVars>>

(* wg.Wait(), close(tChan), m.wg.Done() *)
EndTask(t) ==
    /\ sup[t] = "wait"
    /\ \A w \in SlotsOf(t) : slot[w] # "run"
    /\ sup' = [sup EXCEPT ![t] = "ended"]
    /\ UNCHANGED <<flags, stop, slot, loop, connVars, queueVars>>

(* The task's function returns and with it wg.Done().  runNacosConfServer  *)
(* returns when the context is done; tcpAccept when all its loops have     *)
(* ended and five more seconds, or the context, are over;                  *)
(* shadowSocksListenerAccept is its loop.  runRabbitmqConsume blocks in    *)
(* RunConsume, which does not get the context and reconnects for ever.     *)
Returns(w) ==
    /\ w[1] # "rabbitmq"
    /\ \A l \in Loops : l[1] = w => loop[l] = "off"
    /\ done \/ ListenersOf(w) # {}

ReturnTask(w) ==
    /\ slot[w] = "run"
    /\ Returns(w)
    /\ slot' = [slot EXCEPT ![w] = "left"]
    /\ UNCHANGED <<flags, stop, sup, loop, connVars, queueVars>>

(* <-tChan *)
FreeSlot(w) ==
    /\ slot[w] = "left"
    /\ slot' = [slot EXCEPT ![w] = "free"]
    /\ UNCHANGED <<flags, stop, sup, loop, connVars, queueVars>>

-----------------------------------------------------------------------------
(* tcpListenerAccept and shadowSocksListenerAccept: for m.isRun.Load() ... *)
TestRun(l) ==
    /\ loop[l] = "test"
    /\ loop' = [loop EXCEPT ![l] = IF isRun THEN "accept" ELSE "wait"]
    /\ UNCHANGED <<flags, stop, taskVars, connVars, queueVars>>

AcceptConn(l, c) ==
    /\ loop[l] = "accept"
    /\ l[2] \in listening
    /\ conn[c] = "none"
    /\ conn' = [conn EXCEPT ![c] = "served"]
    /\ by' = [by EXCEPT ![c] = l]
    /\ loop' = [loop EXCEPT ![l] = "test"]
    /\ UNCHANGED <<flags, stop, taskVars, queueVars>>

AcceptError(l) ==
    /\ loop[l] = "accept"
    /\ loop' = [loop EXCEPT ![l] = "test"]
    /\ UNCHANGED <<flags, stop, taskVars, connVars, queueVars>>

(* defer wg.Wait() *)
EndLoop(l) ==
    /\ loop[l] = "wait"
    /\ \A c \in Conns : conn[c] = "served" => by[c] # l
    /\ loop' = [loop EXCEPT ![l] = "off"]
    /\ UNCHANGED <<flags, stop, taskVars, connVars, queueVars>>

(* The handler reports: an access log after its tunnel, or a hit on the    *)
(* blacklist.  pushRabbitmqSendQueue picks a share; it ignores the error   *)
(* of Enqueue on a closed queue, which loses the log.                      *)
Report(c) ==
    LET s == (counter + 1) % Shares IN
    /\ conn[c] = "served"
    /\ c \notin reported
    /\ counter' = s
    /\ queue' = IF open[s] THEN [queue EXCEPT ![s] = Append(@, c)] ELSE queue
    /\ reported' = reported \cup {c}
    /\ UNCHANGED <<flags, stop, taskVars, loop, connVars, open, hand, sent,
                   dropped>>

(* The handler returns, and the goroutine that waits for it (for range     *)
(* done) ends too.                                                         *)
EndConn(c) ==
    /\ conn[c] = "served"
    /\ conn' = [conn EXCEPT ![c] = "closed"]
    /\ UNCHANGED <<flags, stop, taskVars, loop, by, queueVars>>

-----------------------------------------------------------------------------
(* A handler of a send queue: DequeueFunc hands it a log ... *)
TakeLog(h) ==
    LET s == h[1] IN
    /\ hand[h] = nothing
    /\ queue[s] # <<>>
    /\ hand' = [hand EXCEPT ![h] = Head(queue[s])]
    /\ queue' = [queue EXCEPT ![s] = Tail(@)]
    /\ UNCHANGED <<flags, stop, taskVars, loop, connVars, counter, open,
                   reported, sent, dropped>>

(* ... which it passes to Push of the RabbitMQ pool, once.  Push returns   *)
(* an error when it finds no channel or has no retry left; the handler     *)
(* only writes the error to its own log, and the access log is gone.       *)
SendLog(h) ==
    /\ hand[h] \in Conns
    /\ \/ /\ sent' = sent \cup {hand[h]}
          /\ UNCHANGED dropped
       \/ /\ dropped' = dropped \cup {hand[h]}
          /\ UNCHANGED sent
    /\ hand' = [hand EXCEPT ![h] = nothing]
    /\ UNCHANGED <<flags, stop, taskVars, loop, connVars, counter, queue, open,
                   reported>>

(* Mutant: the handler ends as soon as the queue is closed. *)
EndHandler_NotDrained(h) ==
    /\ hand[h] = nothing
    /\ ~open[h[1]]
    /\ hand' = [hand EXCEPT ![h] = "ended"]
    /\ UNCHANGED <<flags, stop, taskVars, loop, connVars, counter, queue, open,
                   reported, sent, dropped>>

(* DequeueFunc returns: the queue is closed and empty. *)
EndHandler(h) ==
    LET s == h[1] IN
    /\ hand[h] = nothing
    /\ queue[s] = <<>>
    /\ ~open[s]
    /\ hand' = [hand EXCEPT ![h] = "ended"]
    /\ UNCHANGED <<flags, stop, taskVars, loop, connVars, counter, queue, open,
                   reported, sent, dropped>>

-----------------------------------------------------------------------------
(* Mutant: Stop leaves isRun alone. *)
StopRunning_NoFlag ==
    /\ stop = "running"
    /\ stop' = "listeners"
    /\ UNCHANGED <<flags, taskVars, loop, connVars, queueVars>>

(* Stop, step by step. *)
StopRunning ==
    /\ stop = "running"
    /\ isRun' = FALSE
    /\ stop' = "listeners"
    /\ UNCHANGED <<listening, done, taskVars, loop, connVars, queueVars>>

CloseListener(l) ==
    /\ stop = "listeners"
    /\ l \in listening \cap Listeners
    /\ listening' = listening \ {l}
    /\ UNCHANGED <<isRun, done, stop, taskVars, loop, connVars, queueVars>>

CancelTasks ==
    /\ stop = "listeners"
    /\ listening \cap Listeners = {}
    /\ done' = TRUE
    /\ stop' = "tasks"
    /\ UNCHANGED <<isRun, listening, taskVars, loop, connVars, queueVars>>

WaitTasks ==
    /\ stop = "tasks"
    /\ \A t \in Tasks : sup[t] = "ended"
    /\ stop' = "queues"
    /\ UNCHANGED <<flags, taskVars, loop, connVars, queueVars>>

CloseQueue(s) ==
    /\ stop = "queues"
    /\ open[s]
    /\ \A r \in 0 .. s - 1 : ~open[r]
    /\ open' = [open EXCEPT ![s] = FALSE]
    /\ UNCHANGED <<flags, stop, taskVars, loop, connVars, counter, queue, hand,
                   reported, sent, dropped>>

WaitQueues ==
    /\ stop = "queues"
    /\ \A h \in QueueHandlers : hand[h] = "ended"
    /\ stop' = "stopped"
    /\ UNCHANGED <<flags, taskVars, loop, connVars, queueVars>>

StopStep ==
    \/ \E l \in Listeners : CloseListener(l)
    \/ CancelTasks \/ WaitTasks \/ WaitQueues
    \/ \E s \in 0 .. Shares - 1 : CloseQueue(s)

TaskStep(t) == Select(t) \/ StartTask(t) \/ EndTask(t)
SlotStep(w) == ReturnTask(w) \/ FreeSlot(w)
LoopStep(l) == TestRun(l) \/ AcceptError(l) \/ EndLoop(l)
HandlerStep(h) == TakeLog(h) \/ SendLog(h) \/ EndHandler(h)

NextServer ==
    \/ \E t \in Tasks : TaskStep(t)
    \/ \E w \in Slots : SlotStep(w)
    \/ \E l \in Loops : LoopStep(l) \/ \E c \in Conns : AcceptConn(l, c)
    \/ \E c \in Conns : Report(c) \/ EndConn(c)
    \/ \E h \in QueueHandlers : HandlerStep(h)
    \/ StopRunning \/ StopStep

SpecServer == InitServer /\ [][NextServer]_serverVars

(* Goroutines keep running.  Accept is only sure to return on a closed     *)
(* listener, and a handler only once the context is done, which closes its *)
(* socket; nobody has to connect, and nobody has to stop the server.       *)
FairServer ==
    /\ SpecServer
    /\ \A t \in Tasks : WF_serverVars(TaskStep(t))
    /\ \A w \in Slots : WF_serverVars(SlotStep(w))
    /\ \A l \in Loops : /\ WF_serverVars(TestRun(l))
                        /\ WF_serverVars(l[2] \notin listening /\ AcceptError(l))
                        /\ WF_serverVars(EndLoop(l))
    /\ \A c \in Conns : WF_serverVars(done /\ EndConn(c))
    /\ \A h \in QueueHandlers : WF_serverVars(HandlerStep(h))
    /\ WF_serverVars(StopStep)
-----------------------------------------------------------------------------
(* The types of the supervisors, loops and queues. *)
ServerTypeOK ==
    /\ isRun \in BOOLEAN
    /\ listening \in SUBSET (Listeners \cup {SS})
    /\ done \in BOOLEAN
    /\ stop \in {"running", "listeners", "tasks", "queues", "stopped"}
    /\ sup \in [Tasks -> {"loop", "check", "wait", "ended"}]
    /\ slot \in [Slots -> {"free", "taken", "run", "left"}]
    /\ loop \in [Loops -> {"off", "test", "accept", "wait"}]
    /\ conn \in [Conns -> {"none", "served", "closed"}]
    /\ by \in [Conns -> Loops \cup {nothing}]
    /\ counter \in 0 .. Shares - 1
    /\ queue \in [0 .. Shares - 1 -> Seq(Conns)]
    /\ open \in [0 .. Shares - 1 -> BOOLEAN]
    /\ hand \in [QueueHandlers -> Conns \cup {nothing, "ended"}]
    /\ reported \in SUBSET Conns
    /\ sent \in SUBSET Conns
    /\ dropped \in SUBSET Conns

(* tcm.Stop() waits for everything: when the queues are being closed no    *)
(* task, accept loop or connection is left that could still report, and    *)
(* none can be started any more.                                           *)
QuietBeforeClose ==
    stop \in {"queues", "stopped"} =>
       /\ \A w \in Slots : slot[w] # "run"
       /\ \A l \in Loops : loop[l] = "off"
       /\ \A c \in Conns : conn[c] # "served"

(* Where the log of c is: in a queue, with a handler, or through Push. *)
Queued(c) == \E s \in 0 .. Shares - 1 : \E i \in 1 .. Len(queue[s]) : queue[s][i] = c
Sending(c) == \E h \in QueueHandlers : hand[h] = c
Pushed == sent \cup dropped

(* The queues hand every access log to Push exactly once, also during      *)
(* Stop: a reported log is in one of the three places and never in two of  *)
(* them, and all are through when Stop returns.  So the one way to lose a  *)
(* log is a Push that fails (rabbitmq_product.go 68-72), and no log is     *)
(* delivered by one handler and dropped by another.                        *)
LogsPushedOnce ==
    /\ \A c \in reported : c \in Pushed \/ Sending(c) \/ Queued(c)
    /\ \A c \in Pushed : ~Sending(c) /\ ~Queued(c)
    /\ \A c \in Conns : ~(Sending(c) /\ Queued(c))
    /\ sent \cap dropped = {}
    /\ stop = "stopped" => reported = Pushed

(* Stop ends the serving of clients ("stops the task manager, which        *)
(* triggers the graceful end of all tasks", manager.go 114): every task    *)
(* that looks at the context or at isRun gets to its end, together with    *)
(* its accept loops and the connections they accepted.  The consumer task  *)
(* does neither, and Stop leaves the listener of the shadowSocks task      *)
(* open.                                                                   *)
StopEndsServing ==
    (stop # "running") ~>
       /\ \A t \in Tasks \ {"rabbitmq", SS} : sup[t] = "ended"
       /\ \A c \in Conns : conn[c] = "served" => by[c][1][1] = SS

(* Stop returns (the same comment, manager.go 114; main.go runs it as the  *)
(* clean-up of the process).                                               *)
StopReturns == (stop # "running") ~> (stop = "stopped")
=============================================================================
