---------------------------- MODULE ConnRegistry ----------------------------
(***************************************************************************)
(* The two shared maps of server/manager.go and everybody who touches      *)
(* them: the HTTP, SOCKS5 and Shadowsocks handlers (one process per client *)
(* connection), the consumers of disconnect and ban events, and the task   *)
(* that distributes a new Nacos configuration.                             *)
(*                                                                         *)
(* A map callback runs under the lock of the key's shard, so it is one     *)
(* step, except that the creation of a connContext reads the configuration *)
(* in the middle of its callback: the step is split there and the shard    *)
(* stays locked in between (lock).  Distinct keys have distinct shards,    *)
(* the case with the most interleavings.  Memory addresses of connContexts *)
(* are reused as soon as nobody points to them.                            *)
(***************************************************************************)
EXTENDS Naturals, FiniteSets

CONSTANTS Conns,     \* client connections (handler goroutines)
          Users, Ips,
          OpenShadowSocks,   \* config.OpenShadowSocks
          Ctxs,      \* the addresses a connContext can have
          Closers,   \* goroutines that handle auth events
          Confs,     \* Nacos configurations: OneIpMaxConn and LimitedReader
          nil

SS == "shadowSocks"

(* HTTP and SOCKS5 register under the user name, Shadowsocks under         *)
(* "shadowSocks:ip"; a disconnect event with ips closes keys "user:ip".    *)
Key(u) == <<u>>
IpKey(u, i) == <<u, i>>
Keys == {Key(u) : u \in Users} \cup {IpKey(u, i) : u \in Users \cup {SS}, i \in Ips}
Sessions == {[key |-> Key(u), ip |-> i] : u \in Users, i \in Ips}
            \cup {[key |-> IpKey(SS, i), ip |-> i] :
                     i \in IF OpenShadowSocks THEN Ips ELSE {}}

ASSUME RegistryAssumption ==
    /\ nil \notin Conns \cup Ctxs \cup Confs \cup Sessions
    /\ SS \notin Users
    /\ OpenShadowSocks \in BOOLEAN
    /\ IsFiniteSet(Conns)
    /\ \A cf \in Confs : cf.OneIpMaxConn \in Nat

VARIABLES
    pc, sess, held,             \* per connection: stage, session, connCtx
    draft,                      \* per connection: configuration read by the callback
    lock,                       \* per key: who is inside a split callback
    ipCount,                    \* ipConnCountMap; 0 is "no entry"
    userCtxMap,                 \* key -> connContext or nil
    refs, cancelled, param,     \* connContext: c, ctx, a
    conf,                       \* nacosConfig
    uscan, utodo,               \* updateLimitedReaderAction: shards, actions left
    scan, todo, hand,           \* per closer: shards, keys left; popped connContext
    event, victims,             \* per closer, history: kind of event, whom it is about
    stopped                     \* tcm.Stop has cancelled the root context

connVars == <<pc, sess, held, draft>>
ctxVars == <<refs, cancelled, param>>
confVars == <<conf, uscan, utodo>>
closeVars == <<scan, todo, hand, event>>
vars == <<connVars, lock, ipCount, userCtxMap, ctxVars, confVars, closeVars,
          victims, stopped>>

Init ==
    /\ pc = [c \in Conns |-> "idle"]
    /\ sess = [c \in Conns |-> nil]
    /\ held = [c \in Conns |-> nil]
    /\ conf \in Confs
    /\ draft = [c \in Conns |-> nil]
    /\ lock = [k \in Keys |-> nil]
    /\ ipCount = [i \in Ips |-> 0]
    /\ userCtxMap = [k \in Keys |-> nil]
    /\ refs = [x \in Ctxs |-> 0]
    /\ cancelled = [x \in Ctxs |-> FALSE]
    /\ param = [x \in Ctxs |-> conf]
    /\ uscan = {}
    /\ utodo = {}
    /\ scan = [w \in Closers |-> {}]
    /\ todo = [w \in Closers |-> {}]
    /\ hand = [w \in Closers |-> nil]
    /\ event = [w \in Closers |-> "none"]
    /\ victims = [w \in Closers |-> {}]
    /\ stopped = FALSE

Goto(c, l) == pc' = [pc EXCEPT ![c] = l]
Free(k) == lock[k] = nil
Done(x) == stopped \/ cancelled[x]

-----------------------------------------------------------------------------
(* The life of one client connection: the three handlers take the same     *)
(* steps in the same order.                                                *)

(* Accept has returned the connection and the handler has read who the     *)
(* client is and which exit ip it gets.                                    *)
Accept(c) ==
    /\ pc[c] = "idle"
    /\ ~stopped
    /\ \E s \in Sessions : sess' = [sess EXCEPT ![c] = s]
    /\ Goto(c, "accepted")
    /\ UNCHANGED <<held, draft, lock, ipCount, userCtxMap, ctxVars, confVars,
                   closeVars, victims, stopped>>

Return(c) ==
    /\ Goto(c, "idle")
    /\ sess' = [sess EXCEPT ![c] = nil]

(* Mutant: the limit is off by one. *)
MayEnter_OffByOne(i) ==
    \/ ipCount[i] = 0
    \/ conf.OneIpMaxConn = 0
    \/ ipCount[i] <= conf.OneIpMaxConn

(* An exit ip nobody uses has no entry and takes the first connection; a   *)
(* limit of 0 is none.                                                     *)
MayEnter(i) ==
    \/ ipCount[i] = 0
    \/ conf.OneIpMaxConn = 0
    \/ ipCount[i] < conf.OneIpMaxConn

(* Authentication fails, the pair of ip and target is on the blacklist, or *)
(* AddIpConnCount refuses: the handler returns before it counted itself.   *)
Reject(c) ==
    /\ pc[c] = "accepted"
    /\ Return(c)
    /\ UNCHANGED <<held, draft, lock, ipCount, userCtxMap, ctxVars, confVars,
                   closeVars, victims, stopped>>

AddIpConnCount(c) ==
    /\ pc[c] = "accepted"
    /\ MayEnter(sess[c].ip)
    /\ ipCount' = [ipCount EXCEPT ![sess[c].ip] = @ + 1]
    /\ Goto(c, "admitted")
    /\ UNCHANGED <<sess, held, draft, lock, userCtxMap, ctxVars, confVars,
                   closeVars, victims, stopped>>

(* Mutant: a return that skips the deferred ReduceIpConnCount. *)
Fail_NoRelease(c) ==
    /\ pc[c] = "admitted"
    /\ Return(c)
    /\ UNCHANGED <<held, draft, lock, ipCount, userCtxMap, ctxVars, confVars,
                   closeVars, victims, stopped>>

(* The reply, the destination address, the domain blacklist or the dial    *)
(* fails: only the deferred ReduceIpConnCount is left to run.              *)
Fail(c) ==
    /\ pc[c] = "admitted"
    /\ Goto(c, "release")
    /\ UNCHANGED <<sess, held, draft, lock, ipCount, userCtxMap, ctxVars,
                   confVars, closeVars, victims, stopped>>

(* Mutant: an existing connContext is returned without c++. *)
Join_NotCounted(c) ==
    /\ pc[c] = "admitted"
    /\ Free(sess[c].key)
    /\ userCtxMap[sess[c].key] # nil
    /\ held' = [held EXCEPT ![c] = userCtxMap[sess[c].key]]
    /\ Goto(c, "relay")
    /\ UNCHANGED <<sess, draft, lock, ipCount, userCtxMap, ctxVars, confVars,
                   closeVars, victims, stopped>>

(* addUserConnection finds an entry: c++. *)
Join(c) ==
    LET k == sess[c].key
        x == userCtxMap[k] IN
    /\ pc[c] = "admitted"
    /\ Free(k)
    /\ x # nil
    /\ refs' = [refs EXCEPT ![x] = @ + 1]
    /\ held' = [held EXCEPT ![c] = x]
    /\ Goto(c, "relay")
    /\ UNCHANGED <<sess, draft, lock, ipCount, userCtxMap, cancelled, param,
                   confVars, closeVars, victims, stopped>>

(* Mutant: the connContext is prepared before the shard is locked. *)
ReadConf_Unlocked(c) ==
    /\ pc[c] = "admitted"
    /\ userCtxMap[sess[c].key] = nil
    /\ draft' = [draft EXCEPT ![c] = conf]
    /\ Goto(c, "inserting")
    /\ UNCHANGED <<sess, held, lock, ipCount, userCtxMap, ctxVars, confVars,
                   closeVars, victims, stopped>>

(* addUserConnection finds none: it reads the configuration, ...           *)
ReadConf(c) ==
    LET k == sess[c].key IN
    /\ pc[c] = "admitted"
    /\ Free(k)
    /\ userCtxMap[k] = nil
    /\ lock' = [lock EXCEPT ![k] = c]
    /\ draft' = [draft EXCEPT ![c] = conf]
    /\ Goto(c, "inserting")
    /\ UNCHANGED <<sess, held, ipCount, userCtxMap, ctxVars, confVars,
                   closeVars, victims, stopped>>

Referenced ==
    {held[c] : c \in Conns} \cup {userCtxMap[k] : k \in Keys}
    \cup {hand[w] : w \in Closers} \cup utodo

(* ... and enters a new connContext with it. *)
Insert(c) ==
    LET k == sess[c].key IN
    /\ pc[c] = "inserting"
    /\ Ctxs \ Referenced # {}
    /\ LET x == CHOOSE y \in Ctxs : y \notin Referenced IN
          /\ userCtxMap' = [userCtxMap EXCEPT ![k] = x]
          /\ refs' = [refs EXCEPT ![x] = 1]
          /\ cancelled' = [cancelled EXCEPT ![x] = FALSE]
          /\ param' = [param EXCEPT ![x] = draft[c]]
          /\ held' = [held EXCEPT ![c] = x]
    /\ lock' = [lock EXCEPT ![k] = nil]
    /\ draft' = [draft EXCEPT ![c] = nil]
    /\ Goto(c, "relay")
    /\ UNCHANGED <<sess, ipCount, confVars, closeVars, victims, stopped>>

(* The relay loop ends, because a copy ended, the sniffed domain is on the *)
(* blacklist or a context is done, and the tunnel is torn down.            *)
Leave(c) ==
    /\ pc[c] = "relay"
    /\ Goto(c, "leaving")
    /\ victims' = [w \in Closers |-> victims[w] \ {c}]
    /\ UNCHANGED <<sess, held, draft, lock, ipCount, userCtxMap, ctxVars,
                   confVars, closeVars, stopped>>

(* Mutant: the entry is not compared with the connection's connContext. *)
deleteUserConnection_AnyCtx(c) ==
    LET k == sess[c].key
        x == userCtxMap[k] IN
    /\ pc[c] = "leaving"
    /\ Free(k)
    /\ \/ /\ x = nil
          /\ UNCHANGED <<userCtxMap, refs, cancelled>>
       \/ /\ x # nil
          /\ refs' = [refs EXCEPT ![x] = @ - 1]
          /\ cancelled' = [cancelled EXCEPT ![x] = @ \/ refs[x] = 1]
          /\ userCtxMap' = [userCtxMap EXCEPT ![k] = IF refs[x] = 1 THEN nil ELSE @]
    /\ held' = [held EXCEPT ![c] = nil]
    /\ Goto(c, "release")
    /\ UNCHANGED <<sess, draft, lock, ipCount, param, confVars, closeVars,
                   victims, stopped>>

(* deleteUserConnection: nothing if the entry is gone or is another        *)
(* connContext; else c--, and the last one cancels and removes it.         *)
deleteUserConnection(c) ==
    LET k == sess[c].key
        x == held[c] IN
    /\ pc[c] = "leaving"
    /\ Free(k)
    /\ \/ /\ userCtxMap[k] # x
          /\ UNCHANGED <<userCtxMap, refs, cancelled>>
       \/ /\ userCtxMap[k] = x
          /\ refs' = [refs EXCEPT ![x] = @ - 1]
          /\ \/ /\ refs[x] = 1
                /\ cancelled' = [cancelled EXCEPT ![x] = TRUE]
                /\ userCtxMap' = [userCtxMap EXCEPT ![k] = nil]
             \/ /\ refs[x] # 1
                /\ UNCHANGED <<cancelled, userCtxMap>>
    /\ held' = [held EXCEPT ![c] = nil]
    /\ Goto(c, "release")
    /\ UNCHANGED <<sess, draft, lock, ipCount, param, confVars, closeVars,
                   victims, stopped>>

ReduceIpConnCount(c) ==
    /\ pc[c] = "release"
    /\ ipCount' = [ipCount EXCEPT ![sess[c].ip] = @ - 1]
    /\ Return(c)
    /\ UNCHANGED <<held, draft, lock, userCtxMap, ctxVars, confVars, closeVars,
                   victims, stopped>>

(* The steps a connection takes whether or not anybody sends anything: the *)
(* dial has a timeout, a done context ends the relay loop, and on Stop the *)
(* accept loop closes the client socket, which ends a pending read.        *)
ConnProgress(c) ==
    \/ stopped /\ (Reject(c) \/ AddIpConnCount(c))
    \/ Fail(c) \/ Join(c) \/ ReadConf(c) \/ Insert(c)
    \/ Leave(c) /\ Done(held[c])
    \/ deleteUserConnection(c) \/ ReduceIpConnCount(c)

ConnStep(c) ==
    \/ Accept(c) \/ Reject(c) \/ AddIpConnCount(c) \/ Fail(c)
    \/ Join(c) \/ ReadConf(c) \/ Insert(c) \/ Leave(c)
    \/ deleteUserConnection(c) \/ ReduceIpConnCount(c)

-----------------------------------------------------------------------------
(* The consumers of auth events.  Several run at the same time.            *)
Idle(w) == scan[w] = {} /\ todo[w] = {} /\ hand[w] = nil

Begin(w, kind, shards, keys, about) ==
    /\ Idle(w)
    /\ scan' = [scan EXCEPT ![w] = shards]
    /\ todo' = [todo EXCEPT ![w] = keys]
    /\ event' = [event EXCEPT ![w] = kind]
    /\ victims' = [victims EXCEPT ![w] = about]
    /\ UNCHANGED <<connVars, lock, ipCount, userCtxMap, ctxVars, confVars,
                   hand, stopped>>

Relaying == {c \in Conns : pc[c] = "relay"}

(* A disconnect event without ips walks over the map and pops every key    *)
(* whose part before ":" is the user name.                                 *)
DisconnectUser(w, u) ==
    Begin(w, "user", {k \in Keys : k[1] = u}, {},
          {c \in Relaying : sess[c].key[1] = u})

(* A disconnect event with ips. *)
DisconnectIps(w, u, I) ==
    Begin(w, "ip", {}, {IpKey(u, i) : i \in I},
          {c \in Relaying : sess[c].key[1] = u /\ sess[c].ip \in I})

(* A ban event, or a batch of them. *)
Ban(w, U) ==
    Begin(w, "ban", {}, {Key(u) : u \in U},
          {c \in Relaying : sess[c].key \in {Key(u) : u \in U}})

(* Iter takes the snapshot of one shard. *)
Snapshot(w, k) ==
    /\ k \in scan[w]
    /\ Free(k)
    /\ scan' = [scan EXCEPT ![w] = @ \ {k}]
    /\ todo' = [todo EXCEPT ![w] = IF userCtxMap[k] = nil THEN @ ELSE @ \cup {k}]
    /\ UNCHANGED <<connVars, lock, ipCount, userCtxMap, ctxVars, confVars,
                   hand, event, victims, stopped>>

(* Mutant: the entry is removed and nobody cancels it. *)
Pop_NoCancel(w, k) ==
    /\ scan[w] = {}
    /\ k \in todo[w]
    /\ Free(k)
    /\ todo' = [todo EXCEPT ![w] = @ \ {k}]
    /\ userCtxMap' = [userCtxMap EXCEPT ![k] = nil]
    /\ UNCHANGED <<connVars, lock, ipCount, ctxVars, confVars, scan, hand, event,
                   victims, stopped>>

(* Pop(k): Iter has returned, the previous connContext is cancelled. *)
Pop(w, k) ==
    /\ scan[w] = {}
    /\ hand[w] = nil
    /\ k \in todo[w]
    /\ Free(k)
    /\ todo' = [todo EXCEPT ![w] = @ \ {k}]
    /\ hand' = [hand EXCEPT ![w] = userCtxMap[k]]
    /\ userCtxMap' = [userCtxMap EXCEPT ![k] = nil]
    /\ UNCHANGED <<connVars, lock, ipCount, ctxVars, confVars, scan, event,
                   victims, stopped>>

(* v.cancel() *)
Cancel(w) ==
    /\ hand[w] # nil
    /\ cancelled' = [cancelled EXCEPT ![hand[w]] = TRUE]
    /\ hand' = [hand EXCEPT ![w] = nil]
    /\ UNCHANGED <<connVars, lock, ipCount, userCtxMap, refs, param, confVars,
                   scan, todo, event, victims, stopped>>

CloserProgress(w) ==
    \/ \E k \in Keys : Snapshot(w, k) \/ Pop(w, k)
    \/ Cancel(w)

CloserStep(w) ==
    \/ \E u \in Users \cup {SS} :
          \/ DisconnectUser(w, u)
          \/ \E I \in SUBSET Ips \ {{}} : DisconnectIps(w, u, I)
    \/ \E U \in SUBSET Users \ {{}} : Ban(w, U)
    \/ CloserProgress(w)

-----------------------------------------------------------------------------
(* runNacosConfServer, the only writer of nacosConfig: setNacosConf, then  *)
(* updateLimitedReaderAction walks over the map.  Applying the             *)
(* configuration that is already in force, as the ticker does every        *)
(* minute, changes nothing here.                                           *)
SetConf(cf) ==
    /\ uscan = {}
    /\ utodo = {}
    /\ cf # conf
    /\ conf' = cf
    /\ uscan' = Keys
    /\ UNCHANGED <<utodo, connVars, lock, ipCount, userCtxMap, ctxVars,
                   closeVars, victims, stopped>>

SnapshotActions(k) ==
    /\ k \in uscan
    /\ Free(k)
    /\ uscan' = uscan \ {k}
    /\ utodo' = utodo \cup ({userCtxMap[k]} \ {nil})
    /\ UNCHANGED <<conf, connVars, lock, ipCount, userCtxMap, ctxVars,
                   closeVars, victims, stopped>>

UpdateParameter(x) ==
    /\ uscan = {}
    /\ x \in utodo
    /\ utodo' = utodo \ {x}
    /\ param' = [param EXCEPT ![x] = conf]
    /\ UNCHANGED <<conf, uscan, connVars, lock, ipCount, userCtxMap, refs,
                   cancelled, closeVars, victims, stopped>>

UpdaterProgress ==
    \/ \E k \in Keys : SnapshotActions(k)
    \/ \E x \in Ctxs : UpdateParameter(x)

(* tcm.Stop() cancels the context every connContext descends from. *)
Stop ==
    /\ ~stopped
    /\ stopped' = TRUE
    /\ UNCHANGED <<connVars, lock, ipCount, userCtxMap, ctxVars, confVars,
                   closeVars, victims>>

Next ==
    \/ \E c \in Conns : ConnStep(c)
    \/ \E w \in Closers : CloserStep(w)
    \/ \E cf \in Confs : SetConf(cf)
    \/ UpdaterProgress
    \/ Stop

Spec == Init /\ [][Next]_vars

(* Goroutines keep running, and Go's mutexes do not starve a waiter (after *)
(* 1 ms a waiting goroutine is handed the lock), so a step that needs a    *)
(* shard lock is taken if the lock is free again and again: strong         *)
(* fairness.  Nothing obliges a peer, an event or an operator to act.      *)
FairSpec ==
    /\ Spec
    /\ \A c \in Conns : SF_vars(ConnProgress(c))
    /\ \A w \in Closers : SF_vars(CloserProgress(w))
-----------------------------------------------------------------------------
Stages == {"idle", "accepted", "admitted", "inserting", "relay", "leaving",
           "release"}

Counted == {"admitted", "inserting", "relay", "leaving", "release"}
OnIp(i) == {c \in Conns : pc[c] \in Counted /\ sess[c].ip = i}
Holders(x) == {c \in Conns : held[c] = x}

(* ipConnCountMap is exact on every path through the handlers, early       *)
(* returns included: the entry of an exit ip is the number of handlers     *)
(* that have passed AddIpConnCount and not yet ReduceIpConnCount.          *)
IpCountExact == \A i \in Ips : ipCount[i] = Cardinality(OnIp(i))

(* OneIpMaxConn bounds connections, not only the counter: another handler  *)
(* gets past AddIpConnCount on an exit ip only while fewer than the limit  *)
(* in force are there (a limit of 0 is no limit, the first is let in).     *)
AdmittedWithinLimit ==
    \A i \in Ips :
       Cardinality(OnIp(i)') > Cardinality(OnIp(i)) =>
          \/ conf.OneIpMaxConn = 0
          \/ OnIp(i) = {}
          \/ Cardinality(OnIp(i)') <= conf.OneIpMaxConn
AdmissionWithinLimit == [][AdmittedWithinLimit]_vars

(* connContext.c of a mapped connContext is the number of connections that *)
(* hold it and is never 0: c-- in deleteUserConnection cannot wrap around  *)
(* its unsigned type, and an entry goes away with its last connection.     *)
CtxCountExact ==
    \A k \in Keys :
       userCtxMap[k] # nil =>
          /\ refs[userCtxMap[k]] = Cardinality(Holders(userCtxMap[k]))
          /\ refs[userCtxMap[k]] > 0

(* A connection can always be disconnected: its connContext is cancelled,  *)
(* is in the map under the connection's own key, or has been popped by a   *)
(* closer that is about to cancel it.                                      *)
ReachableOrCancelled ==
    \A c \in Conns :
       held[c] # nil =>
          \/ cancelled[held[c]]
          \/ userCtxMap[sess[c].key] = held[c]
          \/ \E w \in Closers : hand[w] = held[c]

(* A relaying connection is cut only by an event or by Stop, never because *)
(* another connection of the same user ends, even when the map entry has   *)
(* been popped and replaced in between (valueInMap != ctx).                *)
CancelledByEvent ==
    \A c \in Conns :
       held[c] # nil /\ pc[c] = "relay" /\ held'[c] = held[c]
       /\ ~cancelled[held[c]] /\ cancelled'[held[c]]
          => \E w \in Closers : hand[w] = held[c]
NoForeignCancel == [][CancelledByEvent]_vars

(* A disconnect or ban event misses nobody: a connection that relays when  *)
(* the event is taken up is cancelled, has been popped, or is still on the *)
(* list of the closer, whatever else is entered or popped meanwhile.       *)
Reached(c, w) ==
    \/ cancelled[held[c]]
    \/ \E v \in Closers : hand[v] = held[c]
    \/ sess[c].key \in scan[w] \cup todo[w]

DisconnectMissesNobody ==
    \A w \in Closers :
       event[w] \in {"user", "ban"} => \A c \in victims[w] : Reached(c, w)

(* The same for a disconnect event that lists ips ("close connections by   *)
(* user and ip", rabbitmq_consume.go 224-230).                             *)
IpDisconnectMissesNobody ==
    \A w \in Closers :
       event[w] = "ip" => \A c \in victims[w] : Reached(c, w)

(* When an update has finished, every mapped connContext has the limits of *)
(* the configuration in force: an entry made during the walk over the map  *)
(* is either seen by it or was made from the new configuration.            *)
ParamsCurrent ==
    uscan = {} /\ utodo = {} =>
       \A k \in Keys : userCtxMap[k] # nil => param[userCtxMap[k]] = conf

(* Every connection a disconnect or ban event is about leaves its relay.   *)
DisconnectTakesEffect ==
    \A w \in Closers, c \in Conns :
       (event[w] \in {"user", "ban"} /\ c \in victims[w]) ~> (c \notin victims[w])

(* After Stop all handlers return and leave both maps empty. *)
StopDrains ==
    stopped ~> /\ \A c \in Conns : pc[c] = "idle"
               /\ \A i \in Ips : ipCount[i] = 0
               /\ \A k \in Keys : userCtxMap[k] = nil
=============================================================================
