-------------------------- MODULE ConnRegistryProofs --------------------------
(***************************************************************************)
(* Proofs about ConnRegistry, for any numbers of connections, users, exit  *)
(* ips, event handlers and configurations.                                 *)
(*                                                                         *)
(* The invariants build on each other: Shape (types, and what the stage of *)
(* a handler says about its session, lock and connContext), Mapping (a     *)
(* connContext is under one key, the key of those who hold it), and then   *)
(* one invariant per promise of the registry.                              *)
(***************************************************************************)
EXTENDS ConnRegistry, FiniteSetTheorems, TLAPS

(* Which provers a leaf is given to, and for how long. *)
USE ZenonT(3), SMTT(30), ZenonT(30)

Shape ==
    /\ pc \in [Conns -> Stages]
    /\ sess \in [Conns -> Sessions \cup {nil}]
    /\ held \in [Conns -> Ctxs \cup {nil}]
    /\ draft \in [Conns -> Confs \cup {nil}]
    /\ lock \in [Keys -> Conns \cup {nil}]
    /\ userCtxMap \in [Keys -> Ctxs \cup {nil}]
    /\ DOMAIN cancelled = Ctxs
    /\ param \in [Ctxs -> Confs]
    /\ conf \in Confs
    /\ uscan \in SUBSET Keys
    /\ utodo \in SUBSET Ctxs
    /\ scan \in [Closers -> SUBSET Keys]
    /\ todo \in [Closers -> SUBSET Keys]
    /\ hand \in [Closers -> Ctxs \cup {nil}]
    /\ event \in [Closers -> {"none", "user", "ip", "ban"}]
    /\ victims \in [Closers -> SUBSET Conns]
    /\ \A c \in Conns :
          /\ held[c] # nil <=> pc[c] \in {"relay", "leaving"}
          /\ pc[c] # "idle" => sess[c] \in Sessions
          /\ pc[c] = "inserting" => /\ lock[sess[c].key] = c
                                    /\ userCtxMap[sess[c].key] = nil
                                    /\ draft[c] \in Confs
    /\ \A w \in Closers : \A c \in victims[w] : pc[c] = "relay"

Mapping ==
    /\ \A j, k \in Keys :
          userCtxMap[j] # nil /\ userCtxMap[j] = userCtxMap[k] => j = k
    /\ \A c \in Conns, k \in Keys :
          held[c] # nil /\ userCtxMap[k] = held[c] => sess[c].key = k
    /\ \A w \in Closers, k \in Keys : hand[w] # nil => userCtxMap[k] # hand[w]

LEMMA SessionKeys == \A s \in Sessions : s.key \in Keys /\ s.ip \in Ips
  BY DEF Sessions, Keys, Key, IpKey

LEMMA StageTypes ==
    Shape => pc \in [Conns -> Stages] /\ sess \in [Conns -> Sessions \cup {nil}]
  BY DEF Shape

(* A handler takes up an event. *)
Start(w) ==
    \/ \E u \in Users \cup {SS} :
          \/ DisconnectUser(w, u)
          \/ \E I \in SUBSET Ips \ {{}} : DisconnectIps(w, u, I)
    \/ \E U \in SUBSET Users \ {{}} : Ban(w, U)

LEMMA StartFrame ==
    ASSUME NEW w \in Closers, Start(w)
    PROVE  UNCHANGED <<connVars, lock, ipCount, userCtxMap, ctxVars, confVars,
                       hand, stopped>>
  BY DEF Start, DisconnectUser, DisconnectIps, Ban, Begin

(* The address Insert picks is one nobody points to. *)
LEMMA FreshCtx ==
    ASSUME NEW c \in Conns, Insert(c)
    PROVE  \E x \in Ctxs \ Referenced :
              /\ userCtxMap' = [userCtxMap EXCEPT ![sess[c].key] = x]
              /\ refs' = [refs EXCEPT ![x] = 1]
              /\ cancelled' = [cancelled EXCEPT ![x] = FALSE]
              /\ param' = [param EXCEPT ![x] = draft[c]]
              /\ held' = [held EXCEPT ![c] = x]
<1> DEFINE x == CHOOSE y \in Ctxs : y \notin Referenced
<1>1. x \in Ctxs \ Referenced
  BY DEF Insert
<1>2. /\ userCtxMap' = [userCtxMap EXCEPT ![sess[c].key] = x]
      /\ refs' = [refs EXCEPT ![x] = 1]
      /\ cancelled' = [cancelled EXCEPT ![x] = FALSE]
      /\ param' = [param EXCEPT ![x] = draft[c]]
      /\ held' = [held EXCEPT ![c] = x]
  BY DEF Insert
<1> QED
  BY Zenon, <1>1, <1>2

LEMMA ShapeInvariant == Spec => []Shape
<1>1. Init => Shape
  BY RegistryAssumption, SessionKeys DEF Init, Shape, Stages
<1>2. Shape /\ [Next]_vars => Shape'
<2> SUFFICES ASSUME Shape, [Next]_vars PROVE Shape'
  OBVIOUS
<2>1. ASSUME NEW c \in Conns, Accept(c) PROVE Shape'
  BY <2>1, RegistryAssumption, SessionKeys DEF Shape, Stages, Accept, Goto, connVars, ctxVars, confVars, closeVars
<2>2. ASSUME NEW c \in Conns, Reject(c) PROVE Shape'
  BY <2>2, RegistryAssumption, SessionKeys DEF Shape, Stages, Reject, Return, Goto, connVars, ctxVars, confVars, closeVars
<2>3. ASSUME NEW c \in Conns, AddIpConnCount(c) PROVE Shape'
  BY <2>3, RegistryAssumption, SessionKeys DEF Shape, Stages, AddIpConnCount, Goto, connVars, ctxVars, confVars, closeVars
<2>4. ASSUME NEW c \in Conns, Fail(c) PROVE Shape'
  BY <2>4, RegistryAssumption, SessionKeys DEF Shape, Stages, Fail, Goto, connVars, ctxVars, confVars, closeVars
<2>5. ASSUME NEW c \in Conns, Join(c) PROVE Shape'
  BY <2>5, RegistryAssumption, SessionKeys DEF Shape, Stages, Join, Free, Goto, connVars, ctxVars, confVars, closeVars
<2>6. ASSUME NEW c \in Conns, ReadConf(c) PROVE Shape'
  BY <2>6, RegistryAssumption, SessionKeys DEF Shape, Stages, ReadConf, Free, Goto, connVars, ctxVars, confVars, closeVars
<2>7. ASSUME NEW c \in Conns, Insert(c) PROVE Shape'
  <3> PICK x \in Ctxs \ Referenced :
            /\ userCtxMap' = [userCtxMap EXCEPT ![sess[c].key] = x]
            /\ refs' = [refs EXCEPT ![x] = 1]
            /\ cancelled' = [cancelled EXCEPT ![x] = FALSE]
            /\ param' = [param EXCEPT ![x] = draft[c]]
            /\ held' = [held EXCEPT ![c] = x]
    BY <2>7, FreshCtx
  <3> QED
    BY <2>7, RegistryAssumption, SessionKeys DEF Insert, Shape, Stages, Goto, connVars, ctxVars, confVars, closeVars
<2>8. ASSUME NEW c \in Conns, Leave(c) PROVE Shape'
  BY <2>8, RegistryAssumption, SessionKeys DEF Shape, Stages, Leave, Goto, connVars, ctxVars, confVars, closeVars
<2>9. ASSUME NEW c \in Conns, deleteUserConnection(c) PROVE Shape'
  <3>1. CASE UNCHANGED userCtxMap
    BY <2>9, <3>1, RegistryAssumption, SessionKeys DEF Shape, Stages, deleteUserConnection, Goto, connVars, ctxVars, confVars, closeVars
  <3>2. CASE userCtxMap' = [userCtxMap EXCEPT ![sess[c].key] = nil]
    BY <2>9, <3>2, RegistryAssumption, SessionKeys DEF Shape, Stages, deleteUserConnection, Goto, connVars, ctxVars, confVars, closeVars
  <3> QED
    BY <2>9, <3>1, <3>2 DEF deleteUserConnection
<2>10. ASSUME NEW c \in Conns, ReduceIpConnCount(c) PROVE Shape'
  BY <2>10, RegistryAssumption, SessionKeys DEF Shape, Stages, ReduceIpConnCount, Return, Goto, connVars, ctxVars, confVars, closeVars
<2>11. ASSUME NEW w \in Closers, NEW u \in Users \cup {SS}, DisconnectUser(w, u) PROVE Shape'
  BY <2>11, RegistryAssumption, SessionKeys DEF Shape, Stages, DisconnectUser, Begin, Idle, Relaying, connVars, ctxVars, confVars, closeVars
<2>12. ASSUME NEW w \in Closers, NEW u \in Users \cup {SS}, NEW I \in SUBSET Ips, DisconnectIps(w, u, I) PROVE Shape'
  <3>1. {IpKey(u, i) : i \in I} \in SUBSET Keys
    BY DEF Keys
  <3> QED
    BY <2>12, <3>1, RegistryAssumption, SessionKeys DEF Shape, Stages, DisconnectIps, Begin, Idle, Relaying, connVars, ctxVars, confVars, closeVars
<2>13. ASSUME NEW w \in Closers, NEW U \in SUBSET Users, Ban(w, U) PROVE Shape'
  <3>1. {Key(v) : v \in U} \in SUBSET Keys
    BY DEF Keys
  <3> QED
    BY <2>13, <3>1, RegistryAssumption, SessionKeys DEF Shape, Stages, Ban, Begin, Idle, Relaying, connVars, ctxVars, confVars, closeVars
<2>14. ASSUME NEW w \in Closers, NEW k \in Keys, Snapshot(w, k) PROVE Shape'
  BY <2>14, RegistryAssumption, SessionKeys DEF Shape, Stages, Snapshot, Free, connVars, ctxVars, confVars, closeVars
<2>15. ASSUME NEW w \in Closers, NEW k \in Keys, Pop(w, k) PROVE Shape'
  BY <2>15, RegistryAssumption, SessionKeys DEF Shape, Stages, Pop, Free, connVars, ctxVars, confVars, closeVars
<2>16. ASSUME NEW w \in Closers, Cancel(w) PROVE Shape'
  BY <2>16, RegistryAssumption, SessionKeys DEF Shape, Stages, Cancel, connVars, ctxVars, confVars, closeVars
<2>17. ASSUME NEW cf \in Confs, SetConf(cf) PROVE Shape'
  BY <2>17, RegistryAssumption, SessionKeys DEF Shape, Stages, SetConf, connVars, ctxVars, confVars, closeVars
<2>18. ASSUME NEW k \in Keys, SnapshotActions(k) PROVE Shape'
  BY <2>18, RegistryAssumption, SessionKeys DEF Shape, Stages, SnapshotActions, Free, connVars, ctxVars, confVars, closeVars
<2>19. ASSUME NEW x \in Ctxs, UpdateParameter(x) PROVE Shape'
  BY <2>19, RegistryAssumption, SessionKeys DEF Shape, Stages, UpdateParameter, connVars, ctxVars, confVars, closeVars
<2>20. ASSUME Stop PROVE Shape'
  BY <2>20, RegistryAssumption, SessionKeys DEF Shape, Stages, Stop, connVars, ctxVars, confVars, closeVars
<2>21. CASE UNCHANGED vars
  BY <2>21 DEF Shape, Stages, vars, connVars, ctxVars, confVars, closeVars
<2> QED
  BY <2>1, <2>2, <2>3, <2>4, <2>5, <2>6, <2>7, <2>8, <2>9, <2>10, <2>11, <2>12, <2>13, <2>14, <2>15, <2>16, <2>17, <2>18, <2>19, <2>20, <2>21 DEF Next, ConnStep, CloserStep, CloserProgress, UpdaterProgress
<1> QED
  BY <1>1, <1>2, PTL DEF Spec

LEMMA MappingInvariant == Spec => []Mapping
<1>1. Init => Mapping
  BY RegistryAssumption DEF Init, Mapping
<1>2. Shape /\ Mapping /\ [Next]_vars => Mapping'
<2> SUFFICES ASSUME Shape, Mapping, [Next]_vars PROVE Mapping'
  OBVIOUS
<2>1. ASSUME NEW c \in Conns, Accept(c) PROVE Mapping'
  BY <2>1, RegistryAssumption, SessionKeys DEF Shape, Mapping, Accept, Goto, connVars, ctxVars, confVars, closeVars
<2>2. ASSUME NEW c \in Conns, Reject(c) PROVE Mapping'
  BY <2>2, RegistryAssumption, SessionKeys DEF Shape, Mapping, Reject, Return, Goto, connVars, ctxVars, confVars, closeVars
<2>3. ASSUME NEW c \in Conns, AddIpConnCount(c) \/ Fail(c) \/ ReadConf(c) \/ Leave(c) PROVE Mapping'
  <3>1. UNCHANGED <<userCtxMap, held, sess, hand>>
    BY <2>3 DEF AddIpConnCount, Fail, ReadConf, Leave, connVars, closeVars
  <3> QED
    BY <3>1 DEF Mapping
<2>4. ASSUME NEW c \in Conns, Join(c) PROVE Mapping'
  BY <2>4, RegistryAssumption, SessionKeys DEF Shape, Mapping, Join, Free, Goto, connVars, ctxVars, confVars, closeVars
<2>5. ASSUME NEW c \in Conns, Insert(c) PROVE Mapping'
  <3> PICK x \in Ctxs \ Referenced :
            /\ userCtxMap' = [userCtxMap EXCEPT ![sess[c].key] = x]
            /\ refs' = [refs EXCEPT ![x] = 1]
            /\ cancelled' = [cancelled EXCEPT ![x] = FALSE]
            /\ param' = [param EXCEPT ![x] = draft[c]]
            /\ held' = [held EXCEPT ![c] = x]
    BY <2>5, FreshCtx
  <3> QED
    BY <2>5, RegistryAssumption, SessionKeys DEF Insert, Shape, Mapping, Referenced, Goto, connVars, ctxVars, confVars, closeVars
<2>6. ASSUME NEW c \in Conns, deleteUserConnection(c) PROVE Mapping'
  <3>1. CASE UNCHANGED userCtxMap
    BY <2>6, <3>1, RegistryAssumption, SessionKeys DEF Shape, Mapping, deleteUserConnection, Goto, connVars, ctxVars, confVars, closeVars
  <3>2. CASE userCtxMap' = [userCtxMap EXCEPT ![sess[c].key] = nil]
    BY <2>6, <3>2, RegistryAssumption, SessionKeys DEF Shape, Mapping, deleteUserConnection, Goto, connVars, ctxVars, confVars, closeVars
  <3> QED
    BY <2>6, <3>1, <3>2 DEF deleteUserConnection
<2>7. ASSUME NEW c \in Conns, ReduceIpConnCount(c) PROVE Mapping'
  BY <2>7, RegistryAssumption, SessionKeys DEF Shape, Mapping, ReduceIpConnCount, Return, Goto, connVars, ctxVars, confVars, closeVars
<2>8. ASSUME NEW w \in Closers, Start(w) PROVE Mapping'
  <3>1. UNCHANGED <<userCtxMap, held, sess, hand>>
    BY <2>8, StartFrame DEF connVars, closeVars
  <3> QED
    BY <3>1 DEF Mapping
<2>9. ASSUME NEW w \in Closers, NEW k \in Keys, Snapshot(w, k) PROVE Mapping'
  <3>1. UNCHANGED <<userCtxMap, held, sess, hand>>
    BY <2>9 DEF Snapshot, connVars, closeVars
  <3> QED
    BY <3>1 DEF Mapping
<2>10. ASSUME NEW w \in Closers, NEW k \in Keys, Pop(w, k) PROVE Mapping'
  BY <2>10, RegistryAssumption, SessionKeys DEF Shape, Mapping, Pop, Free, connVars, ctxVars, confVars, closeVars
<2>11. ASSUME NEW w \in Closers, Cancel(w) PROVE Mapping'
  BY <2>11, RegistryAssumption, SessionKeys DEF Shape, Mapping, Cancel, connVars, ctxVars, confVars, closeVars
<2>12. CASE (\E cf \in Confs : SetConf(cf)) \/ (\E k \in Keys : SnapshotActions(k)) \/ (\E x \in Ctxs : UpdateParameter(x)) \/ Stop \/ UNCHANGED vars
  <3>1. UNCHANGED <<userCtxMap, held, sess, hand>>
    BY <2>12 DEF SetConf, SnapshotActions, UpdateParameter, Stop, vars, connVars, closeVars
  <3> QED
    BY <3>1 DEF Mapping
<2> QED
  BY Zenon, <2>1, <2>2, <2>3, <2>4, <2>5, <2>6, <2>7, <2>8, <2>9, <2>10, <2>11, <2>12 DEF Next, ConnStep, CloserStep, CloserProgress, UpdaterProgress, Start
<1> QED
  BY <1>1, <1>2, ShapeInvariant, PTL DEF Spec

-----------------------------------------------------------------------------
(* A connection can always be disconnected: whatever pops, replaces or     *)
(* removes its entry has cancelled its connContext or is about to.         *)
THEOREM AlwaysReachable == Spec => []ReachableOrCancelled
<1>1. Init => ReachableOrCancelled
  BY RegistryAssumption DEF Init, ReachableOrCancelled
<1>2. Shape /\ Mapping /\ ReachableOrCancelled /\ [Next]_vars => ReachableOrCancelled'
<2> SUFFICES ASSUME Shape, Mapping, ReachableOrCancelled, [Next]_vars
             PROVE  ReachableOrCancelled'
  OBVIOUS
<2>1. ASSUME NEW c \in Conns, Accept(c) PROVE ReachableOrCancelled'
  BY <2>1, RegistryAssumption, SessionKeys DEF Shape, Mapping, ReachableOrCancelled, Accept, Goto, connVars, ctxVars, confVars, closeVars
<2>2. ASSUME NEW c \in Conns, Reject(c) PROVE ReachableOrCancelled'
  BY <2>2, RegistryAssumption, SessionKeys DEF Shape, Mapping, ReachableOrCancelled, Reject, Return, Goto, connVars, ctxVars, confVars, closeVars
<2>3. ASSUME NEW c \in Conns, AddIpConnCount(c) \/ Fail(c) \/ ReadConf(c) \/ Leave(c) PROVE ReachableOrCancelled'
  <3>1. UNCHANGED <<held, cancelled, userCtxMap, sess, hand>>
    BY <2>3 DEF AddIpConnCount, Fail, ReadConf, Leave, connVars, ctxVars, closeVars
  <3> QED
    BY <3>1 DEF ReachableOrCancelled
<2>4. ASSUME NEW c \in Conns, Join(c) PROVE ReachableOrCancelled'
  BY <2>4, RegistryAssumption, SessionKeys DEF Shape, Mapping, ReachableOrCancelled, Join, Free, Goto, connVars, ctxVars, confVars, closeVars
<2>5. ASSUME NEW c \in Conns, Insert(c) PROVE ReachableOrCancelled'
  <3> PICK x \in Ctxs \ Referenced :
            /\ userCtxMap' = [userCtxMap EXCEPT ![sess[c].key] = x]
            /\ refs' = [refs EXCEPT ![x] = 1]
            /\ cancelled' = [cancelled EXCEPT ![x] = FALSE]
            /\ param' = [param EXCEPT ![x] = draft[c]]
            /\ held' = [held EXCEPT ![c] = x]
    BY <2>5, FreshCtx
  <3> QED
    BY <2>5, RegistryAssumption, SessionKeys DEF Insert, Shape, Mapping, ReachableOrCancelled, Referenced, Goto, connVars, ctxVars, confVars, closeVars
<2>6. ASSUME NEW c \in Conns, deleteUserConnection(c) PROVE ReachableOrCancelled'
  <3> DEFINE x == held[c]
  <3>1. /\ x \in Ctxs /\ held' = [held EXCEPT ![c] = nil]
        /\ UNCHANGED <<sess, hand>>
    BY <2>6, RegistryAssumption, SessionKeys DEF deleteUserConnection, Shape, closeVars
  <3>2. CASE UNCHANGED <<userCtxMap, cancelled>>
    BY <3>1, <3>2, RegistryAssumption, SessionKeys DEF Shape, ReachableOrCancelled
  <3>3. CASE /\ userCtxMap[sess[c].key] = x
             /\ userCtxMap' = [userCtxMap EXCEPT ![sess[c].key] = nil]
             /\ cancelled' = [cancelled EXCEPT ![x] = TRUE]
    <4> SUFFICES ASSUME NEW e \in Conns, held'[e] # nil
                 PROVE  \/ cancelled'[held'[e]]
                        \/ userCtxMap'[sess'[e].key] = held'[e]
                        \/ \E w \in Closers : hand'[w] = held'[e]
      BY DEF ReachableOrCancelled
    <4>1. e # c /\ held'[e] = held[e] /\ held[e] \in Ctxs /\ sess[e].key \in Keys
      BY <3>1, RegistryAssumption, SessionKeys DEF Shape
    <4>2. CASE held[e] = x
      BY <3>3, <4>1, <4>2, RegistryAssumption, SessionKeys DEF Shape
    <4>3. CASE held[e] # x
      BY <3>1, <3>3, <4>1, <4>3, RegistryAssumption, SessionKeys DEF Shape, ReachableOrCancelled
    <4> QED
      BY <4>2, <4>3
  <3> QED
    BY <2>6, <3>2, <3>3 DEF deleteUserConnection
<2>7. ASSUME NEW c \in Conns, ReduceIpConnCount(c) PROVE ReachableOrCancelled'
  BY <2>7, RegistryAssumption, SessionKeys DEF Shape, Mapping, ReachableOrCancelled, ReduceIpConnCount, Return, Goto, connVars, ctxVars, confVars, closeVars
<2>8. ASSUME NEW w \in Closers, Start(w) PROVE ReachableOrCancelled'
  <3>1. UNCHANGED <<held, cancelled, userCtxMap, sess, hand>>
    BY <2>8, StartFrame DEF connVars, ctxVars, closeVars
  <3> QED
    BY <3>1 DEF ReachableOrCancelled
<2>9. ASSUME NEW w \in Closers, NEW k \in Keys, Snapshot(w, k) PROVE ReachableOrCancelled'
  <3>1. UNCHANGED <<held, cancelled, userCtxMap, sess, hand>>
    BY <2>9 DEF Snapshot, connVars, ctxVars, closeVars
  <3> QED
    BY <3>1 DEF ReachableOrCancelled
<2>10. ASSUME NEW w \in Closers, NEW k \in Keys, Pop(w, k) PROVE ReachableOrCancelled'
  BY <2>10, RegistryAssumption, SessionKeys DEF Shape, Mapping, ReachableOrCancelled, Pop, Free, connVars, ctxVars, confVars, closeVars
<2>11. ASSUME NEW w \in Closers, Cancel(w) PROVE ReachableOrCancelled'
  BY <2>11, RegistryAssumption, SessionKeys DEF Shape, Mapping, ReachableOrCancelled, Cancel, connVars, ctxVars, confVars, closeVars
<2>12. CASE (\E cf \in Confs : SetConf(cf)) \/ (\E k \in Keys : SnapshotActions(k)) \/ (\E x \in Ctxs : UpdateParameter(x)) \/ Stop \/ UNCHANGED vars
  <3>1. UNCHANGED <<held, cancelled, userCtxMap, sess, hand>>
    BY <2>12 DEF SetConf, SnapshotActions, UpdateParameter, Stop, vars, connVars, ctxVars, closeVars
  <3> QED
    BY <3>1 DEF ReachableOrCancelled
<2> QED
  BY <2>1, <2>2, <2>3, <2>4, <2>5, <2>6, <2>7, <2>8, <2>9, <2>10, <2>11, <2>12 DEF Next, ConnStep, CloserStep, CloserProgress, UpdaterProgress, Start
<1> QED
  BY <1>1, <1>2, ShapeInvariant, MappingInvariant, PTL DEF Spec

(* A disconnect or ban event misses nobody it is about, whatever else is   *)
(* entered, popped or removed while it walks over the map.                 *)
THEOREM NobodyMissed == Spec => []DisconnectMissesNobody
<1>1. Init => DisconnectMissesNobody
  BY RegistryAssumption DEF Init, DisconnectMissesNobody
<1>2. Shape /\ ReachableOrCancelled /\ DisconnectMissesNobody /\ [Next]_vars
         => DisconnectMissesNobody'
<2> SUFFICES ASSUME Shape, ReachableOrCancelled, DisconnectMissesNobody, [Next]_vars
             PROVE  DisconnectMissesNobody'
  OBVIOUS
<2>1. ASSUME NEW c \in Conns, Accept(c) PROVE DisconnectMissesNobody'
  BY <2>1, RegistryAssumption, SessionKeys DEF Shape, DisconnectMissesNobody, Reached, Accept, Goto, connVars, ctxVars, confVars, closeVars
<2>2. ASSUME NEW c \in Conns, Reject(c) PROVE DisconnectMissesNobody'
  BY <2>2, RegistryAssumption, SessionKeys DEF Shape, DisconnectMissesNobody, Reached, Reject, Return, Goto, connVars, ctxVars, confVars, closeVars
<2>3. ASSUME NEW c \in Conns, AddIpConnCount(c) \/ Fail(c) \/ ReadConf(c) PROVE DisconnectMissesNobody'
  <3>1. UNCHANGED <<cancelled, held, hand, sess, scan, todo, event, victims>>
    BY <2>3 DEF AddIpConnCount, Fail, ReadConf, connVars, ctxVars, closeVars
  <3> QED
    BY <3>1 DEF DisconnectMissesNobody, Reached
<2>4. ASSUME NEW c \in Conns, Join(c) PROVE DisconnectMissesNobody'
  BY <2>4, RegistryAssumption, SessionKeys DEF Shape, DisconnectMissesNobody, Reached, Join, Free, Goto, connVars, ctxVars, confVars, closeVars
<2>5. ASSUME NEW c \in Conns, Insert(c) PROVE DisconnectMissesNobody'
  <3> PICK x \in Ctxs \ Referenced :
            /\ userCtxMap' = [userCtxMap EXCEPT ![sess[c].key] = x]
            /\ refs' = [refs EXCEPT ![x] = 1]
            /\ cancelled' = [cancelled EXCEPT ![x] = FALSE]
            /\ param' = [param EXCEPT ![x] = draft[c]]
            /\ held' = [held EXCEPT ![c] = x]
    BY <2>5, FreshCtx
  <3>1. /\ \A w \in Closers : \A e \in victims[w] :
               e \in Conns /\ held'[e] = held[e] /\ held[e] \in Ctxs /\ held[e] # x
        /\ UNCHANGED <<sess, scan, todo, hand, event, victims>>
    BY <2>5, RegistryAssumption, SessionKeys DEF Insert, Shape, Referenced, closeVars
  <3>2. \A y \in Ctxs : y # x => cancelled'[y] = cancelled[y]
    BY RegistryAssumption, SessionKeys DEF Shape
  <3> QED
    BY <3>1, <3>2 DEF DisconnectMissesNobody, Reached
<2>6. ASSUME NEW c \in Conns, Leave(c) PROVE DisconnectMissesNobody'
  BY <2>6, RegistryAssumption, SessionKeys DEF Shape, DisconnectMissesNobody, Reached, Leave, Goto, connVars, ctxVars, confVars, closeVars
<2>7. ASSUME NEW c \in Conns, deleteUserConnection(c) PROVE DisconnectMissesNobody'
  <3>1. CASE UNCHANGED userCtxMap
    BY <2>7, <3>1, RegistryAssumption, SessionKeys DEF Shape, DisconnectMissesNobody, Reached, deleteUserConnection, Goto, connVars, ctxVars, confVars, closeVars
  <3>2. CASE userCtxMap' = [userCtxMap EXCEPT ![sess[c].key] = nil]
    BY <2>7, <3>2, RegistryAssumption, SessionKeys DEF Shape, DisconnectMissesNobody, Reached, deleteUserConnection, Goto, connVars, ctxVars, confVars, closeVars
  <3> QED
    BY <2>7, <3>1, <3>2 DEF deleteUserConnection
<2>8. ASSUME NEW c \in Conns, ReduceIpConnCount(c) PROVE DisconnectMissesNobody'
  BY <2>8, RegistryAssumption, SessionKeys DEF Shape, DisconnectMissesNobody, Reached, ReduceIpConnCount, Return, Goto, connVars, ctxVars, confVars, closeVars
<2>9. ASSUME NEW w \in Closers, NEW u \in Users \cup {SS}, DisconnectUser(w, u) PROVE DisconnectMissesNobody'
  BY <2>9, RegistryAssumption, SessionKeys DEF Shape, DisconnectMissesNobody, Reached, DisconnectUser, Begin, Idle, Relaying, connVars, ctxVars, confVars, closeVars
<2>10. ASSUME NEW w \in Closers, NEW u \in Users \cup {SS}, NEW I \in SUBSET Ips, DisconnectIps(w, u, I) PROVE DisconnectMissesNobody'
  BY <2>10, RegistryAssumption, SessionKeys DEF Shape, DisconnectMissesNobody, Reached, DisconnectIps, Begin, Idle, Relaying, connVars, ctxVars, confVars, closeVars
<2>11. ASSUME NEW w \in Closers, NEW U \in SUBSET Users, Ban(w, U) PROVE DisconnectMissesNobody'
  BY <2>11, RegistryAssumption, SessionKeys DEF Shape, DisconnectMissesNobody, Reached, Ban, Begin, Idle, Relaying, connVars, ctxVars, confVars, closeVars
<2>12. ASSUME NEW w \in Closers, NEW k \in Keys, Snapshot(w, k) PROVE DisconnectMissesNobody'
  BY <2>12, RegistryAssumption, SessionKeys DEF Shape, DisconnectMissesNobody, Reached, Snapshot, Free, ReachableOrCancelled, connVars, ctxVars, confVars, closeVars
<2>13. ASSUME NEW w \in Closers, NEW k \in Keys, Pop(w, k) PROVE DisconnectMissesNobody'
  BY <2>13, RegistryAssumption, SessionKeys DEF Shape, DisconnectMissesNobody, Reached, Pop, Free, ReachableOrCancelled, connVars, ctxVars, confVars, closeVars
<2>14. ASSUME NEW w \in Closers, Cancel(w) PROVE DisconnectMissesNobody'
  BY <2>14, RegistryAssumption, SessionKeys DEF Shape, DisconnectMissesNobody, Reached, Cancel, connVars, ctxVars, confVars, closeVars
<2>15. CASE (\E cf \in Confs : SetConf(cf)) \/ (\E k \in Keys : SnapshotActions(k)) \/ (\E x \in Ctxs : UpdateParameter(x)) \/ Stop \/ UNCHANGED vars
  <3>1. UNCHANGED <<cancelled, held, hand, sess, scan, todo, event, victims>>
    BY <2>15 DEF SetConf, SnapshotActions, UpdateParameter, Stop, vars, connVars, ctxVars, closeVars
  <3> QED
    BY <3>1 DEF DisconnectMissesNobody, Reached
<2> QED
  BY <2>1, <2>2, <2>3, <2>4, <2>5, <2>6, <2>7, <2>8, <2>9, <2>10, <2>11, <2>12, <2>13, <2>14, <2>15 DEF Next, ConnStep, CloserStep, CloserProgress, UpdaterProgress
<1> QED
  BY <1>1, <1>2, ShapeInvariant, AlwaysReachable, PTL DEF Spec

(* Why an update leaves no entry with old limits: an entry whose limits    *)
(* are old is still ahead of the walk, and so is the key of a callback     *)
(* that has read the old configuration.                                    *)
Distribution ==
    /\ \A k \in Keys : userCtxMap[k] # nil =>
          param[userCtxMap[k]] = conf \/ k \in uscan \/ userCtxMap[k] \in utodo
    /\ \A c \in Conns : pc[c] = "inserting" =>
          draft[c] = conf \/ sess[c].key \in uscan

LEMMA DistributionKept ==
    ASSUME Distribution, UNCHANGED <<userCtxMap, param, conf, uscan, utodo, draft>>,
           \A e \in Conns : pc'[e] = "inserting" =>
              pc[e] = "inserting" /\ sess'[e] = sess[e]
    PROVE  Distribution'
  BY DEF Distribution

(* A finished update has reached every connContext in the map.             *)
THEOREM UpdateReachesAll == Spec => []ParamsCurrent
<1>1. Init => Distribution
  BY RegistryAssumption DEF Init, Distribution
<1>2. Shape /\ Distribution /\ [Next]_vars => Distribution'
<2> SUFFICES ASSUME Shape, Distribution, [Next]_vars PROVE Distribution'
  OBVIOUS
<2>1. ASSUME NEW c \in Conns, Accept(c) PROVE Distribution'
  <3>1. UNCHANGED <<userCtxMap, param, conf, uscan, utodo, draft>>
    BY <2>1 DEF Accept, ctxVars, confVars
  <3>2. \A e \in Conns : pc'[e] = "inserting" =>
           pc[e] = "inserting" /\ sess'[e] = sess[e]
    BY <2>1, StageTypes DEF Accept, Goto
  <3> QED
    BY <3>1, <3>2, DistributionKept
<2>2. ASSUME NEW c \in Conns, Reject(c) PROVE Distribution'
  <3>1. UNCHANGED <<userCtxMap, param, conf, uscan, utodo, draft>>
    BY <2>2 DEF Reject, ctxVars, confVars
  <3>2. \A e \in Conns : pc'[e] = "inserting" =>
           pc[e] = "inserting" /\ sess'[e] = sess[e]
    BY <2>2, StageTypes DEF Reject, Return, Goto
  <3> QED
    BY <3>1, <3>2, DistributionKept
<2>3. ASSUME NEW c \in Conns, AddIpConnCount(c) PROVE Distribution'
  <3>1. UNCHANGED <<userCtxMap, param, conf, uscan, utodo, draft>>
    BY <2>3 DEF AddIpConnCount, ctxVars, confVars
  <3>2. \A e \in Conns : pc'[e] = "inserting" =>
           pc[e] = "inserting" /\ sess'[e] = sess[e]
    BY <2>3, StageTypes DEF AddIpConnCount, Goto
  <3> QED
    BY <3>1, <3>2, DistributionKept
<2>4. ASSUME NEW c \in Conns, Fail(c) PROVE Distribution'
  <3>1. UNCHANGED <<userCtxMap, param, conf, uscan, utodo, draft>>
    BY <2>4 DEF Fail, ctxVars, confVars
  <3>2. \A e \in Conns : pc'[e] = "inserting" =>
           pc[e] = "inserting" /\ sess'[e] = sess[e]
    BY <2>4, StageTypes DEF Fail, Goto
  <3> QED
    BY <3>1, <3>2, DistributionKept
<2>5. ASSUME NEW c \in Conns, Join(c) PROVE Distribution'
  <3>1. UNCHANGED <<userCtxMap, param, conf, uscan, utodo, draft>>
    BY <2>5 DEF Join, ctxVars, confVars
  <3>2. \A e \in Conns : pc'[e] = "inserting" =>
           pc[e] = "inserting" /\ sess'[e] = sess[e]
    BY <2>5, StageTypes DEF Join, Goto
  <3> QED
    BY <3>1, <3>2, DistributionKept
<2>6. ASSUME NEW c \in Conns, ReadConf(c) PROVE Distribution'
  BY <2>6, RegistryAssumption, SessionKeys DEF Shape, Distribution, ReadConf, Free, Goto, connVars, ctxVars, confVars, closeVars
<2>7. ASSUME NEW c \in Conns, Insert(c) PROVE Distribution'
  <3> PICK x \in Ctxs \ Referenced :
            /\ userCtxMap' = [userCtxMap EXCEPT ![sess[c].key] = x]
            /\ refs' = [refs EXCEPT ![x] = 1]
            /\ cancelled' = [cancelled EXCEPT ![x] = FALSE]
            /\ param' = [param EXCEPT ![x] = draft[c]]
            /\ held' = [held EXCEPT ![c] = x]
    BY <2>7, FreshCtx
  <3> QED
    BY <2>7, RegistryAssumption, SessionKeys DEF Insert, Shape, Distribution, Referenced, Goto, connVars, ctxVars, confVars, closeVars
<2>8. ASSUME NEW c \in Conns, Leave(c) PROVE Distribution'
  <3>1. UNCHANGED <<userCtxMap, param, conf, uscan, utodo, draft>>
    BY <2>8 DEF Leave, ctxVars, confVars
  <3>2. \A e \in Conns : pc'[e] = "inserting" =>
           pc[e] = "inserting" /\ sess'[e] = sess[e]
    BY <2>8, StageTypes DEF Leave, Goto
  <3> QED
    BY <3>1, <3>2, DistributionKept
<2>9. ASSUME NEW c \in Conns, deleteUserConnection(c) PROVE Distribution'
  <3>1. CASE UNCHANGED userCtxMap
    BY <2>9, <3>1, RegistryAssumption, SessionKeys DEF Shape, Distribution, deleteUserConnection, Goto, connVars, ctxVars, confVars, closeVars
  <3>2. CASE userCtxMap' = [userCtxMap EXCEPT ![sess[c].key] = nil]
    BY <2>9, <3>2, RegistryAssumption, SessionKeys DEF Shape, Distribution, deleteUserConnection, Goto, connVars, ctxVars, confVars, closeVars
  <3> QED
    BY <2>9, <3>1, <3>2 DEF deleteUserConnection
<2>10. ASSUME NEW c \in Conns, ReduceIpConnCount(c) PROVE Distribution'
  <3>1. UNCHANGED <<userCtxMap, param, conf, uscan, utodo, draft>>
    BY <2>10 DEF ReduceIpConnCount, ctxVars, confVars
  <3>2. \A e \in Conns : pc'[e] = "inserting" =>
           pc[e] = "inserting" /\ sess'[e] = sess[e]
    BY <2>10, StageTypes DEF ReduceIpConnCount, Return, Goto
  <3> QED
    BY <3>1, <3>2, DistributionKept
<2>11. ASSUME NEW w \in Closers, Start(w) PROVE Distribution'
  <3>1. UNCHANGED <<userCtxMap, param, conf, uscan, utodo, pc, draft, sess>>
    BY <2>11, StartFrame DEF connVars, ctxVars, confVars
  <3> QED
    BY <3>1 DEF Distribution
<2>12. ASSUME NEW w \in Closers, NEW k \in Keys, Snapshot(w, k) PROVE Distribution'
  <3>1. UNCHANGED <<userCtxMap, param, conf, uscan, utodo, pc, draft, sess>>
    BY <2>12 DEF Snapshot, connVars, ctxVars, confVars
  <3> QED
    BY <3>1 DEF Distribution
<2>13. ASSUME NEW w \in Closers, NEW k \in Keys, Pop(w, k) PROVE Distribution'
  BY <2>13, RegistryAssumption, SessionKeys DEF Shape, Distribution, Pop, Free, connVars, ctxVars, confVars, closeVars
<2>14. ASSUME NEW w \in Closers, Cancel(w) PROVE Distribution'
  <3>1. UNCHANGED <<userCtxMap, param, conf, uscan, utodo, pc, draft, sess>>
    BY <2>14 DEF Cancel, connVars, ctxVars, confVars
  <3> QED
    BY <3>1 DEF Distribution
<2>15. ASSUME NEW cf \in Confs, SetConf(cf) PROVE Distribution'
  BY <2>15, RegistryAssumption, SessionKeys DEF Shape, Distribution, SetConf, connVars, ctxVars, confVars, closeVars
<2>16. ASSUME NEW k \in Keys, SnapshotActions(k) PROVE Distribution'
  BY <2>16, RegistryAssumption, SessionKeys DEF Shape, Distribution, SnapshotActions, Free, connVars, ctxVars, confVars, closeVars
<2>17. ASSUME NEW x \in Ctxs, UpdateParameter(x) PROVE Distribution'
  BY <2>17, RegistryAssumption, SessionKeys DEF Shape, Distribution, UpdateParameter, connVars, ctxVars, confVars, closeVars
<2>18. CASE Stop \/ UNCHANGED vars
  <3>1. UNCHANGED <<userCtxMap, param, conf, uscan, utodo, pc, draft, sess>>
    BY <2>18 DEF Stop, vars, connVars, ctxVars, confVars
  <3> QED
    BY <3>1 DEF Distribution
<2> QED
  BY <2>1, <2>2, <2>3, <2>4, <2>5, <2>6, <2>7, <2>8, <2>9, <2>10, <2>11, <2>12, <2>13, <2>14, <2>15, <2>16, <2>17, <2>18 DEF Next, ConnStep, CloserStep, CloserProgress, UpdaterProgress, Start
<1>3. Distribution => ParamsCurrent
  BY DEF Distribution, ParamsCurrent
<1> QED
  BY <1>1, <1>2, <1>3, ShapeInvariant, PTL DEF Spec

-----------------------------------------------------------------------------
(* Counting connections.                                                   *)


LEMMA Sizes ==
    \A S \in SUBSET Conns :
       /\ IsFiniteSet(S)
       /\ Cardinality(S) \in Nat
       /\ Cardinality(S) = 0 <=> S = {}
  BY RegistryAssumption, FS_Subset, FS_CardinalityType, FS_EmptySet

LEMMA Added ==
    ASSUME NEW S \in SUBSET Conns, NEW c \in Conns, c \notin S
    PROVE  Cardinality(S \cup {c}) = Cardinality(S) + 1
  BY Sizes, FS_AddElement

LEMMA Removed ==
    ASSUME NEW S \in SUBSET Conns, NEW c \in Conns, c \in S
    PROVE  Cardinality(S \ {c}) = Cardinality(S) - 1
  BY Sizes, FS_RemoveElement

CtxExact == refs \in [Ctxs -> Nat] /\ CtxCountExact

LEMMA CtxKept ==
    ASSUME CtxExact, held' = held, refs' = refs,
           \A k \in Keys : userCtxMap'[k] \in {nil, userCtxMap[k]}
    PROVE  CtxExact'
  BY DEF CtxExact, CtxCountExact, Holders

LEMMA CtxInvariant == Spec => []CtxExact
<1>1. Init => CtxExact
  BY RegistryAssumption DEF Init, CtxExact, CtxCountExact
<1>2. Shape /\ Mapping /\ CtxExact /\ [Next]_vars => CtxExact'
<2> SUFFICES ASSUME Shape, Mapping, CtxExact, [Next]_vars PROVE CtxExact'
  OBVIOUS
<2>1. ASSUME NEW c \in Conns, Accept(c) \/ Reject(c) \/ AddIpConnCount(c) \/ Fail(c) \/ ReadConf(c) \/ Leave(c) \/ ReduceIpConnCount(c) PROVE CtxExact'
  <3>1. UNCHANGED <<held, refs, userCtxMap>>
    BY <2>1 DEF Accept, Reject, AddIpConnCount, Fail, ReadConf, Leave, ReduceIpConnCount, connVars, ctxVars
  <3> QED
    BY <3>1, CtxKept
<2>2. ASSUME NEW c \in Conns, Join(c) PROVE CtxExact'
  <3> PICK x \in Ctxs : x = userCtxMap[sess[c].key] /\ x # nil
    BY <2>2, RegistryAssumption, SessionKeys DEF Join, Shape
  <3>1. /\ held[c] = nil /\ sess[c].key \in Keys
        /\ held' = [held EXCEPT ![c] = x] /\ refs' = [refs EXCEPT ![x] = refs[x] + 1]
        /\ UNCHANGED userCtxMap
    BY <2>2, RegistryAssumption, SessionKeys DEF Join, Shape
  <3>2. Holders(x)' = Holders(x) \cup {c} /\ c \notin Holders(x)
    BY <3>1, RegistryAssumption, SessionKeys DEF Holders, Shape
  <3>3. \A y \in Ctxs : y # x => Holders(y)' = Holders(y)
    BY <3>1, RegistryAssumption, SessionKeys DEF Holders, Shape
  <3>4. Cardinality(Holders(x)') = Cardinality(Holders(x)) + 1
    BY <3>2, Added DEF Holders
  <3>5. refs[x] = Cardinality(Holders(x)) /\ refs[x] > 0
    BY <3>1, RegistryAssumption, SessionKeys DEF CtxExact, CtxCountExact, Shape
  <3> QED
    BY <3>1, <3>3, <3>4, <3>5, RegistryAssumption, SessionKeys DEF CtxExact, CtxCountExact, Shape
<2>3. ASSUME NEW c \in Conns, Insert(c) PROVE CtxExact'
  <3> PICK x \in Ctxs \ Referenced :
            /\ userCtxMap' = [userCtxMap EXCEPT ![sess[c].key] = x]
            /\ refs' = [refs EXCEPT ![x] = 1]
            /\ cancelled' = [cancelled EXCEPT ![x] = FALSE]
            /\ param' = [param EXCEPT ![x] = draft[c]]
            /\ held' = [held EXCEPT ![c] = x]
    BY <2>3, FreshCtx
  <3>1. held[c] = nil /\ \A e \in Conns : held[e] # x
    BY <2>3, RegistryAssumption, SessionKeys DEF Insert, Shape, Referenced
  <3>2. Holders(x)' = {c}
    BY <3>1, RegistryAssumption, SessionKeys DEF Holders, Shape
  <3>3. \A y \in Ctxs : y # x => Holders(y)' = Holders(y)
    BY <3>1, RegistryAssumption, SessionKeys DEF Holders, Shape
  <3>4. Cardinality(Holders(x)') = 1
    BY Zenon, <3>2, FS_Singleton
  <3> QED
    BY <3>3, <3>4, RegistryAssumption, SessionKeys DEF CtxExact, CtxCountExact, Shape
<2>4. ASSUME NEW c \in Conns, deleteUserConnection(c) PROVE CtxExact'
  <3> PICK x \in Ctxs : x = held[c]
    BY <2>4, RegistryAssumption, SessionKeys DEF deleteUserConnection, Shape
  <3>1. held' = [held EXCEPT ![c] = nil]
    BY <2>4, RegistryAssumption, SessionKeys DEF deleteUserConnection, Shape
  <3>2. Holders(x)' = Holders(x) \ {c} /\ c \in Holders(x)
    BY <3>1, RegistryAssumption, SessionKeys DEF Holders, Shape
  <3>3. \A y \in Ctxs : y # x => Holders(y)' = Holders(y)
    BY <3>1, RegistryAssumption, SessionKeys DEF Holders, Shape
  <3>4. CASE userCtxMap[sess[c].key] # x
    <4>1. UNCHANGED <<userCtxMap, refs>>
      BY <2>4, <3>4 DEF deleteUserConnection
    <4>2. \A k \in Keys : userCtxMap[k] # x
      BY <3>1, <3>4, RegistryAssumption DEF Mapping
    <4> QED
      BY <3>3, <4>1, <4>2, RegistryAssumption, SessionKeys DEF CtxExact, CtxCountExact, Shape
  <3>5. CASE userCtxMap[sess[c].key] = x
    <4>1. /\ refs' = [refs EXCEPT ![x] = refs[x] - 1]
          /\ sess[c].key \in Keys
      BY <2>4, <3>5, RegistryAssumption, SessionKeys DEF deleteUserConnection, Shape
    <4>2. refs[x] = Cardinality(Holders(x)) /\ refs[x] > 0 /\ refs[x] \in Nat
      BY <3>1, <3>5, <4>1, RegistryAssumption DEF CtxExact, CtxCountExact
    <4>3. Cardinality(Holders(x)') = Cardinality(Holders(x)) - 1
      BY <3>2, Removed DEF Holders
    <4>4. \A k \in Keys : k # sess[c].key => userCtxMap[k] # x
      BY <3>1, <3>5, <4>1, RegistryAssumption DEF Mapping
    <4>5. CASE refs[x] = 1
      <5>1. userCtxMap' = [userCtxMap EXCEPT ![sess[c].key] = nil]
        BY <2>4, <3>5, <4>5 DEF deleteUserConnection
      <5> QED
        BY <3>1, <3>3, <4>1, <4>2, <4>4, <5>1, RegistryAssumption, SessionKeys DEF CtxExact, CtxCountExact, Shape
    <4>6. CASE refs[x] # 1
      <5>1. UNCHANGED userCtxMap
        BY <2>4, <3>5, <4>6 DEF deleteUserConnection
      <5> QED
        BY <3>1, <3>3, <4>1, <4>2, <4>3, <4>6, <5>1, RegistryAssumption, SessionKeys DEF CtxExact, CtxCountExact, Shape
    <4> QED
      BY <4>5, <4>6
  <3> QED
    BY <3>4, <3>5
<2>5. ASSUME NEW w \in Closers, Start(w) PROVE CtxExact'
  <3>1. UNCHANGED <<held, refs, userCtxMap>>
    BY <2>5, StartFrame DEF connVars, ctxVars
  <3> QED
    BY <3>1, CtxKept
<2>6. ASSUME NEW w \in Closers, NEW k \in Keys, Snapshot(w, k) PROVE CtxExact'
  <3>1. UNCHANGED <<held, refs, userCtxMap>>
    BY <2>6 DEF Snapshot, connVars, ctxVars
  <3> QED
    BY <3>1, CtxKept
<2>7. ASSUME NEW w \in Closers, NEW k \in Keys, Pop(w, k) PROVE CtxExact'
  <3>1. /\ UNCHANGED <<held, refs>>
        /\ \A j \in Keys : userCtxMap'[j] \in {nil, userCtxMap[j]}
    BY <2>7 DEF Shape, Pop, connVars, ctxVars
  <3> QED
    BY <3>1, CtxKept
<2>8. ASSUME NEW w \in Closers, Cancel(w) PROVE CtxExact'
  <3>1. UNCHANGED <<held, refs, userCtxMap>>
    BY <2>8 DEF Cancel, connVars, ctxVars
  <3> QED
    BY <3>1, CtxKept
<2>9. CASE (\E cf \in Confs : SetConf(cf)) \/ (\E k \in Keys : SnapshotActions(k)) \/ (\E x \in Ctxs : UpdateParameter(x)) \/ Stop \/ UNCHANGED vars
  <3>1. UNCHANGED <<held, refs, userCtxMap>>
    BY <2>9 DEF SetConf, SnapshotActions, UpdateParameter, Stop, vars, connVars, ctxVars
  <3> QED
    BY <3>1, CtxKept
<2> QED
  BY <2>1, <2>2, <2>3, <2>4, <2>5, <2>6, <2>7, <2>8, <2>9 DEF Next, ConnStep, CloserStep, CloserProgress, UpdaterProgress, Start
<1> QED
  BY <1>1, <1>2, ShapeInvariant, MappingInvariant, PTL DEF Spec

(* connContext.c of a mapped connContext is the number of its holders and  *)
(* positive, so that c-- does not wrap around.                             *)
THEOREM ContextCounts == Spec => []CtxCountExact
<1>1. CtxExact => CtxCountExact
  BY DEF CtxExact
<1> QED
  BY <1>1, CtxInvariant, PTL

(* No connection is cut because another one of its user ends.              *)
THEOREM OnlyEventsCancel == Spec => NoForeignCancel
<1>1. Shape /\ Mapping /\ CtxExact /\ [Next]_vars => [CancelledByEvent]_vars
<2> SUFFICES ASSUME Shape, Mapping, CtxExact, [Next]_vars, vars' # vars
             PROVE  CancelledByEvent
  OBVIOUS
<2>1. ASSUME NEW c \in Conns, Accept(c) \/ Reject(c) \/ AddIpConnCount(c) \/ Fail(c) \/ Join(c) \/ ReadConf(c) \/ Leave(c) \/ ReduceIpConnCount(c) PROVE CancelledByEvent
  <3>1. UNCHANGED cancelled
    BY <2>1 DEF Accept, Reject, AddIpConnCount, Fail, Join, ReadConf, Leave, ReduceIpConnCount, ctxVars
  <3> QED
    BY <3>1 DEF CancelledByEvent
<2>2. ASSUME NEW c \in Conns, Insert(c) PROVE CancelledByEvent
  <3> PICK x \in Ctxs \ Referenced :
            /\ userCtxMap' = [userCtxMap EXCEPT ![sess[c].key] = x]
            /\ refs' = [refs EXCEPT ![x] = 1]
            /\ cancelled' = [cancelled EXCEPT ![x] = FALSE]
            /\ param' = [param EXCEPT ![x] = draft[c]]
            /\ held' = [held EXCEPT ![c] = x]
    BY <2>2, FreshCtx
  <3>1. \A e \in Conns : held[e] # x
    BY DEF Referenced
  <3> QED
    BY <3>1, RegistryAssumption, SessionKeys DEF CancelledByEvent, Shape
<2>3. ASSUME NEW c \in Conns, deleteUserConnection(c) PROVE CancelledByEvent
  <3> SUFFICES ASSUME NEW e \in Conns, held[e] # nil, pc[e] = "relay", ~cancelled[held[e]]
               PROVE  ~cancelled'[held[e]]
    BY DEF CancelledByEvent
  <3> DEFINE x == held[c]
  <3>1. e # c /\ x \in Ctxs /\ held[e] \in Ctxs
    BY <2>3, RegistryAssumption, SessionKeys DEF deleteUserConnection, Shape
  <3>2. CASE UNCHANGED cancelled
    BY <3>2
  <3>3. CASE /\ cancelled' = [cancelled EXCEPT ![x] = TRUE]
             /\ userCtxMap[sess[c].key] = x /\ refs[x] = 1
    <4>1. sess[c].key \in Keys
      BY <2>3, RegistryAssumption, SessionKeys DEF deleteUserConnection, Shape
    <4>2. Cardinality(Holders(x)) = 1
      BY <3>1, <3>3, <4>1, RegistryAssumption DEF CtxExact, CtxCountExact
    <4>3. PICK z : Holders(x) = {z}
      BY Zenon, <4>2, Sizes, FS_Singleton DEF Holders
    <4>4. held[e] # x
      BY <3>1, <4>3 DEF Holders
    <4> QED
      BY <3>1, <3>3, <4>4, RegistryAssumption, SessionKeys DEF Shape
  <3> QED
    BY <2>3, <3>2, <3>3 DEF deleteUserConnection
<2>4. ASSUME NEW w \in Closers, Start(w) PROVE CancelledByEvent
  <3>1. UNCHANGED cancelled
    BY <2>4, StartFrame DEF ctxVars
  <3> QED
    BY <3>1 DEF CancelledByEvent
<2>5. ASSUME NEW w \in Closers, NEW k \in Keys, Snapshot(w, k) PROVE CancelledByEvent
  <3>1. UNCHANGED cancelled
    BY <2>5 DEF Snapshot, ctxVars
  <3> QED
    BY <3>1 DEF CancelledByEvent
<2>6. ASSUME NEW w \in Closers, NEW k \in Keys, Pop(w, k) PROVE CancelledByEvent
  <3>1. UNCHANGED cancelled
    BY <2>6 DEF Pop, ctxVars
  <3> QED
    BY <3>1 DEF CancelledByEvent
<2>7. ASSUME NEW w \in Closers, Cancel(w) PROVE CancelledByEvent
  BY <2>7, RegistryAssumption, SessionKeys DEF Cancel, CancelledByEvent, Shape
<2>8. CASE (\E cf \in Confs : SetConf(cf)) \/ (\E k \in Keys : SnapshotActions(k)) \/ (\E x \in Ctxs : UpdateParameter(x)) \/ Stop \/ UNCHANGED vars
  <3>1. UNCHANGED cancelled
    BY <2>8 DEF SetConf, SnapshotActions, UpdateParameter, Stop, vars, ctxVars
  <3> QED
    BY <3>1 DEF CancelledByEvent
<2> QED
  BY <2>1, <2>2, <2>3, <2>4, <2>5, <2>6, <2>7, <2>8 DEF Next, ConnStep, CloserStep, CloserProgress, UpdaterProgress, Start
<1> QED
  BY <1>1, ShapeInvariant, MappingInvariant, CtxInvariant, PTL DEF Spec, NoForeignCancel

(* How a step changes who is counted on an exit ip.                        *)
IpStep ==
    \/ ipCount' = ipCount /\ \A i \in Ips : OnIp(i)' = OnIp(i)
    \/ \E c \in Conns : AddIpConnCount(c) \/ ReduceIpConnCount(c)

LEMMA IpSteps == Shape /\ [Next]_vars => IpStep
<1> SUFFICES ASSUME Shape, [Next]_vars PROVE IpStep
  OBVIOUS
<1>1. ASSUME NEW c \in Conns, Accept(c) PROVE IpStep
  <2>1. ipCount' = ipCount
    BY <1>1 DEF Accept
  <2>2. \A e \in Conns : /\ pc'[e] \in Counted <=> pc[e] \in Counted
                         /\ pc[e] \in Counted => sess'[e] = sess[e]
    BY <1>1, StageTypes DEF Counted, Accept, Goto
  <2> QED
    BY <2>1, <2>2 DEF IpStep, OnIp
<1>2. ASSUME NEW c \in Conns, Reject(c) PROVE IpStep
  <2>1. ipCount' = ipCount
    BY <1>2 DEF Reject
  <2>2. \A e \in Conns : /\ pc'[e] \in Counted <=> pc[e] \in Counted
                         /\ pc[e] \in Counted => sess'[e] = sess[e]
    BY <1>2, StageTypes DEF Counted, Reject, Return, Goto
  <2> QED
    BY <2>1, <2>2 DEF IpStep, OnIp
<1>3. ASSUME NEW c \in Conns, AddIpConnCount(c) PROVE IpStep
  BY <1>3 DEF IpStep
<1>4. ASSUME NEW c \in Conns, Fail(c) PROVE IpStep
  <2>1. ipCount' = ipCount
    BY <1>4 DEF Fail
  <2>2. \A e \in Conns : /\ pc'[e] \in Counted <=> pc[e] \in Counted
                         /\ pc[e] \in Counted => sess'[e] = sess[e]
    BY <1>4, StageTypes DEF Counted, Fail, Goto
  <2> QED
    BY <2>1, <2>2 DEF IpStep, OnIp
<1>5. ASSUME NEW c \in Conns, Join(c) PROVE IpStep
  <2>1. ipCount' = ipCount
    BY <1>5 DEF Join
  <2>2. \A e \in Conns : /\ pc'[e] \in Counted <=> pc[e] \in Counted
                         /\ pc[e] \in Counted => sess'[e] = sess[e]
    BY <1>5, StageTypes DEF Counted, Join, Goto
  <2> QED
    BY <2>1, <2>2 DEF IpStep, OnIp
<1>6. ASSUME NEW c \in Conns, ReadConf(c) PROVE IpStep
  <2>1. ipCount' = ipCount
    BY <1>6 DEF ReadConf
  <2>2. \A e \in Conns : /\ pc'[e] \in Counted <=> pc[e] \in Counted
                         /\ pc[e] \in Counted => sess'[e] = sess[e]
    BY <1>6, StageTypes DEF Counted, ReadConf, Goto
  <2> QED
    BY <2>1, <2>2 DEF IpStep, OnIp
<1>7. ASSUME NEW c \in Conns, Insert(c) PROVE IpStep
  <2>1. ipCount' = ipCount
    BY <1>7 DEF Insert
  <2>2. \A e \in Conns : /\ pc'[e] \in Counted <=> pc[e] \in Counted
                         /\ pc[e] \in Counted => sess'[e] = sess[e]
    BY <1>7, StageTypes DEF Counted, Insert, Goto
  <2> QED
    BY <2>1, <2>2 DEF IpStep, OnIp
<1>8. ASSUME NEW c \in Conns, Leave(c) PROVE IpStep
  <2>1. ipCount' = ipCount
    BY <1>8 DEF Leave
  <2>2. \A e \in Conns : /\ pc'[e] \in Counted <=> pc[e] \in Counted
                         /\ pc[e] \in Counted => sess'[e] = sess[e]
    BY <1>8, StageTypes DEF Counted, Leave, Goto
  <2> QED
    BY <2>1, <2>2 DEF IpStep, OnIp
<1>9. ASSUME NEW c \in Conns, deleteUserConnection(c) PROVE IpStep
  <2>1. ipCount' = ipCount
    BY <1>9 DEF deleteUserConnection
  <2>2. \A e \in Conns : /\ pc'[e] \in Counted <=> pc[e] \in Counted
                         /\ pc[e] \in Counted => sess'[e] = sess[e]
    BY <1>9, StageTypes DEF Counted, deleteUserConnection, Goto
  <2> QED
    BY <2>1, <2>2 DEF IpStep, OnIp
<1>10. ASSUME NEW c \in Conns, ReduceIpConnCount(c) PROVE IpStep
  BY <1>10 DEF IpStep
<1>11. ASSUME NEW w \in Closers, Start(w) PROVE IpStep
  <2>1. UNCHANGED <<ipCount, pc, sess>>
    BY <1>11, StartFrame DEF connVars
  <2> QED
    BY <2>1 DEF IpStep, OnIp
<1>12. ASSUME NEW w \in Closers, NEW k \in Keys, Snapshot(w, k) PROVE IpStep
  <2>1. UNCHANGED <<ipCount, pc, sess>>
    BY <1>12 DEF Snapshot, connVars
  <2> QED
    BY <2>1 DEF IpStep, OnIp
<1>13. ASSUME NEW w \in Closers, NEW k \in Keys, Pop(w, k) PROVE IpStep
  <2>1. UNCHANGED <<ipCount, pc, sess>>
    BY <1>13 DEF Pop, connVars
  <2> QED
    BY <2>1 DEF IpStep, OnIp
<1>14. ASSUME NEW w \in Closers, Cancel(w) PROVE IpStep
  <2>1. UNCHANGED <<ipCount, pc, sess>>
    BY <1>14 DEF Cancel, connVars
  <2> QED
    BY <2>1 DEF IpStep, OnIp
<1>15. CASE (\E cf \in Confs : SetConf(cf)) \/ (\E k \in Keys : SnapshotActions(k)) \/ (\E x \in Ctxs : UpdateParameter(x)) \/ Stop \/ UNCHANGED vars
  <2>1. UNCHANGED <<ipCount, pc, sess>>
    BY <1>15 DEF SetConf, SnapshotActions, UpdateParameter, Stop, vars, connVars
  <2> QED
    BY <2>1 DEF IpStep, OnIp
<1> QED
  BY Zenon, <1>1, <1>2, <1>3, <1>4, <1>5, <1>6, <1>7, <1>8, <1>9, <1>10, <1>11, <1>12, <1>13, <1>14, <1>15 DEF Next, ConnStep, CloserStep, CloserProgress, UpdaterProgress, Start

LEMMA Enters ==
    ASSUME Shape, NEW c \in Conns, AddIpConnCount(c)
    PROVE  /\ sess[c].ip \in Ips
           /\ \A i \in Ips : i = sess[c].ip =>
                 Cardinality(OnIp(i)') = Cardinality(OnIp(i)) + 1
           /\ \A i \in Ips : i # sess[c].ip => OnIp(i)' = OnIp(i)
<1>1. sess[c].ip \in Ips
  BY SessionKeys DEF AddIpConnCount, Shape
<1>2. /\ \A i \in Ips : i = sess[c].ip =>
            OnIp(i)' = OnIp(i) \cup {c} /\ c \notin OnIp(i)
      /\ \A i \in Ips : i # sess[c].ip => OnIp(i)' = OnIp(i)
  BY DEF AddIpConnCount, Goto, Shape, Stages, OnIp, Counted
<1> QED
  BY <1>1, <1>2, Added DEF OnIp

LEMMA Exits ==
    ASSUME Shape, NEW c \in Conns, ReduceIpConnCount(c)
    PROVE  /\ sess[c].ip \in Ips
           /\ \A i \in Ips : i = sess[c].ip =>
                 Cardinality(OnIp(i)') = Cardinality(OnIp(i)) - 1
           /\ \A i \in Ips : i # sess[c].ip => OnIp(i)' = OnIp(i)
<1>1. sess[c].ip \in Ips
  BY SessionKeys DEF ReduceIpConnCount, Shape
<1>2. /\ \A i \in Ips : i = sess[c].ip =>
            OnIp(i)' = OnIp(i) \ {c} /\ c \in OnIp(i)
      /\ \A i \in Ips : i # sess[c].ip => OnIp(i)' = OnIp(i)
  BY DEF ReduceIpConnCount, Return, Goto, Shape, Stages, OnIp, Counted
<1> QED
  BY <1>1, <1>2, Removed DEF OnIp

IpExact == ipCount \in [Ips -> Int] /\ IpCountExact

LEMMA IpInvariant == Spec => []IpExact
<1>1. Init => IpExact
  <2> SUFFICES ASSUME Init PROVE IpExact
    OBVIOUS
  <2>1. \A i \in Ips : OnIp(i) = {}
    BY DEF Init, OnIp, Counted
  <2>2. \A i \in Ips : Cardinality(OnIp(i)) = 0
    BY <2>1, FS_EmptySet
  <2> QED
    BY <2>2 DEF Init, IpExact, IpCountExact
<1>2. Shape /\ IpExact /\ [Next]_vars => IpExact'
  <2> SUFFICES ASSUME Shape, IpExact, IpStep PROVE IpExact'
    BY IpSteps
  <2>1. CASE ipCount' = ipCount /\ \A i \in Ips : OnIp(i)' = OnIp(i)
    BY <2>1 DEF IpExact, IpCountExact
  <2>2. ASSUME NEW c \in Conns, AddIpConnCount(c) PROVE IpExact'
    <3>1. ipCount' = [ipCount EXCEPT ![sess[c].ip] = ipCount[sess[c].ip] + 1]
      BY <2>2 DEF AddIpConnCount
    <3> QED
      BY <2>2, <3>1, Enters DEF IpExact, IpCountExact
  <2>3. ASSUME NEW c \in Conns, ReduceIpConnCount(c) PROVE IpExact'
    <3>1. ipCount' = [ipCount EXCEPT ![sess[c].ip] = ipCount[sess[c].ip] - 1]
      BY <2>3 DEF ReduceIpConnCount
    <3> QED
      BY <2>3, <3>1, Exits DEF IpExact, IpCountExact
  <2> QED
    BY <2>1, <2>2, <2>3 DEF IpStep
<1> QED
  BY <1>1, <1>2, ShapeInvariant, PTL DEF Spec

(* The entry of an exit ip is the number of handlers that have passed      *)
(* AddIpConnCount and not yet ReduceIpConnCount.                           *)
THEOREM IpCounts == Spec => []IpCountExact
<1>1. IpExact => IpCountExact
  BY DEF IpExact
<1> QED
  BY <1>1, IpInvariant, PTL

(* Another handler gets in only while fewer than OneIpMaxConn are there.   *)
THEOREM LimitHolds == Spec => AdmissionWithinLimit
<1>1. Shape /\ IpExact /\ [Next]_vars => [AdmittedWithinLimit]_vars
  <2> SUFFICES ASSUME Shape, IpExact, IpStep, NEW i \in Ips,
                      Cardinality(OnIp(i)') > Cardinality(OnIp(i))
               PROVE  \/ conf.OneIpMaxConn = 0
                      \/ OnIp(i) = {}
                      \/ Cardinality(OnIp(i)') <= conf.OneIpMaxConn
    BY IpSteps DEF AdmittedWithinLimit
  <2>1. OnIp(i) \in SUBSET Conns
    BY DEF OnIp
  <2>2. OnIp(i)' # OnIp(i)
    BY <2>1, Sizes
  <2>3. ASSUME NEW c \in Conns, ReduceIpConnCount(c) PROVE FALSE
    BY <2>1, <2>2, <2>3, Exits, Sizes
  <2>4. PICK c \in Conns : AddIpConnCount(c)
    BY <2>2, <2>3 DEF IpStep
  <2>5. i = sess[c].ip /\ Cardinality(OnIp(i)') = Cardinality(OnIp(i)) + 1
    BY <2>2, <2>4, Enters
  <2>6. MayEnter(i) /\ ipCount[i] = Cardinality(OnIp(i)) /\ Cardinality(OnIp(i)) \in Nat
    BY <2>1, <2>4, <2>5, Sizes DEF AddIpConnCount, IpExact, IpCountExact
  <2>7. conf.OneIpMaxConn \in Nat
    BY RegistryAssumption DEF Shape
  <2> QED
    BY <2>1, <2>5, <2>6, <2>7, Sizes DEF MayEnter
<1> QED
  BY <1>1, ShapeInvariant, IpInvariant, PTL DEF Spec, AdmissionWithinLimit

=============================================================================
