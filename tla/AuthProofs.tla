----------------------------- MODULE AuthProofs -----------------------------
(***************************************************************************)
(* Proofs about who is served: Auth, for any numbers of users, calls,      *)
(* events and sessions, and RabbitConsumer, which brings the events, for   *)
(* any numbers of channels, connections, messages, faults and generations. *)
(***************************************************************************)
EXTENDS Auth, RabbitConsumer, TLAPS

(* Which provers a leaf is given to, and for how long. *)
USE ZenonT(3), SMTT(30), ZenonT(30)

-----------------------------------------------------------------------------
(* How old a cached record can be.                                         *)
Staleness ==
    /\ now \in Nat /\ quiet \in [Keys -> Nat]
    /\ DOMAIN store = Keys /\ DOMAIN cache = Keys
    /\ DOMAIN key = Calls /\ DOMAIN rec = Calls
    /\ DOMAIN fresh = Calls /\ DOMAIN call = Calls
    /\ \A c \in Calls : call[c] \in {"fetch", "check"} => key[c] \in Keys
    /\ \A k \in Keys :
          /\ quiet[k] <= now
          /\ StaleHolder(k) => quiet[k] = now
          /\ cache[k] # none =>
                /\ cache[k].exp \in Nat
                /\ cache[k].exp <= now + AuthTtl
                /\ cache[k].rec # store[k] => cache[k].exp <= quiet[k] + AuthTtl

LEMMA StalenessInvariant == Spec => []Staleness
<1>1. Init => Staleness
  BY AuthAssumption DEF Init, Staleness, StaleHolder
<1>2. Staleness /\ [Next]_vars => Staleness'
<2> SUFFICES ASSUME Staleness, [Next]_vars PROVE Staleness'
  OBVIOUS
<2> USE AuthAssumption
<2>1. ASSUME NEW c \in Calls, NEW k \in Keys, Lookup(c, k) PROVE Staleness'
  BY <2>1 DEF Staleness, StaleHolder, Lookup, Goto, Cached, staticVars, eventVars, segVars, dynVars
<2>2. ASSUME NEW c \in Calls, Fetch(c) PROVE Staleness'
  BY <2>2 DEF Staleness, StaleHolder, Fetch, Goto, Return, staticVars, eventVars, segVars, dynVars
<2>3. ASSUME NEW c \in Calls, NEW r \in Requests, Check(c, r) PROVE Staleness'
  BY <2>3 DEF Staleness, StaleHolder, Check, Goto, Return, staticVars, eventVars, segVars, dynVars
<2>4. ASSUME NEW c \in Calls, NEW s \in Sessions, NEW t \in Cities \cup {none}, NEW l \in Lives, BeginDynamic(c, s, t, l) PROVE Staleness'
  BY <2>4 DEF Staleness, StaleHolder, BeginDynamic, DynLeaves, Goto, staticVars, eventVars, segVars, dynVars
<2>5. ASSUME NEW c \in Calls, GetSession(c) PROVE Staleness'
  BY <2>5 DEF Staleness, StaleHolder, GetSession, DynLeaves, Goto, staticVars, eventVars, segVars, dynVars
<2>6. ASSUME NEW c \in Calls, ChooseAddress(c) PROVE Staleness'
  BY <2>6 DEF Staleness, StaleHolder, ChooseAddress, EndDynamic, DynLeaves, Goto, staticVars, eventVars, segVars, dynVars
<2>7. ASSUME NEW c \in Calls, SaveAddress(c) PROVE Staleness'
  BY <2>7 DEF Staleness, StaleHolder, SaveAddress, DynLeaves, Goto, staticVars, eventVars, segVars, dynVars
<2>8. ASSUME NEW c \in Calls, ReturnAddress(c) PROVE Staleness'
  BY <2>8 DEF Staleness, StaleHolder, ReturnAddress, EndDynamic, DynLeaves, Goto, staticVars, eventVars, segVars, dynVars
<2>9. ASSUME NEW k \in Keys, DeleteUserData(k) PROVE Staleness'
  BY <2>9 DEF Staleness, StaleHolder, DeleteUserData, Write, EventLeaves, staticVars, eventVars, segVars, dynVars
<2>10. ASSUME NEW k \in Keys, NEW r \in Records, SetUserData(k, r) PROVE Staleness'
  BY <2>10 DEF Staleness, StaleHolder, SetUserData, Write, EventLeaves, staticVars, eventVars, segVars, dynVars
<2>11. ASSUME NEW k \in Keys, NEW r \in Records, BanUserData(k, r) PROVE Staleness'
  BY <2>11 DEF Staleness, StaleHolder, BanUserData, Write, EventLeaves, staticVars, eventVars, segVars, dynVars
<2>12. ASSUME NEW w \in Workers, NEW U \in SUBSET Users, BeginBatch(w, U) PROVE Staleness'
  BY <2>12 DEF Staleness, StaleHolder, BeginBatch, EventLeaves, staticVars, eventVars, segVars, dynVars
<2>13. ASSUME NEW w \in Workers, NEW k \in Users, NEW r \in Records, BatchStep(w, k, r) PROVE Staleness'
  BY <2>13 DEF Staleness, StaleHolder, BatchStep, Write, EventLeaves, Keys, staticVars, eventVars, segVars, dynVars
<2>14. ASSUME NEW w \in Workers, NEW k \in Users, NEW r \in Records, AddGet(w, k, r) PROVE Staleness'
  BY <2>14 DEF Staleness, StaleHolder, AddGet, EventLeaves, staticVars, eventVars, segVars, dynVars
<2>15. ASSUME NEW w \in Workers, AddSet(w) PROVE Staleness'
  BY <2>15 DEF Staleness, StaleHolder, AddSet, EndAdd, Write, EventLeaves, Keys, staticVars, eventVars, segVars, dynVars
<2>16. ASSUME NEW t \in Cities, NEW g \in Segs, SEOData(t, g) PROVE Staleness'
  BY <2>16 DEF Staleness, StaleHolder, SEOData, staticVars, eventVars, segVars, dynVars
<2>17. ASSUME Tick PROVE Staleness'
  BY <2>17 DEF Staleness, StaleHolder, Tick, staticVars, eventVars, segVars, dynVars
<2>18. CASE UNCHANGED vars
  BY <2>18 DEF Staleness, StaleHolder, vars, staticVars, eventVars, segVars, dynVars
<2> QED
  BY <2>1, <2>2, <2>3, <2>4, <2>5, <2>6, <2>7, <2>8, <2>9, <2>10, <2>11, <2>12, <2>13, <2>14, <2>15, <2>16, <2>17, <2>18 DEF Next, CallStep, EventStep
<1> QED
  BY <1>1, <1>2, PTL DEF Spec

(* A record that was replaced, banned or deleted is not served from the    *)
(* cache for more than AuthTtl: StaleBounded.                              *)
THEOREM StaleTtl == Spec => []StaleBounded
<1>1. Staleness => StaleBounded
  BY AuthAssumption DEF Staleness, StaleBounded, Cached
<1> QED
  BY <1>1, StalenessInvariant, PTL

-----------------------------------------------------------------------------
(* What a call that was promised the session's address will return.        *)
Promises ==
    /\ DOMAIN address = Sessions
    /\ DOMAIN call = Calls /\ DOMAIN session = Calls
    /\ DOMAIN exitIp = Calls /\ DOMAIN promise = Calls
    /\ \A c \in Calls :
          /\ call[c] \in {"session", "seg", "save", "return"} => session[c] \in Sessions
          /\ promise[c] # none => call[c] \in {"session", "return"}
          /\ call[c] = "return" /\ promise[c] # none => exitIp[c] = promise[c]
          /\ call[c] = "session" /\ promise[c] # none =>
                /\ address[session[c]] # none
                /\ address[session[c]].ip = promise[c]
                /\ ~Choosing(session[c])

LEMMA PromisesInvariant == Spec => []Promises
<1>1. Init => Promises
  BY DEF Init, Promises, EarlierAddresses
<1>2. Promises /\ [Next]_vars => Promises'
<2> SUFFICES ASSUME Promises, [Next]_vars PROVE Promises'
  OBVIOUS
<2> USE AuthAssumption
<2>1. ASSUME NEW c \in Calls, NEW k \in Keys, Lookup(c, k) PROVE Promises'
  BY <2>1 DEF Promises, Choosing, Lookup, Goto, Cached, staticVars, eventVars, segVars, dynVars
<2>2. ASSUME NEW c \in Calls, Fetch(c) PROVE Promises'
  BY <2>2 DEF Promises, Choosing, Fetch, Goto, Return, staticVars, eventVars, segVars, dynVars
<2>3. ASSUME NEW c \in Calls, NEW r \in Requests, Check(c, r) PROVE Promises'
  BY <2>3 DEF Promises, Choosing, Check, Goto, Return, staticVars, eventVars, segVars, dynVars
<2>4. ASSUME NEW c \in Calls, NEW s \in Sessions, NEW t \in Cities \cup {none}, NEW l \in Lives, BeginDynamic(c, s, t, l) PROVE Promises'
  BY <2>4 DEF Promises, Choosing, BeginDynamic, DynLeaves, Goto, staticVars, eventVars, segVars, dynVars
<2>5. ASSUME NEW c \in Calls, GetSession(c) PROVE Promises'
  BY <2>5 DEF Promises, Choosing, GetSession, DynLeaves, Goto, staticVars, eventVars, segVars, dynVars
<2>6. ASSUME NEW c \in Calls, ChooseAddress(c) PROVE Promises'
  BY <2>6 DEF Promises, Choosing, ChooseAddress, EndDynamic, DynLeaves, Goto, staticVars, eventVars, segVars, dynVars
<2>7. ASSUME NEW c \in Calls, SaveAddress(c) PROVE Promises'
  BY <2>7 DEF Promises, Choosing, SaveAddress, DynLeaves, Goto, staticVars, eventVars, segVars, dynVars
<2>8. ASSUME NEW c \in Calls, ReturnAddress(c) PROVE Promises'
  BY <2>8 DEF Promises, Choosing, ReturnAddress, EndDynamic, DynLeaves, Goto, staticVars, eventVars, segVars, dynVars
<2>9. ASSUME NEW k \in Keys, DeleteUserData(k) PROVE Promises'
  BY <2>9 DEF Promises, Choosing, DeleteUserData, Write, EventLeaves, staticVars, eventVars, segVars, dynVars
<2>10. ASSUME NEW k \in Keys, NEW r \in Records, SetUserData(k, r) PROVE Promises'
  BY <2>10 DEF Promises, Choosing, SetUserData, Write, EventLeaves, staticVars, eventVars, segVars, dynVars
<2>11. ASSUME NEW k \in Keys, NEW r \in Records, BanUserData(k, r) PROVE Promises'
  BY <2>11 DEF Promises, Choosing, BanUserData, Write, EventLeaves, staticVars, eventVars, segVars, dynVars
<2>12. ASSUME NEW w \in Workers, NEW U \in SUBSET Users, BeginBatch(w, U) PROVE Promises'
  BY <2>12 DEF Promises, Choosing, BeginBatch, EventLeaves, staticVars, eventVars, segVars, dynVars
<2>13. ASSUME NEW w \in Workers, NEW k \in Users, NEW r \in Records, BatchStep(w, k, r) PROVE Promises'
  BY <2>13 DEF Promises, Choosing, BatchStep, Write, EventLeaves, staticVars, eventVars, segVars, dynVars
<2>14. ASSUME NEW w \in Workers, NEW k \in Users, NEW r \in Records, AddGet(w, k, r) PROVE Promises'
  BY <2>14 DEF Promises, Choosing, AddGet, EventLeaves, staticVars, eventVars, segVars, dynVars
<2>15. ASSUME NEW w \in Workers, AddSet(w) PROVE Promises'
  BY <2>15 DEF Promises, Choosing, AddSet, EndAdd, Write, EventLeaves, staticVars, eventVars, segVars, dynVars
<2>16. ASSUME NEW t \in Cities, NEW g \in Segs, SEOData(t, g) PROVE Promises'
  BY <2>16 DEF Promises, Choosing, SEOData, staticVars, eventVars, segVars, dynVars
<2>17. ASSUME Tick PROVE Promises'
  <3>1. ASSUME NEW s \in Sessions, address'[s] # none PROVE address'[s] = address[s]
    BY <2>17, <3>1 DEF Tick
  <3>2. ASSUME NEW c \in Calls, promise'[c] # none
        PROVE  /\ promise'[c] = promise[c]
               /\ session[c] # none => address'[session[c]] # none
    BY <2>17, <3>2 DEF Tick, Promises
  <3>4. DOMAIN address' = Sessions /\ DOMAIN promise' = Calls
    BY <2>17 DEF Tick
  <3>5. UNCHANGED <<call, session, exitIp>>
    BY <2>17 DEF Tick
  <3> QED
    BY <3>1, <3>2, <3>4, <3>5 DEF Promises, Choosing
<2>18. CASE UNCHANGED vars
  BY <2>18 DEF Promises, Choosing, vars, staticVars, eventVars, segVars, dynVars
<2> QED
  BY <2>1, <2>2, <2>3, <2>4, <2>5, <2>6, <2>7, <2>8, <2>9, <2>10, <2>11, <2>12, <2>13, <2>14, <2>15, <2>16, <2>17, <2>18 DEF Next, CallStep, EventStep
<1> QED
  BY <1>1, <1>2, PTL DEF Spec

(* A dynamic session keeps its address: SessionSticky. *)
THEOREM StickySessions == Spec => []SessionSticky
<1>1. Promises => SessionSticky
  BY DEF Promises, SessionSticky
<1> QED
  BY <1>1, PromisesInvariant, PTL

-----------------------------------------------------------------------------
(* What an AddUserData between its Get and its Set holds.                  *)
Merging ==
    /\ DOMAIN store = Keys
    /\ DOMAIN worker = Workers /\ DOMAIN todo = Workers /\ DOMAIN info = Workers
    /\ DOMAIN saved = Workers /\ DOMAIN raced = Workers
    /\ \A k \in Keys : store[k] \in Records \cup {none}
    /\ \A w \in Workers :
          worker[w] = "merge" =>
             /\ \E k \in Users : todo[w] = {k}
             /\ info[w] \in Records
             /\ saved[w] \in Records \cup {none}
             /\ \A k \in todo[w] : ~raced[w] => saved[w] = store[k]

(* A write to a record marks the events that had read it. *)
LEMMA WriteKeeps ==
    ASSUME Merging, NEW k \in Keys, NEW r \in Records \cup {none},
           store' = [store EXCEPT ![k] = r], raced' = RaceOn(k),
           UNCHANGED <<worker, todo, info, saved>>
    PROVE  Merging'
<1>1. DOMAIN raced' = Workers
      /\ \A v \in Workers : ~raced'[v] => ~raced[v] /\ ~(worker[v] = "merge" /\ k \in todo[v])
  BY Zenon DEF RaceOn
<1> QED
  BY <1>1 DEF Merging

LEMMA MergingInvariant == Spec => []Merging
<1>1. Init => Merging
  BY DEF Init, Merging
<1>2. Merging /\ [Next]_vars => Merging'
<2> SUFFICES ASSUME Merging, [Next]_vars PROVE Merging'
  OBVIOUS
<2> USE AuthAssumption
<2>1. ASSUME NEW c \in Calls, NEW k \in Keys, Lookup(c, k) PROVE Merging'
  BY <2>1 DEF Merging, Lookup, Goto, Cached, staticVars, eventVars, segVars, dynVars
<2>2. ASSUME NEW c \in Calls, Fetch(c) PROVE Merging'
  BY <2>2 DEF Merging, Fetch, Goto, Return, staticVars, eventVars, segVars, dynVars
<2>3. ASSUME NEW c \in Calls, NEW r \in Requests, Check(c, r) PROVE Merging'
  BY <2>3 DEF Merging, Check, Goto, Return, staticVars, eventVars, segVars, dynVars
<2>4. ASSUME NEW c \in Calls, NEW s \in Sessions, NEW t \in Cities \cup {none}, NEW l \in Lives, BeginDynamic(c, s, t, l) PROVE Merging'
  BY <2>4 DEF Merging, BeginDynamic, DynLeaves, Goto, staticVars, eventVars, segVars, dynVars
<2>5. ASSUME NEW c \in Calls, GetSession(c) PROVE Merging'
  BY <2>5 DEF Merging, GetSession, DynLeaves, Goto, staticVars, eventVars, segVars, dynVars
<2>6. ASSUME NEW c \in Calls, ChooseAddress(c) PROVE Merging'
  BY <2>6 DEF Merging, ChooseAddress, EndDynamic, DynLeaves, Goto, staticVars, eventVars, segVars, dynVars
<2>7. ASSUME NEW c \in Calls, SaveAddress(c) PROVE Merging'
  BY <2>7 DEF Merging, SaveAddress, DynLeaves, Goto, staticVars, eventVars, segVars, dynVars
<2>8. ASSUME NEW c \in Calls, ReturnAddress(c) PROVE Merging'
  BY <2>8 DEF Merging, ReturnAddress, EndDynamic, DynLeaves, Goto, staticVars, eventVars, segVars, dynVars
<2>9. ASSUME NEW k \in Keys, DeleteUserData(k) PROVE Merging'
  <3>1. UNCHANGED <<worker, todo, info, saved>> /\ raced' = RaceOn(k)
    BY <2>9 DEF DeleteUserData, eventVars
  <3>2. store' = [store EXCEPT ![k] = none] /\ none \in Records \cup {none}
    BY <2>9 DEF DeleteUserData, Write, Records
  <3> QED
    BY Zenon, <3>1, <3>2, WriteKeeps
<2>10. ASSUME NEW k \in Keys, NEW r \in Records, SetUserData(k, r) PROVE Merging'
  <3>1. UNCHANGED <<worker, todo, info, saved>> /\ raced' = RaceOn(k)
    BY <2>10 DEF SetUserData, eventVars
  <3>2. store' = [store EXCEPT ![k] = r] /\ r \in Records \cup {none}
    BY <2>10 DEF SetUserData, Write, Records
  <3> QED
    BY Zenon, <3>1, <3>2, WriteKeeps
<2>11. ASSUME NEW k \in Keys, NEW r \in Records, BanUserData(k, r) PROVE Merging'
  <3>1. UNCHANGED <<worker, todo, info, saved>> /\ raced' = RaceOn(k)
    BY <2>11 DEF BanUserData, eventVars
  <3>2. store' = [store EXCEPT ![k] = [r EXCEPT !.banned = TRUE]] /\ [r EXCEPT !.banned = TRUE] \in Records \cup {none}
    BY Zenon, <2>11 DEF BanUserData, Write, Records
  <3> QED
    BY Zenon, <3>1, <3>2, WriteKeeps
<2>12. ASSUME NEW w \in Workers, NEW U \in SUBSET Users, BeginBatch(w, U) PROVE Merging'
  BY <2>12 DEF Merging, BeginBatch, EventLeaves, staticVars, eventVars, segVars, dynVars
<2>13. ASSUME NEW w \in Workers, NEW k \in Users, NEW r \in Records, BatchStep(w, k, r) PROVE Merging'
  <3>1. CASE Write(k, BatchRecord(w, r)) /\ raced' = RaceOn(k)
    <4>1. BatchRecord(w, r) \in Records \cup {none}
      BY Zenon, <2>13 DEF BatchStep, BatchRecord, Records
    <4>2. worker[w] # "merge" /\ worker'[w] # "merge"
      BY <2>13 DEF BatchStep, Merging
    <4>3. \A v \in Workers \ {w} : worker'[v] = worker[v] /\ todo'[v] = todo[v]
      BY <2>13 DEF BatchStep, Merging
    <4>4. /\ DOMAIN worker' = Workers /\ DOMAIN todo' = Workers
          /\ info' = info /\ saved' = saved
      BY <2>13 DEF BatchStep, Merging
    <4>5. store' = [store EXCEPT ![k] = BatchRecord(w, r)] /\ k \in Keys
      BY <3>1 DEF Write, Keys
    <4>6. DOMAIN raced' = Workers
          /\ \A v \in Workers : ~raced'[v] => ~raced[v] /\ ~(worker[v] = "merge" /\ k \in todo[v])
      BY <3>1, Zenon DEF RaceOn
    <4> QED
      BY <4>1, <4>2, <4>3, <4>4, <4>5, <4>6 DEF Merging
  <3>2. CASE UNCHANGED <<store, raced, writes, quiet>>
    BY <2>13, <3>2 DEF BatchStep, Merging, EventLeaves
  <3> QED
    BY <2>13, <3>1, <3>2 DEF BatchStep
<2>14. ASSUME NEW w \in Workers, NEW k \in Users, NEW r \in Records, AddGet(w, k, r) PROVE Merging'
  <3>1. worker'[w] = "merge" /\ todo'[w] = {k} /\ info'[w] = r
    BY <2>14 DEF AddGet, Merging
  <3>2. saved'[w] \in Records \cup {none} /\ (~raced'[w] => saved'[w] = store[k])
    BY Zenon, <2>14 DEF AddGet, Merging, Keys
  <3>3. \A v \in Workers \ {w} : /\ worker'[v] = worker[v] /\ todo'[v] = todo[v]
                                 /\ info'[v] = info[v] /\ saved'[v] = saved[v]
                                 /\ raced'[v] = raced[v]
    BY <2>14 DEF AddGet, Merging
  <3>4. /\ DOMAIN worker' = Workers /\ DOMAIN todo' = Workers /\ DOMAIN info' = Workers
        /\ DOMAIN saved' = Workers /\ DOMAIN raced' = Workers /\ store' = store
    BY <2>14 DEF AddGet, Merging
  <3> QED
    BY <3>1, <3>2, <3>3, <3>4 DEF Merging
<2>15. ASSUME NEW w \in Workers, AddSet(w) PROVE Merging'
  <3>1. /\ worker'[w] # "merge"
        /\ \A v \in Workers \ {w} : /\ worker'[v] = worker[v] /\ todo'[v] = todo[v]
                                   /\ info'[v] = info[v] /\ saved'[v] = saved[v]
    BY <2>15 DEF AddSet, EndAdd, Merging
  <3>2. /\ DOMAIN worker' = Workers /\ DOMAIN todo' = Workers
        /\ DOMAIN info' = Workers /\ DOMAIN saved' = Workers
    BY <2>15 DEF AddSet, EndAdd, Merging
  <3>3. CASE UNCHANGED store /\ (UNCHANGED raced \/ raced' = [raced EXCEPT ![w] = FALSE])
    BY <3>1, <3>2, <3>3 DEF Merging
  <3>4. ASSUME NEW k \in todo[w], Write(k, Merged(w)),
               raced' = [RaceOn(k) EXCEPT ![w] = FALSE]
        PROVE  Merging'
    <4>1. k \in Keys /\ Merged(w) \in Records
      BY <2>15, <3>4 DEF AddSet, Merging, Merged, Records, Keys
    <4>2. store' = [store EXCEPT ![k] = Merged(w)]
      BY <3>4 DEF Write
    <4>3. DOMAIN RaceOn(k) = Workers
          /\ \A v \in Workers : ~RaceOn(k)[v] => ~raced[v] /\ ~(worker[v] = "merge" /\ k \in todo[v])
      BY Zenon DEF RaceOn
    <4>4. DOMAIN raced' = Workers /\ \A v \in Workers \ {w} : raced'[v] = RaceOn(k)[v]
      BY <3>4, <4>3
    <4> QED
      BY <3>1, <3>2, <4>1, <4>2, <4>3, <4>4 DEF Merging
  <3> QED
    BY <2>15, <3>3, <3>4 DEF AddSet
<2>16. ASSUME NEW t \in Cities, NEW g \in Segs, SEOData(t, g) PROVE Merging'
  BY <2>16 DEF Merging, SEOData, staticVars, eventVars, segVars, dynVars
<2>17. ASSUME Tick PROVE Merging'
  BY <2>17 DEF Merging, Tick, staticVars, eventVars, segVars, dynVars
<2>18. CASE UNCHANGED vars
  BY <2>18 DEF Merging, vars, staticVars, eventVars, segVars, dynVars
<2> QED
  BY <2>1, <2>2, <2>3, <2>4, <2>5, <2>6, <2>7, <2>8, <2>9, <2>10, <2>11, <2>12, <2>13, <2>14, <2>15, <2>16, <2>17, <2>18 DEF Next, CallStep, EventStep
<1> QED
  BY <1>1, <1>2, PTL DEF Spec

(* AddUserData only ever adds to the stored record: AddKeepsRecord. *)
THEOREM AddOnlyAdds == Spec => AddKeepsRecord
<1>1. ASSUME Merging, [Next]_vars, NEW v \in Workers, NEW q \in Users PROVE AddKeeps(v, q)
<2> USE <1>1, AuthAssumption
<2>1. ASSUME NEW c \in Calls, NEW k \in Keys, Lookup(c, k) PROVE AddKeeps(v, q)
  BY <2>1 DEF AddKeeps, Merging, Lookup, Cached, staticVars, eventVars, segVars, dynVars
<2>2. ASSUME NEW c \in Calls, Fetch(c) PROVE AddKeeps(v, q)
  BY <2>2 DEF AddKeeps, Merging, Fetch, staticVars, eventVars, segVars, dynVars
<2>3. ASSUME NEW c \in Calls, NEW r \in Requests, Check(c, r) PROVE AddKeeps(v, q)
  BY Zenon, <2>3 DEF AddKeeps, Merging, Check, staticVars, eventVars, segVars, dynVars
<2>4. ASSUME NEW c \in Calls, NEW s \in Sessions, NEW t \in Cities \cup {none}, NEW l \in Lives, BeginDynamic(c, s, t, l) PROVE AddKeeps(v, q)
  BY <2>4 DEF AddKeeps, Merging, BeginDynamic, DynLeaves, staticVars, eventVars, segVars, dynVars
<2>5. ASSUME NEW c \in Calls, GetSession(c) PROVE AddKeeps(v, q)
  BY <2>5 DEF AddKeeps, Merging, GetSession, DynLeaves, staticVars, eventVars, segVars, dynVars
<2>6. ASSUME NEW c \in Calls, ChooseAddress(c) PROVE AddKeeps(v, q)
  BY <2>6 DEF AddKeeps, Merging, ChooseAddress, DynLeaves, staticVars, eventVars, segVars, dynVars
<2>7. ASSUME NEW c \in Calls, SaveAddress(c) PROVE AddKeeps(v, q)
  BY <2>7 DEF AddKeeps, Merging, SaveAddress, DynLeaves, staticVars, eventVars, segVars, dynVars
<2>8. ASSUME NEW c \in Calls, ReturnAddress(c) PROVE AddKeeps(v, q)
  BY <2>8 DEF AddKeeps, Merging, ReturnAddress, DynLeaves, staticVars, eventVars, segVars, dynVars
<2>9. ASSUME NEW k \in Keys, DeleteUserData(k) PROVE AddKeeps(v, q)
  BY <2>9 DEF AddKeeps, Merging, DeleteUserData, EventLeaves, staticVars, eventVars, segVars, dynVars
<2>10. ASSUME NEW k \in Keys, NEW r \in Records, SetUserData(k, r) PROVE AddKeeps(v, q)
  BY <2>10 DEF AddKeeps, Merging, SetUserData, EventLeaves, staticVars, eventVars, segVars, dynVars
<2>11. ASSUME NEW k \in Keys, NEW r \in Records, BanUserData(k, r) PROVE AddKeeps(v, q)
  BY <2>11 DEF AddKeeps, Merging, BanUserData, EventLeaves, staticVars, eventVars, segVars, dynVars
<2>12. ASSUME NEW w \in Workers, NEW U \in SUBSET Users, BeginBatch(w, U) PROVE AddKeeps(v, q)
  BY <2>12 DEF AddKeeps, Merging, BeginBatch, EventLeaves, staticVars, eventVars, segVars, dynVars
<2>13. ASSUME NEW w \in Workers, NEW k \in Users, NEW r \in Records, BatchStep(w, k, r) PROVE AddKeeps(v, q)
  BY <2>13 DEF AddKeeps, Merging, BatchStep, EventLeaves, staticVars, eventVars, segVars, dynVars
<2>14. ASSUME NEW w \in Workers, NEW k \in Users, NEW r \in Records, AddGet(w, k, r) PROVE AddKeeps(v, q)
  BY <2>14 DEF AddKeeps, Merging, AddGet, EventLeaves, staticVars, eventVars, segVars, dynVars
<2>15. ASSUME NEW w \in Workers, AddSet(w) PROVE AddKeeps(v, q)
  <3>1. CASE v # w
    BY <2>15, <3>1 DEF AddKeeps, AddSet, EndAdd, Merging
  <3>2. CASE v = w /\ UNCHANGED store
    BY <3>2 DEF AddKeeps, Merging, Keys, Records
  <3>3. ASSUME v = w, NEW k \in todo[w], Write(k, Merged(w)) PROVE AddKeeps(v, q)
    <4>1. SUFFICES ASSUME worker[v] = "merge", q \in todo[v], ~raced[v], store[q] # none
                   PROVE  /\ store'[q] # none
                          /\ store[q].ips \subseteq store'[q].ips
                          /\ store'[q].pwd = store[q].pwd
      BY DEF AddKeeps
    <4>2. k = q /\ saved[v] = store[q] /\ q \in Keys
      BY <3>3, <4>1 DEF Merging, Keys
    <4>3. store[q] \in Records /\ info[v] \in Records
      BY <4>1, <4>2 DEF Merging
    <4>4. store'[q] = [store[q] EXCEPT !.ips = @ \cup info[v].ips]
      BY <3>3, <4>1, <4>2 DEF Write, Merged, Merging
    <4> QED
      BY <4>3, <4>4 DEF Records
  <3> QED
    BY <2>15, <3>1, <3>2, <3>3 DEF AddSet
<2>16. ASSUME NEW t \in Cities, NEW g \in Segs, SEOData(t, g) PROVE AddKeeps(v, q)
  BY <2>16 DEF AddKeeps, Merging, SEOData, staticVars, eventVars, segVars, dynVars
<2>17. ASSUME Tick PROVE AddKeeps(v, q)
  BY <2>17 DEF AddKeeps, Merging, Tick, staticVars, eventVars, segVars, dynVars
<2>18. CASE UNCHANGED vars
  BY <2>18 DEF AddKeeps, vars, eventVars
<2> QED
  BY <2>1, <2>2, <2>3, <2>4, <2>5, <2>6, <2>7, <2>8, <2>9, <2>10, <2>11, <2>12, <2>13, <2>14, <2>15, <2>16, <2>17, <2>18 DEF Next, CallStep, EventStep
<1>2. Merging /\ [Next]_vars => [\A w \in Workers, k \in Users : AddKeeps(w, k)]_vars
  BY <1>1
<1> QED
  BY <1>2, MergingInvariant, PTL DEF Spec, AddKeepsRecord

-----------------------------------------------------------------------------
(* The consumers of the pool.                                              *)

(* Until the first generation starts nobody can report; afterwards the     *)
(* pool is not empty when the next one starts; RunConsume reconnects with  *)
(* status set, and statusLock is only held while it is not.                *)
Hearing ==
    /\ gen \in Nat /\ pool \in Nat
    /\ DOMAIN task = Tasks /\ DOMAIN listener = Listeners
    /\ loop \in {"connect", "start", "wait", "lock", "sleep", "dial", "release"}
    /\ status \in BOOLEAN
    /\ loop = "connect" => gen = 0
    /\ gen = 0 => /\ \A t \in Tasks : task[t] = "none"
                  /\ \A g \in Listeners : listener[g] = "none"
                  /\ lock = null
    /\ gen > 0 /\ loop = "start" => pool > 0
    /\ loop = "release" => pool > 0
    /\ loop \in {"connect", "start", "wait"} => ~status
    /\ gen > 0 /\ loop \in {"sleep", "dial", "release"} => status
    /\ loop = "lock" => status
    /\ lock # null => loop \in {"start", "wait"}

LEMMA HearingInvariant == SpecConsumer => []Hearing
<1> USE RabbitAssumption
<1>1. InitConsumer => Hearing
<2> SUFFICES ASSUME InitConsumer PROVE Hearing
  OBVIOUS
<2>1. loop = "connect" /\ gen = 0 /\ pool = 0 /\ status = FALSE /\ lock = null
  BY DEF InitConsumer
<2>2. /\ DOMAIN task = Tasks /\ \A t \in Tasks : task[t] = "none"
      /\ DOMAIN listener = Listeners /\ \A g \in Listeners : listener[g] = "none"
  BY DEF InitConsumer
<2> QED
  BY <2>1, <2>2 DEF Hearing
<1>2. Hearing /\ [NextConsumer]_consumerVars => Hearing'
<2> SUFFICES ASSUME Hearing, [NextConsumer]_consumerVars PROVE Hearing'
  OBVIOUS
<2>1. CASE Connect
  BY <2>1 DEF Hearing, Connect, LoopLeaves, loopVars, lockVars, taskVars, countVars, brokerVars
<2>2. CASE Start
  BY <2>2 DEF Hearing, Start, loopVars, lockVars, taskVars, countVars, brokerVars
<2>3. CASE Lock
  BY <2>3 DEF Hearing, Lock, LoopLeaves, loopVars, lockVars, taskVars, countVars, brokerVars
<2>4. CASE Probe
  BY <2>4 DEF Hearing, Probe, LoopLeaves, loopVars, lockVars, taskVars, countVars, brokerVars
<2>5. CASE Dial
  BY <2>5 DEF Hearing, Dial, LoopLeaves, loopVars, lockVars, taskVars, countVars, brokerVars
<2>6. CASE Release
  BY <2>6 DEF Hearing, Release, LoopLeaves, loopVars, lockVars, taskVars, countVars, brokerVars
<2>7. ASSUME NEW t \in Tasks, GetConnection(t) PROVE Hearing'
  BY <2>7 DEF Hearing, GetConnection, SetupLeaves, TaskTo, loopVars, lockVars, taskVars, countVars, brokerVars
<2>8. ASSUME NEW t \in Tasks, CreateChannel(t) PROVE Hearing'
  BY <2>8 DEF Hearing, CreateChannel, SetupLeaves, TaskTo, loopVars, lockVars, taskVars, countVars, brokerVars
<2>9. ASSUME NEW t \in Tasks, Declare(t) PROVE Hearing'
  BY <2>9 DEF Hearing, Declare, SetupLeaves, TaskTo, loopVars, lockVars, taskVars, countVars, brokerVars
<2>10. ASSUME NEW t \in Tasks, DeclareDead(t) PROVE Hearing'
  BY <2>10 DEF Hearing, DeclareDead, SetupLeaves, TaskTo, loopVars, lockVars, taskVars, countVars, brokerVars
<2>11. ASSUME NEW t \in Tasks, Consume(t) PROVE Hearing'
  BY <2>11 DEF Hearing, Consume, SetupLeaves, TaskTo, loopVars, lockVars, taskVars, countVars, brokerVars
<2>12. ASSUME NEW t \in Tasks, Notify(t) PROVE Hearing'
  BY <2>12 DEF Hearing, Notify, SetupLeaves, TaskTo, loopVars, lockVars, taskVars, countVars, brokerVars
<2>13. ASSUME NEW t \in Tasks, Ack(t) PROVE Hearing'
  BY <2>13 DEF Hearing, Ack, MsgLeaves, TaskTo, loopVars, lockVars, taskVars, countVars, brokerVars
<2>14. ASSUME NEW t \in Tasks, Handle(t) PROVE Hearing'
  BY <2>14 DEF Hearing, Handle, MsgLeaves, TaskTo, loopVars, lockVars, taskVars, countVars, brokerVars
<2>15. ASSUME NEW t \in Tasks, TaskReport(t) PROVE Hearing'
  BY <2>15 DEF Hearing, TaskReport, ReportLeaves, TaskTo, loopVars, lockVars, taskVars, countVars, brokerVars
<2>16. ASSUME NEW t \in Tasks, TaskSend(t) PROVE Hearing'
  BY <2>16 DEF Hearing, TaskSend, ReportLeaves, TaskTo, loopVars, lockVars, taskVars, countVars, brokerVars
<2>17. ASSUME NEW t \in Tasks, Close(t) PROVE Hearing'
  BY <2>17 DEF Hearing, Close, TaskTo, loopVars, lockVars, taskVars, countVars, brokerVars
<2>18. ASSUME NEW t \in Tasks, CountLoad(t) PROVE Hearing'
  BY <2>18 DEF Hearing, CountLoad, TaskTo, loopVars, lockVars, taskVars, countVars, brokerVars
<2>19. ASSUME NEW t \in Tasks, CountStore(t) PROVE Hearing'
  BY <2>19 DEF Hearing, CountStore, TaskTo, loopVars, lockVars, taskVars, countVars, brokerVars
<2>20. ASSUME NEW t \in Tasks, ChannelError(t) PROVE Hearing'
  BY <2>20 DEF Hearing, ChannelError, FaultLeaves, loopVars, lockVars, taskVars, countVars, brokerVars
<2>21. ASSUME NEW g \in Listeners, WaitTasks(g) PROVE Hearing'
  BY <2>21 DEF Hearing, WaitTasks, ReportLeaves, ListenerTo, loopVars, lockVars, taskVars, countVars, brokerVars
<2>22. ASSUME NEW g \in Listeners, ListenerReport(g) PROVE Hearing'
  BY <2>22 DEF Hearing, ListenerReport, ReportLeaves, ListenerTo, loopVars, lockVars, taskVars, countVars, brokerVars
<2>23. ASSUME NEW g \in Listeners, ListenerSend(g) PROVE Hearing'
  BY <2>23 DEF Hearing, ListenerSend, ReportLeaves, ListenerTo, loopVars, lockVars, taskVars, countVars, brokerVars
<2>24. ASSUME NEW t \in Tasks, NEW m \in Msgs, Deliver(t, m) PROVE Hearing'
  BY <2>24 DEF Hearing, Deliver, MsgLeaves, TaskTo, loopVars, lockVars, taskVars, countVars, brokerVars
<2>25. ASSUME NEW m \in Msgs, Publish(m) PROVE Hearing'
  BY <2>25 DEF Hearing, Publish, MsgLeaves, loopVars, lockVars, taskVars, countVars, brokerVars
<2>26. ASSUME NEW m \in Msgs, Expire(m) PROVE Hearing'
  BY <2>26 DEF Hearing, Expire, MsgLeaves, loopVars, lockVars, taskVars, countVars, brokerVars
<2>27. ASSUME NEW c \in Conns, LoseConnection(c) PROVE Hearing'
  BY <2>27 DEF Hearing, LoseConnection, Lose, FaultLeaves, loopVars, lockVars, taskVars, countVars, brokerVars
<2>28. CASE BrokerDown
  BY <2>28 DEF Hearing, BrokerDown, Lose, FaultLeaves, loopVars, lockVars, taskVars, countVars, brokerVars
<2>29. CASE BrokerUp
  BY <2>29 DEF Hearing, BrokerUp, FaultLeaves, loopVars, lockVars, taskVars, countVars, brokerVars
<2>30. CASE UNCHANGED consumerVars
  BY <2>30 DEF Hearing, consumerVars, loopVars, lockVars, taskVars, countVars, brokerVars
<2> QED
  BY <2>1, <2>2, <2>3, <2>4, <2>5, <2>6, <2>7, <2>8, <2>9, <2>10, <2>11, <2>12, <2>13, <2>14, <2>15, <2>16, <2>17, <2>18, <2>19, <2>20, <2>21, <2>22, <2>23, <2>24, <2>25, <2>26, <2>27, <2>28, <2>29, <2>30
  DEF NextConsumer, LoopStep, TaskStep, ListenerStep, DeliverSome
<1> QED
  BY <1>1, <1>2, PTL DEF SpecConsumer

(* No error is dropped and nobody who reports one is stuck with            *)
(* statusLock: ErrorsAreHeard.                                             *)
THEOREM ErrorsHeard == SpecConsumer => []ErrorsAreHeard
<1>1. Hearing => ErrorsAreHeard
  BY DEF Hearing, ErrorsAreHeard
<1> QED
  BY <1>1, HearingInvariant, PTL
=============================================================================
