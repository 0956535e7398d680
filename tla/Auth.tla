-------------------------------- MODULE Auth --------------------------------
(***************************************************************************)
(* Who may use the proxy: the records in Redis, the events that change     *)
(* them (server/rabbitmq_consume.go), the ttl caches in front of Redis and *)
(* the calls of Valid and ValidShadowSocks (server/auth.go), and the       *)
(* addresses of dynamic IPv6 sessions.                                     *)
(*                                                                         *)
(* Every Redis command is one step and may fail.  Calls and events run     *)
(* concurrently.  A process serves IPv4 (StartIpv4) or IPv6 (StartIpv6).   *)
(* Of an IPv6 process, static users and dynamic sessions are looked at one *)
(* at a time ("ipv6", "dynamic"): they share nothing but the clock.        *)
(***************************************************************************)
EXTENDS Naturals, FiniteSets

CONSTANTS Users, SsIps,      \* keys user:Auth and ip:ShadowSocks
          Pwds, Ips,
          Sessions, Cities, Segs, Addrs,   \* dynamic IPv6
          Reach,             \* per segment: the 2^76 addresses from its base on
          Lives,             \* lifeTime in a session's user name
          Calls, Workers,    \* handlers that authenticate, event consumers
          AuthTtl,
          MaxTime, MaxWrites,
          none

Keys == Users \cup SsIps
Records == [pwd : Pwds, ips : SUBSET Ips, banned : BOOLEAN]
Requests == [pwd : Pwds, ip : Ips]

ASSUME AuthAssumption ==
    /\ AuthTtl \in Nat /\ MaxTime \in Nat /\ MaxWrites \in Nat
    /\ Lives \subseteq Nat
    /\ Users \cap SsIps = {}
    /\ none \notin Records /\ none \notin Addrs
    /\ Reach \in [Segs -> SUBSET Addrs]
    /\ none \notin Sessions

VARIABLES
    kind,                \* which server this process is, and which users it has
    now,
    store, cache,        \* Redis; cache and shadowSocksCache
    call, key, rec, fresh,           \* per call: stage, storeKey, record, isTouch
    worker, todo, info, saved,       \* per event: stage, keys left, event, saveInfo
    citySeg, allSeg, address,        \* Redis: segments, addresses of sessions
    session, city, life, exitIp,     \* per call of validDynamicIpv6
    crashed,
    writes,              \* bound on the number of writes to records
    quiet, raced, promise            \* history: see the properties

staticVars == <<key, rec, fresh>>
eventVars == <<worker, todo, info, saved, raced>>
segVars == <<citySeg, allSeg>>
dynVars == <<session, city, life, exitIp, promise>>
vars == <<kind, now, store, cache, call, staticVars, eventVars, segVars, address,
          dynVars, crashed, writes, quiet>>

Expiry(t, l) == IF l = 0 THEN MaxTime + 1 ELSE t + l

(* Redis outlives the process: sessions may have addresses already. *)
EarlierAddresses ==
    IF kind = "dynamic" THEN [ip : Addrs, exp : {Expiry(0, l) : l \in Lives}]
                        ELSE {}

Init ==
    /\ kind \in {"ipv4", "ipv6", "dynamic"}
    /\ now = 0
    /\ store = [k \in Keys |-> none]
    /\ cache = [k \in Keys |-> none]
    /\ call = [c \in Calls |-> "idle"]
    /\ key = [c \in Calls |-> none]
    /\ rec = [c \in Calls |-> none]
    /\ fresh = [c \in Calls |-> FALSE]
    /\ worker = [w \in Workers |-> "idle"]
    /\ todo = [w \in Workers |-> {}]
    /\ info = [w \in Workers |-> none]
    /\ saved = [w \in Workers |-> none]
    /\ citySeg = [t \in Cities |-> none]
    /\ allSeg = {}
    /\ address \in [Sessions -> {none} \cup EarlierAddresses]
    /\ session = [c \in Calls |-> none]
    /\ city = [c \in Calls |-> none]
    /\ life = [c \in Calls |-> 0]
    /\ exitIp = [c \in Calls |-> none]
    /\ crashed = FALSE
    /\ writes = 0
    /\ quiet = [k \in Keys |-> 0]
    /\ raced = [w \in Workers |-> FALSE]
    /\ promise = [c \in Calls |-> none]

Goto(c, l) == call' = [call EXCEPT ![c] = l]

-----------------------------------------------------------------------------
(* Valid and ValidShadowSocks.                                             *)
Serves(k) == k \in IF kind = "ipv4" THEN Keys ELSE IF kind = "ipv6" THEN Users ELSE {}

Cached(k) == cache[k] # none /\ now <= cache[k].exp

(* Mutant: a hit prolongs the entry (no WithDisableTouchOnHit). *)
Lookup_Touch(c, k) ==
    /\ call[c] = "idle"
    /\ Serves(k)
    /\ key' = [key EXCEPT ![c] = k]
    /\ \/ /\ Cached(k)
          /\ cache' = [cache EXCEPT ![k].exp = now + AuthTtl]
          /\ rec' = [rec EXCEPT ![c] = cache[k].rec]
          /\ fresh' = [fresh EXCEPT ![c] = FALSE]
          /\ Goto(c, "check")
       \/ /\ ~Cached(k)
          /\ Goto(c, "fetch")
          /\ UNCHANGED <<cache, rec, fresh>>
    /\ UNCHANGED <<kind, now, store, eventVars, segVars, address, dynVars,
                   crashed, writes, quiet>>

(* The cache first; an IPv6 process has no Shadowsocks users. *)
Lookup(c, k) ==
    /\ call[c] = "idle"
    /\ Serves(k)
    /\ key' = [key EXCEPT ![c] = k]
    /\ \/ /\ Cached(k)
          /\ rec' = [rec EXCEPT ![c] = cache[k].rec]
          /\ fresh' = [fresh EXCEPT ![c] = FALSE]
          /\ Goto(c, "check")
       \/ /\ ~Cached(k)
          /\ Goto(c, "fetch")
          /\ UNCHANGED <<rec, fresh>>
    /\ UNCHANGED <<kind, now, store, cache, eventVars, segVars, address, dynVars,
                   crashed, writes, quiet>>

Return(c) ==
    /\ Goto(c, "idle")
    /\ key' = [key EXCEPT ![c] = none]
    /\ rec' = [rec EXCEPT ![c] = none]
    /\ fresh' = [fresh EXCEPT ![c] = FALSE]

(* Redis: a missing key and a failed command are the same error. *)
Fetch(c) ==
    /\ call[c] = "fetch"
    /\ \/ /\ store[key[c]] # none
          /\ rec' = [rec EXCEPT ![c] = store[key[c]]]
          /\ fresh' = [fresh EXCEPT ![c] = TRUE]
          /\ Goto(c, "check")
          /\ UNCHANGED key
       \/ Return(c)
    /\ UNCHANGED <<kind, now, store, cache, eventVars, segVars, address, dynVars,
                   crashed, writes, quiet>>

(* A Shadowsocks password is handed to the cipher; a user needs the        *)
(* password and, for IPv4, one of the record's ips, for IPv6 a record with *)
(* an ip that is not banned.                                               *)
Passes(c, r) ==
    \/ key[c] \in SsIps
    \/ /\ rec[c].pwd = r.pwd
       /\ IF kind = "ipv6" THEN rec[c].ips # {} /\ ~rec[c].banned
                           ELSE r.ip \in rec[c].ips

(* The password and the ip of the request are only looked at here.  What   *)
(* passed is cached, if it came from Redis.                                *)
Check(c, r) ==
    /\ call[c] = "check"
    /\ cache' = IF Passes(c, r) /\ fresh[c]
                  THEN [cache EXCEPT ![key[c]] = [rec |-> rec[c], exp |-> now + AuthTtl]]
                  ELSE cache
    /\ Return(c)
    /\ UNCHANGED <<kind, now, store, eventVars, segVars, address, dynVars,
                   crashed, writes, quiet>>

-----------------------------------------------------------------------------
(* The events.  A Redis command that fails changes nothing.                *)
Write(k, r) ==
    /\ writes < MaxWrites
    /\ writes' = writes + 1
    /\ store' = [store EXCEPT ![k] = r]
    /\ quiet' = [quiet EXCEPT ![k] = now]

(* Only IPv6 records can be banned; a Shadowsocks entry is a password. *)
IsRecordOf(k, r) == (r.banned => kind = "ipv6") /\ (k \in SsIps => r.ips = {})

EventLeaves == <<kind, now, cache, call, staticVars, segVars, address, dynVars>>

(* Whoever is between its Get and its Set of the same record. *)
RaceOn(k) == [w \in Workers |-> raced[w] \/ (worker[w] = "merge" /\ k \in todo[w])]

(* Ipv4SetUserData, Ipv6SetUserData, AddShadowSocksData *)
SetUserData(k, r) ==
    /\ Serves(k)
    /\ IsRecordOf(k, r)
    /\ Write(k, r)
    /\ raced' = RaceOn(k)
    /\ UNCHANGED <<EventLeaves, worker, todo, info, saved, crashed>>

(* Ipv4DeleteUserData, Ipv6DeleteUserData, DeleteShadowSocksData *)
DeleteUserData(k) ==
    /\ Serves(k)
    /\ Write(k, none)
    /\ raced' = RaceOn(k)
    /\ UNCHANGED <<EventLeaves, worker, todo, info, saved, crashed>>

(* Ipv6BanUserData: the record of the event, banned.  (That it also closes *)
(* the user's connections is ConnRegistry's Ban.)                          *)
BanUserData(k, r) ==
    /\ kind = "ipv6" /\ k \in Users
    /\ Write(k, [r EXCEPT !.banned = TRUE])
    /\ raced' = RaceOn(k)
    /\ UNCHANGED <<EventLeaves, worker, todo, info, saved, crashed>>

(* The batches send one pipeline: its commands are carried out one by one  *)
(* between those of other clients, and each can fail.                      *)
BeginBatch(w, U) ==
    /\ kind = "ipv6"
    /\ worker[w] = "idle"
    /\ \E op \in {"setBatch", "delBatch", "banBatch"} :
          worker' = [worker EXCEPT ![w] = op]
    /\ todo' = [todo EXCEPT ![w] = U]
    /\ UNCHANGED <<EventLeaves, store, info, saved, raced, crashed, writes, quiet>>

BatchRecord(w, r) ==
    CASE worker[w] = "setBatch" -> r
      [] worker[w] = "delBatch" -> none
      [] worker[w] = "banBatch" -> [r EXCEPT !.banned = TRUE]

BatchStep(w, k, r) ==
    /\ worker[w] \in {"setBatch", "delBatch", "banBatch"}
    /\ k \in todo[w]
    /\ \/ Write(k, BatchRecord(w, r)) /\ raced' = RaceOn(k)
       \/ UNCHANGED <<store, raced, writes, quiet>>
    /\ todo' = [todo EXCEPT ![w] = @ \ {k}]
    /\ worker' = [worker EXCEPT ![w] = IF todo[w] = {k} THEN "idle" ELSE @]
    /\ UNCHANGED <<EventLeaves, info, saved, crashed>>

(* Ipv4AddUserData reads the record first; if there is none, or Get fails, *)
(* it goes on with the event's own.                                        *)
AddGet(w, k, r) ==
    /\ kind = "ipv4" /\ k \in Users /\ IsRecordOf(k, r)
    /\ worker[w] = "idle"
    /\ worker' = [worker EXCEPT ![w] = "merge"]
    /\ todo' = [todo EXCEPT ![w] = {k}]
    /\ info' = [info EXCEPT ![w] = r]
    /\ \/ /\ store[k] # none
          /\ saved' = [saved EXCEPT ![w] = store[k]]
          /\ raced' = [raced EXCEPT ![w] = FALSE]
       \/ /\ saved' = [saved EXCEPT ![w] = none]
          /\ raced' = [raced EXCEPT ![w] = store[k] # none]
    /\ UNCHANGED <<EventLeaves, store, crashed, writes, quiet>>

EndAdd(w) ==
    /\ worker' = [worker EXCEPT ![w] = "idle"]
    /\ todo' = [todo EXCEPT ![w] = {}]
    /\ info' = [info EXCEPT ![w] = none]
    /\ saved' = [saved EXCEPT ![w] = none]

(* Mutant: the event's record replaces the stored one. *)
Merged_Replaces(w) == info[w]

Merged(w) ==
    IF saved[w] = none THEN info[w]
                       ELSE [saved[w] EXCEPT !.ips = @ \cup info[w].ips]

(* A record without ips is stored without the field, and read back with a  *)
(* nil map.                                                                *)
AssignsToNil(w) ==
    IF saved[w] = none THEN FALSE ELSE saved[w].ips = {} /\ info[w].ips # {}

(* It writes the merged record back; adding to a nil map panics, and the   *)
(* process ends.                                                           *)
AddSet(w) ==
    /\ worker[w] = "merge"
    /\ \/ /\ AssignsToNil(w)
          /\ crashed' = TRUE
          /\ UNCHANGED <<store, raced, writes, quiet>>
       \/ /\ ~AssignsToNil(w)
          /\ \/ \E k \in todo[w] :
                   /\ Write(k, Merged(w))
                   /\ raced' = [RaceOn(k) EXCEPT ![w] = FALSE]
             \/ /\ raced' = [raced EXCEPT ![w] = FALSE]
                /\ UNCHANGED <<store, writes, quiet>>
          /\ UNCHANGED crashed
    /\ EndAdd(w)
    /\ UNCHANGED EventLeaves

(* Ipv6SEOData: one pipeline with a Set and an SAdd per city. *)
SEOData(t, g) ==
    /\ kind = "dynamic"
    /\ citySeg' \in {citySeg, [citySeg EXCEPT ![t] = g]}
    /\ allSeg' \in {allSeg, allSeg \cup {g}}
    /\ UNCHANGED <<kind, now, store, cache, call, staticVars, eventVars, address,
                   dynVars, crashed, writes, quiet>>

-----------------------------------------------------------------------------
(* validDynamicIpv6.                                                       *)
Choosing(s) == \E c \in Calls : session[c] = s /\ call[c] \in {"seg", "save"}

DynLeaves == <<kind, now, store, cache, staticVars, eventVars, segVars, crashed,
               writes, quiet>>

BeginDynamic(c, s, t, l) ==
    /\ kind = "dynamic"
    /\ call[c] = "idle"
    /\ Goto(c, "session")
    /\ session' = [session EXCEPT ![c] = s]
    /\ city' = [city EXCEPT ![c] = t]
    /\ life' = [life EXCEPT ![c] = l]
    /\ promise' = [promise EXCEPT ![c] =
                     IF address[s] # none /\ ~Choosing(s) THEN address[s].ip ELSE none]
    /\ UNCHANGED <<DynLeaves, address, exitIp>>

(* Mutant: the session's address is not looked up. *)
GetSession_Never(c) ==
    /\ call[c] = "session"
    /\ Goto(c, "seg")
    /\ UNCHANGED <<DynLeaves, address, session, city, life, exitIp, promise>>

(* The address of the session; a failed Get counts as "none yet". *)
GetSession(c) ==
    LET a == address[session[c]] IN
    /\ call[c] = "session"
    /\ \/ /\ a # none
          /\ exitIp' = [exitIp EXCEPT ![c] = a.ip]
          /\ Goto(c, "return")
          /\ UNCHANGED promise
       \/ /\ Goto(c, "seg")
          /\ promise' = IF a = none THEN promise
                        ELSE [d \in Calls |-> IF session[d] = session[c] THEN none
                                                                         ELSE promise[d]]
          /\ UNCHANGED exitIp
    /\ UNCHANGED <<DynLeaves, address, session, city, life>>

EndDynamic(c) ==
    /\ Goto(c, "idle")
    /\ session' = [session EXCEPT ![c] = none]
    /\ city' = [city EXCEPT ![c] = none]
    /\ life' = [life EXCEPT ![c] = 0]
    /\ exitIp' = [exitIp EXCEPT ![c] = none]
    /\ promise' = [promise EXCEPT ![c] = none]

(* The address a segment is named by plus a random offset below the size   *)
(* of a /52.  The address is not masked first: if it is not the lowest of  *)
(* its /52, the sum may lie in the next one, and two segments may reach    *)
(* the same address.                                                       *)
RandomIPv6Address(g) == Reach[g]

(* A segment of the city, or of all cities if none is named; a random      *)
(* address from its base on.                                               *)
ChooseAddress(c) ==
    /\ call[c] = "seg"
    /\ \/ \E g \in IF city[c] = none THEN allSeg ELSE {citySeg[city[c]]} \ {none} :
          \E ip \in RandomIPv6Address(g) :
             /\ exitIp' = [exitIp EXCEPT ![c] = ip]
             /\ Goto(c, "save")
             /\ UNCHANGED <<session, city, life, promise>>
       \/ EndDynamic(c)
    /\ UNCHANGED <<DynLeaves, address>>

(* Set with the life time, 0 for ever; its error is ignored. *)
SaveAddress(c) ==
    /\ call[c] = "save"
    /\ \/ address' = [address EXCEPT ![session[c]] =
                        [ip |-> exitIp[c],
                         exp |-> Expiry(now, life[c])]]
       \/ UNCHANGED address
    /\ Goto(c, "return")
    /\ UNCHANGED <<DynLeaves, dynVars>>

ReturnAddress(c) ==
    /\ call[c] = "return"
    /\ EndDynamic(c)
    /\ UNCHANGED <<DynLeaves, address>>

-----------------------------------------------------------------------------
StaleHolder(k) ==
    \E c \in Calls : key[c] = k /\ call[c] = "check" /\ fresh[c] /\ rec[c] # store[k]

(* A second passes; Redis drops the sessions whose life is over. *)
Tick ==
    /\ now < MaxTime
    /\ now' = now + 1
    /\ quiet' = [k \in Keys |-> IF StaleHolder(k) THEN now + 1 ELSE quiet[k]]
    /\ address' = [s \in Sessions |->
                     IF address[s] # none /\ address[s].exp <= now + 1
                       THEN none ELSE address[s]]
    /\ promise' = [c \in Calls |->
                     IF session[c] # none /\ address'[session[c]] = none
                       THEN none ELSE promise[c]]
    /\ UNCHANGED <<kind, store, cache, call, staticVars, eventVars, segVars,
                   session, city, life, exitIp, crashed, writes>>

CallStep(c) ==
    \/ \E k \in Keys : Lookup(c, k)
    \/ Fetch(c)
    \/ \E r \in Requests : Check(c, r)
    \/ \E s \in Sessions, t \in Cities \cup {none}, l \in Lives : BeginDynamic(c, s, t, l)
    \/ GetSession(c) \/ ChooseAddress(c) \/ SaveAddress(c) \/ ReturnAddress(c)

EventStep ==
    \/ \E k \in Keys : DeleteUserData(k)
    \/ \E k \in Keys, r \in Records : SetUserData(k, r) \/ BanUserData(k, r)
    \/ \E w \in Workers :
          \/ \E U \in SUBSET Users \ {{}} : BeginBatch(w, U)
          \/ \E k \in Users, r \in Records : BatchStep(w, k, r) \/ AddGet(w, k, r)
          \/ AddSet(w)
    \/ \E t \in Cities, g \in Segs : SEOData(t, g)

Next ==
    /\ ~crashed
    /\ \/ \E c \in Calls : CallStep(c)
       \/ EventStep
       \/ Tick

Spec == Init /\ [][Next]_vars

-----------------------------------------------------------------------------
(* A cached record that an event has since replaced, banned or deleted is  *)
(* used no longer than AuthTtl after the event, or after the last call     *)
(* that had already read the old record has finished.                      *)
StaleBounded ==
    \A k \in Keys :
       Cached(k) /\ cache[k].rec # store[k] => now <= quiet[k] + AuthTtl

AddKeeps(w, k) ==
    /\ worker[w] = "merge" /\ worker'[w] = "idle"
    /\ k \in todo[w] /\ ~raced[w] /\ store[k] # none
    => /\ store'[k] # none
       /\ store[k].ips \subseteq store'[k].ips
       /\ store'[k].pwd = store[k].pwd

(* AddUserData only ever adds: it loses neither ips nor the password of    *)
(* the stored record, unless another event for the same user came between  *)
(* its Get and its Set, or its Get failed on an existing record.           *)
AddKeepsRecord == [][\A w \in Workers, k \in Users : AddKeeps(w, k)]_vars

(* A dynamic session keeps its address: a connection that starts while the *)
(* session has one and nobody is choosing another gets that address, as    *)
(* long as it does not expire meanwhile and Redis answers.                 *)
SessionSticky ==
    \A c \in Calls :
       call[c] = "return" /\ promise[c] # none => exitIp[c] = promise[c]
=============================================================================
