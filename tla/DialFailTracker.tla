--------------------------- MODULE DialFailTracker ---------------------------
(***************************************************************************)
(* utils/tracker/dial_fail_tracker.go for one pair of exit ip and target:  *)
(* handlers whose dial timed out record it, and a pair with too many       *)
(* failures in a window is put on a blacklist.                             *)
(*                                                                         *)
(* The statistics are updated without a lock: every atomic load, store,    *)
(* add and compare-and-swap is a step of its own.  The caches are          *)
(* ttlcache/v3 caches: an operation on one is one step, an entry past its  *)
(* expiry is absent, and a hit in dialFailCache extends the entry's life.  *)
(***************************************************************************)
EXTENDS Naturals, FiniteSets

CONSTANTS Callers,
          Stats,             \* the addresses a DialFailStats can have
          windowTime, threshold, dialFailCacheTTL, blacklistTTL,
          maxAttempts,
          MaxTime,           \* bound: the clock
          MaxCalls,          \* bound: recorded failures
          nil

ASSUME TrackerAssumption ==
    /\ windowTime \in Nat /\ threshold \in Nat /\ dialFailCacheTTL \in Nat
    /\ blacklistTTL \in Nat /\ MaxTime \in Nat /\ MaxCalls \in Nat
    /\ maxAttempts \in Nat \ {0}
    /\ IsFiniteSet(Callers)
    /\ nil \notin Stats

VARIABLES
    clock,
    entry, expiry,              \* dialFailCache: DialFailStats or nil, end of life
    black,                      \* blacklist: end of life; 0 is "no entry"
    failCount, firstConnTime,   \* the fields of every DialFailStats
    pc, now, stats, old, attempt,   \* per caller: stage and local variables
    total, when, overlapped     \* history: failures recorded, the time of each;
                                \* two calls have run at the same time

locals == <<now, stats, old, attempt>>
history == <<total, when, overlapped>>
trackerVars == <<clock, entry, expiry, black, failCount, firstConnTime, pc, locals, history>>

InitTracker ==
    /\ clock = 0
    /\ entry = nil
    /\ expiry = 0
    /\ black = 0
    /\ failCount = [s \in Stats |-> 0]
    /\ firstConnTime = [s \in Stats |-> 0]
    /\ pc = [c \in Callers |-> "idle"]
    /\ now = [c \in Callers |-> 0]
    /\ stats = [c \in Callers |-> nil]
    /\ old = [c \in Callers |-> 0]
    /\ attempt = [c \in Callers |-> 0]
    /\ total = 0
    /\ when = [i \in 1 .. MaxCalls |-> 0]
    /\ overlapped = FALSE

Goto(c, l) == pc' = [pc EXCEPT ![c] = l]

IsBlacklisted == black > clock
Cached == entry # nil /\ clock <= expiry

(* RecordDialFailConnection returns at once for a blacklisted pair (no     *)
(* step); otherwise it takes the time.                                     *)
Record(c) ==
    /\ pc[c] = "idle"
    /\ ~IsBlacklisted
    /\ total < MaxCalls
    /\ now' = [now EXCEPT ![c] = clock]
    /\ total' = total + 1
    /\ when' = [when EXCEPT ![total'] = clock]
    /\ overlapped' = (overlapped \/ \E d \in Callers : pc[d] # "idle")
    /\ Goto(c, "lookup")
    /\ UNCHANGED <<clock, entry, expiry, black, failCount, firstConnTime,
                   stats, old, attempt>>

(* dialFailCache.GetOrSet: a new entry starts at 1 ... *)
NewEntry(c) ==
    /\ pc[c] = "lookup"
    /\ ~Cached
    /\ LET free == Stats \ ({stats[d] : d \in Callers} \cup {entry}) IN
       /\ free # {}
       /\ LET s == CHOOSE x \in free : TRUE IN
          /\ entry' = s
          /\ failCount' = [failCount EXCEPT ![s] = 1]
          /\ firstConnTime' = [firstConnTime EXCEPT ![s] = now[c]]
    /\ expiry' = clock + dialFailCacheTTL
    /\ Goto(c, "idle")
    /\ UNCHANGED <<clock, black, locals, history>>

(* ... and an old one lives on. *)
OldEntry(c) ==
    /\ pc[c] = "lookup"
    /\ Cached
    /\ expiry' = clock + dialFailCacheTTL
    /\ stats' = [stats EXCEPT ![c] = entry]
    /\ attempt' = [attempt EXCEPT ![c] = 0]
    /\ Goto(c, "load")
    /\ UNCHANGED <<clock, entry, black, failCount, firstConnTime, now, old, history>>

(* getFirstConnTime, at the top of the loop. *)
Load(c) ==
    /\ pc[c] = "load"
    /\ attempt[c] < maxAttempts
    /\ old' = [old EXCEPT ![c] = firstConnTime[stats[c]]]
    /\ Goto(c, IF now[c] > firstConnTime[stats[c]] + windowTime THEN "swap" ELSE "add")
    /\ UNCHANGED <<clock, entry, expiry, black, failCount, firstConnTime, now,
                   stats, attempt, history>>

Return(c) ==
    /\ Goto(c, "idle")
    /\ stats' = [stats EXCEPT ![c] = nil]

(* The loop is over without a success. *)
GiveUp(c) ==
    /\ pc[c] = "load"
    /\ attempt[c] = maxAttempts
    /\ Return(c)
    /\ UNCHANGED <<clock, entry, expiry, black, failCount, firstConnTime, now,
                   old, attempt, history>>

(* The window is over: CompareAndSwapInt64 of firstConnTime ... *)
Swap(c) ==
    /\ pc[c] = "swap"
    /\ \/ /\ firstConnTime[stats[c]] = old[c]
          /\ firstConnTime' = [firstConnTime EXCEPT ![stats[c]] = now[c]]
          /\ Goto(c, "reset")
          /\ UNCHANGED attempt
       \/ /\ firstConnTime[stats[c]] # old[c]
          /\ attempt' = [attempt EXCEPT ![c] = @ + 1]
          /\ Goto(c, "load")
          /\ UNCHANGED firstConnTime
    /\ UNCHANGED <<clock, entry, expiry, black, failCount, now, stats, old, history>>

(* Mutant: the count is not reset. *)
Reset_KeepsCount(c) ==
    /\ pc[c] = "reset"
    /\ failCount' = [failCount EXCEPT ![stats[c]] = @ + 1]
    /\ Return(c)
    /\ UNCHANGED <<clock, entry, expiry, black, firstConnTime, now, old,
                   attempt, history>>

(* ... and StoreInt32 of failCount. *)
Reset(c) ==
    /\ pc[c] = "reset"
    /\ failCount' = [failCount EXCEPT ![stats[c]] = 1]
    /\ Return(c)
    /\ UNCHANGED <<clock, entry, expiry, black, firstConnTime, now, old,
                   attempt, history>>

(* Mutant: the threshold itself is too many. *)
Add_OffByOne(c) ==
    /\ pc[c] = "add"
    /\ failCount' = [failCount EXCEPT ![stats[c]] = @ + 1]
    /\ \/ /\ failCount[stats[c]] + 1 >= threshold
          /\ Goto(c, "ban")
          /\ UNCHANGED stats
       \/ /\ failCount[stats[c]] + 1 < threshold
          /\ Return(c)
    /\ UNCHANGED <<clock, entry, expiry, black, firstConnTime, now, old,
                   attempt, history>>

(* Within the window: AddInt32, and the blacklist above the threshold. *)
Add(c) ==
    /\ pc[c] = "add"
    /\ failCount' = [failCount EXCEPT ![stats[c]] = @ + 1]
    /\ \/ /\ failCount[stats[c]] + 1 > threshold
          /\ Goto(c, "ban")
          /\ UNCHANGED stats
       \/ /\ failCount[stats[c]] + 1 <= threshold
          /\ Return(c)
    /\ UNCHANGED <<clock, entry, expiry, black, firstConnTime, now, old,
                   attempt, history>>

(* blacklist.Set *)
Blacklist(c) ==
    /\ pc[c] = "ban"
    /\ black' = clock + blacklistTTL
    /\ Return(c)
    /\ UNCHANGED <<clock, entry, expiry, failCount, firstConnTime, now, old,
                   attempt, history>>

CallStep(c) ==
    \/ NewEntry(c) \/ OldEntry(c) \/ Load(c) \/ GiveUp(c) \/ Swap(c)
    \/ Reset(c) \/ Add(c) \/ Blacklist(c)

Tick ==
    /\ clock < MaxTime
    /\ clock' = clock + 1
    /\ UNCHANGED <<entry, expiry, black, failCount, firstConnTime, pc, locals, history>>

NextTracker == Tick \/ \E c \in Callers : Record(c) \/ CallStep(c)

SpecTracker == InitTracker /\ [][NextTracker]_trackerVars
-----------------------------------------------------------------------------
(* The types of the tracker's fields; in particular firstConnTime is never *)
(* in the future.                                                          *)
TypeOK ==
    /\ clock \in 0 .. MaxTime
    /\ entry \in Stats \cup {nil}
    /\ expiry \in Nat /\ black \in Nat
    /\ failCount \in [Stats -> Nat]
    /\ firstConnTime \in [Stats -> 0 .. MaxTime]
    /\ pc \in [Callers -> {"idle", "lookup", "load", "swap", "reset", "add", "ban"}]
    /\ now \in [Callers -> 0 .. MaxTime]
    /\ stats \in [Callers -> Stats \cup {nil}]
    /\ old \in [Callers -> 0 .. MaxTime]
    /\ attempt \in [Callers -> 0 .. maxAttempts]
    /\ total \in 0 .. MaxCalls
    /\ when \in [1 .. MaxCalls -> 0 .. MaxTime]
    /\ overlapped \in BOOLEAN

(* Which failures, and how many of the first n, were within a window that  *)
(* starts at t.                                                            *)
Within(t, n) == {i \in 1 .. n : t <= when[i] /\ when[i] <= t + windowTime}
FailuresIn(t, n) == Cardinality(Within(t, n))

(* A pair is put on the blacklist only for more than threshold failures    *)
(* within one window ("max connections within one minute", and the alarm   *)
(* that reports the count and the window).                                 *)
BlacklistJustified ==
    black # 0 => \E t \in 0 .. MaxTime : FailuresIn(t, total) > threshold

(* That is so as long as calls of RecordDialFailConnection for the pair do *)
(* not overlap.                                                            *)
JustifiedOneByOne == ~overlapped => BlacklistJustified

(* Calls that overlap can lose failures or carry the count of one window   *)
(* over to the next, but never count one twice: a pair is not blacklisted  *)
(* before it has had more than threshold failures.                         *)
NeverWithoutFailures == black # 0 => total > threshold
=============================================================================
