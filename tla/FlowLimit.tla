------------------------------ MODULE FlowLimit ------------------------------
(***************************************************************************)
(* server/flow_limit.go: the LimitedReaderAction of one user, shared by    *)
(* the LimitedReaders of all copy goroutines of that user's connections,   *)
(* and updated by the configuration task.                                  *)
(*                                                                         *)
(* Bytes are numbered 1, 2, ... in the order the source sends them.  A     *)
(* section under wMutex is one step; a share stays locked (owner) while    *)
(* GetReadSize works on it.  readRate is read without wMutex: the tests of *)
(* GetReadSize see one load of it, and `return l.readRate`, which comes    *)
(* after a store, loads it again.                                          *)
(***************************************************************************)
EXTENDS Integers, Sequences

CONSTANTS Readers,
          LimitshareSize,
          BufSize,      \* 2 KB: tempbuf, and the buffer of io.CopyBuffer
          Params,       \* the [rate, burst] pairs in use
          MaxBytes,     \* bound: bytes a source sends
          MaxSeconds,   \* bound: clock ticks
          MaxUpdates,   \* bound: calls of UpdateParameter
          nil

ASSUME FlowAssumption ==
    /\ LimitshareSize \in Nat \ {0}
    /\ BufSize \in Nat \ {0}
    /\ MaxBytes \in Nat /\ MaxSeconds \in Nat /\ MaxUpdates \in Nat
    /\ \A p \in Params : p.rate \in Nat \ {0} /\ p.burst \in Nat \ {0}
    /\ \E p \in Params : \A q \in Params : q.burst <= p.burst
    /\ \E p \in Params : \A q \in Params : q.rate <= p.rate
    /\ \E p \in Params : \A q \in Params : p.rate <= q.rate
    /\ nil \notin Readers

Shares == 0 .. LimitshareSize - 1

VARIABLES
    readRate, readBurst, residReadueBurst, slimitMaxFlow, nowTimeUnix, cc,
    rflow, owner,               \* per share: rflow, who holds its lock
    pc, idx, size,              \* per reader: stage, share, result of GetReadSize
    tempbuf, off, llen,         \* per reader: buffer, start of buf in it, llen
    sent, delivered,            \* per reader: bytes sent by the source; bytes copied out
    clock, cancelled,           \* time.Now().Unix(), l.ctx
    granted, updates            \* history: bytes granted, updates, in this second

action == <<readRate, readBurst, residReadueBurst, slimitMaxFlow, nowTimeUnix>>
buffer == <<tempbuf, off, llen>>
stream == <<sent, delivered>>
vars == <<action, cc, rflow, owner, pc, idx, size, buffer, stream, clock,
          cancelled, granted, updates>>

Init ==
    /\ \E p \in Params :
          /\ readRate = p.rate
          /\ readBurst = p.burst
          /\ residReadueBurst = p.burst
          /\ slimitMaxFlow = p.burst \div LimitshareSize
    /\ nowTimeUnix = 0
    /\ cc = 0
    /\ rflow = [s \in Shares |-> slimitMaxFlow]
    /\ owner = [s \in Shares |-> nil]
    /\ pc = [r \in Readers |-> "read"]
    /\ idx = [r \in Readers |-> 0]
    /\ size = [r \in Readers |-> 0]
    /\ tempbuf = [r \in Readers |-> [i \in 1 .. BufSize |-> 0]]
    /\ off = [r \in Readers |-> 0]
    /\ llen = [r \in Readers |-> 0]
    /\ sent = [r \in Readers |-> 0]
    /\ delivered = [r \in Readers |-> <<>>]
    /\ clock = 0
    /\ cancelled = FALSE
    /\ granted = 0
    /\ updates = 0

Goto(r, l) == pc' = [pc EXCEPT ![r] = l]
Smaller(a, b) == IF a <= b THEN a ELSE b

-----------------------------------------------------------------------------
(* LimitedReader.Read starts with a look at the context. *)
CheckContext(r) ==
    /\ pc[r] = "read"
    /\ Goto(r, IF cancelled THEN "ended" ELSE "fill")
    /\ UNCHANGED <<action, cc, rflow, owner, idx, size, buffer, stream, clock,
                   cancelled, granted, updates>>

(* The buffer is empty and the source returns an error, or llen <= 0: the  *)
(* copy ends.                                                              *)
Eof(r) ==
    /\ pc[r] = "fill"
    /\ llen[r] <= 0
    /\ Goto(r, "ended")
    /\ UNCHANGED <<action, cc, rflow, owner, idx, size, buffer, stream, clock,
                   cancelled, granted, updates>>

(* The buffer is empty and the source delivers n bytes. *)
Fill(r) ==
    /\ pc[r] = "fill"
    /\ llen[r] = 0
    /\ \E n \in 1 .. Smaller(BufSize, MaxBytes - sent[r]) :
          /\ tempbuf' = [tempbuf EXCEPT ![r] =
                            [i \in 1 .. BufSize |->
                               IF i <= n THEN sent[r] + i ELSE @[i]]]
          /\ off' = [off EXCEPT ![r] = 0]
          /\ llen' = [llen EXCEPT ![r] = n]
          /\ sent' = [sent EXCEPT ![r] = @ + n]
    /\ Goto(r, "share")
    /\ UNCHANGED <<action, cc, rflow, owner, idx, size, delivered, clock,
                   cancelled, granted, updates>>

(* The buffer still holds bytes of an earlier read. *)
Resume(r) ==
    /\ pc[r] = "fill"
    /\ llen[r] > 0
    /\ Goto(r, "share")
    /\ UNCHANGED <<action, cc, rflow, owner, idx, size, buffer, stream, clock,
                   cancelled, granted, updates>>

-----------------------------------------------------------------------------
(* GetReadSize(llen): pick the next share ... *)
PickShare(r) ==
    /\ pc[r] = "share"
    /\ cc' = (cc + 1) % LimitshareSize
    /\ idx' = [idx EXCEPT ![r] = cc']
    /\ Goto(r, "lock")
    /\ UNCHANGED <<action, rflow, owner, size, buffer, stream, clock,
                   cancelled, granted, updates>>

(* ... and lock it. *)
LockShare(r) ==
    /\ pc[r] = "lock"
    /\ owner[idx[r]] = nil
    /\ owner' = [owner EXCEPT ![idx[r]] = r]
    /\ Goto(r, IF rflow[idx[r]] <= 0 THEN "refill" ELSE "rate")
    /\ UNCHANGED <<action, cc, rflow, idx, size, buffer, stream, clock,
                   cancelled, granted, updates>>

(* The share is empty.  Under wMutex: a new second resets the burst; what  *)
(* is left of it fills the share, up to slimitMaxFlow.                     *)
Left == IF nowTimeUnix # clock THEN readBurst ELSE residReadueBurst

(* Mutants of Refill: what fills the share is not taken from the burst;    *)
(* the return for an exhausted burst leaves the share locked.              *)
Refill_Free(r) ==
    /\ pc[r] = "refill"
    /\ nowTimeUnix' = clock
    /\ residReadueBurst' = Left
    /\ \/ /\ Left = 0
          /\ owner' = [owner EXCEPT ![idx[r]] = nil]
          /\ Goto(r, "wait")
          /\ UNCHANGED rflow
       \/ /\ Left # 0
          /\ rflow' = [rflow EXCEPT ![idx[r]] = Smaller(Left, slimitMaxFlow)]
          /\ Goto(r, "rate")
          /\ UNCHANGED owner
    /\ UNCHANGED <<readRate, readBurst, slimitMaxFlow, cc, idx, size, buffer,
                   stream, clock, cancelled, granted, updates>>

Refill_KeepsLock(r) ==
    /\ pc[r] = "refill"
    /\ nowTimeUnix' = clock
    /\ rflow' = [rflow EXCEPT ![idx[r]] = Smaller(Left, slimitMaxFlow)]
    /\ residReadueBurst' = Left - Smaller(Left, slimitMaxFlow)
    /\ Goto(r, IF Left = 0 THEN "wait" ELSE "rate")
    /\ UNCHANGED <<readRate, readBurst, slimitMaxFlow, cc, owner, idx, size, buffer,
                   stream, clock, cancelled, granted, updates>>

Refill(r) ==
    /\ pc[r] = "refill"
    /\ nowTimeUnix' = clock
    /\ \/ /\ Left = 0
          /\ owner' = [owner EXCEPT ![idx[r]] = nil]
          /\ Goto(r, "wait")
          /\ residReadueBurst' = Left
          /\ UNCHANGED rflow
       \/ /\ Left # 0
          /\ rflow' = [rflow EXCEPT ![idx[r]] = Smaller(Left, slimitMaxFlow)]
          /\ residReadueBurst' = Left - Smaller(Left, slimitMaxFlow)
          /\ Goto(r, "rate")
          /\ UNCHANGED owner
    /\ UNCHANGED <<readRate, readBurst, slimitMaxFlow, cc, idx, size, buffer,
                   stream, clock, cancelled, granted, updates>>

Grant(r, charge, n) ==
    /\ rflow' = [rflow EXCEPT ![idx[r]] = @ - charge]
    /\ owner' = [owner EXCEPT ![idx[r]] = nil]
    /\ size' = [size EXCEPT ![r] = n]
    /\ granted' = granted + n
    /\ Goto(r, IF n <= 0 THEN "wait" ELSE "copy")

(* The share has flow: grant at most the share, the request and readRate.  *)
Charge(r) ==
    LET available == rflow[idx[r]] IN
    /\ pc[r] = "rate"
    /\ \/ /\ readRate >= available
          /\ Grant(r, Smaller(llen[r], available), Smaller(llen[r], available))
       \/ /\ readRate < available
          /\ readRate >= llen[r]
          /\ Grant(r, llen[r], llen[r])
       \/ /\ readRate < available
          /\ readRate < llen[r]
          /\ rflow' = [rflow EXCEPT ![idx[r]] = @ - readRate]
          /\ Goto(r, "reload")
          /\ UNCHANGED <<owner, size, granted>>
    /\ UNCHANGED <<action, cc, idx, buffer, stream, clock, cancelled, updates>>

(* return l.readRate *)
Reload(r) ==
    /\ pc[r] = "reload"
    /\ Grant(r, 0, readRate)
    /\ UNCHANGED <<action, cc, idx, buffer, stream, clock, cancelled, updates>>

-----------------------------------------------------------------------------
(* Mutant: no byte is read after the wait. *)
Wait_NoByte(r) ==
    /\ pc[r] = "wait"
    /\ size' = [size EXCEPT ![r] = 0]
    /\ Goto(r, "copy")
    /\ UNCHANGED <<action, cc, rflow, owner, idx, buffer, stream, clock,
                   cancelled, granted, updates>>

(* No flow: wait 33 ms, or for the context, and read one byte anyway. *)
Wait(r) ==
    /\ pc[r] = "wait"
    /\ size' = [size EXCEPT ![r] = 1]
    /\ Goto(r, "copy")
    /\ UNCHANGED <<action, cc, rflow, owner, idx, buffer, stream, clock,
                   cancelled, granted, updates>>

(* Mutant: buf is not moved on. *)
Copy_KeepsBuf(r) ==
    LET n == Smaller(BufSize, size[r]) IN
    /\ pc[r] = "copy"
    /\ delivered' = [delivered EXCEPT ![r] =
                        @ \o [i \in 1 .. n |-> tempbuf[r][off[r] + i]]]
    /\ llen' = [llen EXCEPT ![r] = @ - n]
    /\ Goto(r, "read")
    /\ UNCHANGED <<action, cc, rflow, owner, idx, size, tempbuf, off, sent, clock,
                   cancelled, granted, updates>>

(* copy(p, l.buf[:len(p)]).  A slice beyond the capacity of buf panics.    *)
Copy(r) ==
    LET n == Smaller(BufSize, size[r]) IN
    /\ pc[r] = "copy"
    /\ \/ /\ off[r] + n > BufSize
          /\ Goto(r, "panic")
          /\ UNCHANGED <<off, llen, delivered>>
       \/ /\ off[r] + n <= BufSize
          /\ delivered' = [delivered EXCEPT ![r] =
                              @ \o [i \in 1 .. n |-> tempbuf[r][off[r] + i]]]
          /\ llen' = [llen EXCEPT ![r] = @ - n]
          /\ off' = [off EXCEPT ![r] = @ + n]
          /\ Goto(r, "read")
    /\ UNCHANGED <<action, cc, rflow, owner, idx, size, tempbuf, sent, clock,
                   cancelled, granted, updates>>

ReaderStep(r) ==
    \/ CheckContext(r) \/ Eof(r) \/ Fill(r) \/ Resume(r) \/ PickShare(r) \/ LockShare(r)
    \/ Refill(r) \/ Charge(r) \/ Reload(r) \/ Wait(r) \/ Copy(r)

UpdateParameter(p) ==
    /\ updates < MaxUpdates
    /\ readRate' = p.rate
    /\ readBurst' = p.burst
    /\ residReadueBurst' = p.burst
    /\ slimitMaxFlow' = p.burst \div LimitshareSize
    /\ updates' = updates + 1
    /\ UNCHANGED <<nowTimeUnix, cc, rflow, owner, pc, idx, size, buffer, stream,
                   clock, cancelled, granted>>

(* A second passes. *)
Tick ==
    /\ clock < MaxSeconds
    /\ clock' = clock + 1
    /\ granted' = 0
    /\ updates' = 0
    /\ UNCHANGED <<action, cc, rflow, owner, pc, idx, size, buffer, stream,
                   cancelled>>

(* connContext.cancel() *)
Cancel ==
    /\ cancelled' = TRUE
    /\ UNCHANGED <<action, cc, rflow, owner, pc, idx, size, buffer, stream,
                   clock, granted, updates>>

Next ==
    \/ \E r \in Readers : ReaderStep(r)
    \/ \E p \in Params : UpdateParameter(p)
    \/ Tick
    \/ Cancel

Spec == Init /\ [][Next]_vars

(* Copy goroutines keep running, a share's lock is not held for ever, and  *)
(* a read of the source returns (Conn.Read sets a deadline).  Nobody has   *)
(* to update, to cancel or to let a second pass.                           *)
FairSpec == Spec /\ \A r \in Readers : SF_vars(ReaderStep(r))
-----------------------------------------------------------------------------
MaxBurst == CHOOSE b \in {p.burst : p \in Params} : \A p \in Params : p.burst <= b
MaxRate == CHOOSE v \in {p.rate : p \in Params} : \A p \in Params : p.rate <= v
MinRate == CHOOSE v \in {p.rate : p \in Params} : \A p \in Params : v <= p.rate

(* The types of the fields of LimitedReaderAction and LimitedReader; in    *)
(* particular a share never holds less than 0, the burst that is left is   *)
(* within readBurst, and the index GetReadSize computes is a share.        *)
TypeOK ==
    /\ \E p \in Params :
          /\ readRate = p.rate
          /\ readBurst = p.burst
          /\ slimitMaxFlow = p.burst \div LimitshareSize
    /\ residReadueBurst \in 0 .. readBurst
    /\ nowTimeUnix \in 0 .. clock
    /\ cc \in Shares
    /\ rflow \in [Shares -> Nat]
    /\ owner \in [Shares -> Readers \cup {nil}]
    /\ pc \in [Readers -> {"read", "fill", "share", "lock", "refill", "rate",
                           "reload", "wait", "copy", "ended", "panic"}]
    /\ idx \in [Readers -> Shares]
    /\ size \in [Readers -> Nat]
    /\ tempbuf \in [Readers -> [1 .. BufSize -> 0 .. MaxBytes]]
    /\ off \in [Readers -> 0 .. BufSize]
    /\ llen \in [Readers -> Int]
    /\ sent \in [Readers -> 0 .. MaxBytes]
    /\ delivered \in [Readers -> Seq(0 .. MaxBytes)]
    /\ clock \in 0 .. MaxSeconds
    /\ cancelled \in BOOLEAN
    /\ granted \in Nat
    /\ updates \in 0 .. MaxUpdates

(* The budget GetReadSize really hands out: in one second the readers of a *)
(* user together get at most two bursts (what the shares still hold, and   *)
(* one reset), and one more for every UpdateParameter of that second.  A   *)
(* reader that was charged at one rate and returns the next one gets the   *)
(* difference on top, at most once per share and update (and the update    *)
(* may be the last one of the second before).  This is weaker than the     *)
(* comments of the fields, see BurstPerSecond.                             *)
RateBound ==
    granted <= (2 + updates) * MaxBurst
                  + (1 + updates) * (LimitshareSize * (MaxRate - MinRate))

(* What the comment of readBurst promises, "the largest burst read per     *)
(* second (bytes)" (flow_limit.go 23): even without an update no second    *)
(* gets more than one burst.  The code does not keep this: the shares      *)
(* start with a burst, or keep one from an earlier second, and are         *)
(* refilled from another one.                                              *)
BurstPerSecond == updates = 0 => granted <= readBurst

(* LimitedReader hands on exactly the bytes of the source, in order: no    *)
(* byte is lost, repeated or taken from an earlier fill of the buffer.     *)
DeliveredIsPrefix ==
    \A r \in Readers : \A i \in 1 .. Len(delivered[r]) : delivered[r][i] = i

(* The copy stays within the bytes the buffer really holds ("limit the     *)
(* read size to the remaining data of the buffer and the request").        *)
CopyWithinData ==
    \A r \in Readers : pc[r] = "copy" => size[r] <= llen[r]

(* Even when the budget is used up, every byte read from the source is     *)
(* handed on (the forced byte), unless the context is cancelled.           *)
NoStall == []<>(cancelled \/ \A r \in Readers : Len(delivered[r]) = sent[r])

(* After cancel() every copy ends: no reader waits for flow or for the     *)
(* lock of a share for ever (a read of the source has a deadline).         *)
CancelEnds == cancelled ~> \A r \in Readers : pc[r] = "ended"
=============================================================================
