--------------------------- MODULE FlowLimitProofs ---------------------------
(***************************************************************************)
(* LimitedReader for any number of readers, shares, rates and bursts.      *)
(*                                                                         *)
(* Whatever UpdateParameter does, the fields keep their types and a second *)
(* grants a bounded number of bytes.  The argument is a budget: what was   *)
(* granted, what the shares hold, what reads on their way were charged and *)
(* what is left of the burst only change places, except at an update and   *)
(* at the start of a second (Budgeted).                                    *)
(*                                                                         *)
(* As long as the rate stays the same (RateKept), a copy stays within the  *)
(* data of the buffer, and the readers hand on exactly the bytes of their  *)
(* sources.  The inductive invariant says what the buffer holds between    *)
(* two reads: the window buf of tempbuf, which is the next llen bytes of   *)
(* the source, ends within tempbuf (Buffered).                             *)
(***************************************************************************)
EXTENDS FlowLimit, FiniteSetTheorems, TLAPS

(* Which provers a leaf is given to, and for how long. *)
USE ZenonT(3), SMTT(30), ZenonT(30)

(* The stages between a fill and the copy. *)
Working == {"share", "lock", "refill", "rate", "reload", "wait", "copy"}
Busy == \A r \in Readers : pc[r] \in Working => llen[r] >= 1

Buffered(r) ==
    /\ llen[r] >= 0 /\ off[r] + llen[r] <= BufSize
    /\ pc[r] = "copy" => size[r] \in 1 .. llen[r]
    /\ pc[r] = "reload" => readRate < llen[r]
    /\ sent[r] = Len(delivered[r]) + llen[r]
    /\ \A i \in 1 .. llen[r] : tempbuf[r][off[r] + i] = Len(delivered[r]) + i
    /\ \A i \in 1 .. Len(delivered[r]) : delivered[r][i] = i

IInv == TypeOK /\ Busy /\ \A r \in Readers : Buffered(r)

(* There is no update, or updates change the burst only. *)
RateKept == MaxUpdates = 0 \/ \A p, q \in Params : p.rate = q.rate

-----------------------------------------------------------------------------
(* What copying n bytes appends. *)
LEMMA Appended ==
    ASSUME NEW S, NEW s \in Seq(S), NEW n \in Nat, NEW f \in [1 .. n -> S]
    PROVE  /\ s \o f \in Seq(S) /\ Len(s \o f) = Len(s) + n
           /\ \A i \in 1 .. Len(s) : (s \o f)[i] = s[i]
           /\ \A i \in Len(s) + 1 .. Len(s) + n : (s \o f)[i] = f[i - Len(s)]
<1>1. f \in Seq(S) /\ Len(f) = n
  OBVIOUS
<1> QED BY <1>1

LEMMA ShareSize == \A p \in Params : p.burst \div LimitshareSize \in Nat /\ p.burst \in Nat /\ p.rate \in Nat \ {0}
BY FlowAssumption

(* The burst that is left, and the part of it that fills a share. *)
LEMMA Budget ==
    ASSUME TypeOK
    PROVE  /\ readRate \in Nat \ {0} /\ readBurst \in Nat /\ slimitMaxFlow \in Nat
           /\ Left \in 0 .. readBurst
           /\ Smaller(Left, slimitMaxFlow) \in 0 .. Left
<1>1. readRate \in Nat \ {0} /\ readBurst \in Nat /\ slimitMaxFlow \in Nat
  BY ShareSize DEF TypeOK
<1>2. Left \in 0 .. readBurst
  BY <1>1 DEF Left, TypeOK
<1> QED BY <1>1, <1>2 DEF Smaller

LEMMA Maps ==
    ASSUME TypeOK
    PROVE  /\ rflow \in [Shares -> Nat] /\ owner \in [Shares -> Readers \cup {nil}]
           /\ idx \in [Readers -> Shares] /\ size \in [Readers -> Nat]
           /\ off \in [Readers -> 0 .. BufSize] /\ llen \in [Readers -> Int]
           /\ sent \in [Readers -> 0 .. MaxBytes] /\ granted \in Nat
           /\ tempbuf \in [Readers -> [1 .. BufSize -> 0 .. MaxBytes]]
           /\ delivered \in [Readers -> Seq(0 .. MaxBytes)]
           /\ pc \in [Readers -> {"read", "fill", "share", "lock", "refill", "rate",
                                  "reload", "wait", "copy", "ended", "panic"}]
BY DEF TypeOK

(* The types of the fields of one reader. *)
LEMMA Fields ==
    ASSUME TypeOK, NEW r \in Readers
    PROVE  /\ BufSize \in Nat /\ MaxBytes \in Nat /\ Len(delivered[r]) \in Nat
           /\ off[r] \in 0 .. BufSize /\ llen[r] \in Int /\ size[r] \in Nat
           /\ sent[r] \in 0 .. MaxBytes
           /\ tempbuf[r] \in [1 .. BufSize -> 0 .. MaxBytes]
           /\ delivered[r] \in Seq(0 .. MaxBytes)
           /\ idx[r] \in Shares /\ rflow[idx[r]] \in Nat
<1>1. BufSize \in Nat /\ MaxBytes \in Nat
  BY FlowAssumption
<1>2. delivered[r] \in Seq(0 .. MaxBytes) /\ tempbuf[r] \in [1 .. BufSize -> 0 .. MaxBytes]
  BY DEF TypeOK
<1>3. Len(delivered[r]) \in Nat
  BY <1>2
<1>4. off[r] \in 0 .. BufSize /\ llen[r] \in Int /\ size[r] \in Nat /\ sent[r] \in 0 .. MaxBytes
  BY DEF TypeOK
<1>5. idx[r] \in Shares /\ rflow[idx[r]] \in Nat
  BY DEF TypeOK
<1> QED BY <1>1, <1>2, <1>3, <1>4, <1>5

(* The bytes Copy hands on, when it stays within tempbuf. *)
LEMMA Piece ==
    ASSUME TypeOK, NEW r \in Readers, NEW n \in Nat, off[r] + n <= BufSize
    PROVE  [i \in 1 .. n |-> tempbuf[r][off[r] + i]] \in [1 .. n -> 0 .. MaxBytes]
<1>1. \A i \in 1 .. n : off[r] + i \in 1 .. BufSize
  BY Fields
<1>2. \A i \in 1 .. n : tempbuf[r][off[r] + i] \in 0 .. MaxBytes
  BY <1>1, Fields
<1> QED BY <1>2

LEMMA Types == ASSUME TypeOK, Busy, [Next]_vars PROVE TypeOK' /\ Busy'
<1> USE FlowAssumption DEF Busy, Working
<1>1. ASSUME NEW r \in Readers, CheckContext(r) PROVE (TypeOK /\ Busy)'
  BY Zenon, <1>1 DEF TypeOK, CheckContext, Goto, action, buffer, stream
<1>2. ASSUME NEW r \in Readers, Eof(r) PROVE (TypeOK /\ Busy)'
  BY Zenon, <1>2 DEF TypeOK, Eof, Goto, action, buffer, stream
<1>3. ASSUME NEW r \in Readers, Fill(r) PROVE (TypeOK /\ Busy)'
  <2>1. PICK n \in 1 .. Smaller(BufSize, MaxBytes - sent[r]) :
          /\ tempbuf' = [tempbuf EXCEPT ![r] =
                            [i \in 1 .. BufSize |-> IF i <= n THEN sent[r] + i ELSE @[i]]]
          /\ off' = [off EXCEPT ![r] = 0]
          /\ llen' = [llen EXCEPT ![r] = n]
          /\ sent' = [sent EXCEPT ![r] = @ + n]
    BY Zenon, <1>3 DEF Fill
  <2>2. n \in 1 .. BufSize /\ sent[r] + n \in 0 .. MaxBytes
    <3>1. BufSize \in Nat /\ MaxBytes - sent[r] \in Int /\ sent[r] \in 0 .. MaxBytes /\ MaxBytes \in Nat
      BY Fields
    <3>2. n \in Nat /\ n >= 1 /\ n <= BufSize /\ n <= MaxBytes - sent[r]
      BY <2>1, <3>1 DEF Smaller
    <3> QED BY <3>1, <3>2
  <2>3. tempbuf' \in [Readers -> [1 .. BufSize -> 0 .. MaxBytes]]
    <3>1. [i \in 1 .. BufSize |-> IF i <= n THEN sent[r] + i ELSE tempbuf[r][i]]
            \in [1 .. BufSize -> 0 .. MaxBytes]
      <4> SUFFICES ASSUME NEW i \in 1 .. BufSize
                   PROVE  (IF i <= n THEN sent[r] + i ELSE tempbuf[r][i]) \in 0 .. MaxBytes
        OBVIOUS
      <4>1. CASE i <= n
        BY <4>1, <2>2, Fields
      <4>2. CASE ~(i <= n)
        BY <4>2, Fields
      <4> QED BY <4>1, <4>2
    <3> QED BY Zenon, <2>1, <3>1, Maps
  <2>4. off' \in [Readers -> 0 .. BufSize] /\ llen' \in [Readers -> Int] /\ sent' \in [Readers -> 0 .. MaxBytes]
    <3>1. 0 \in 0 .. BufSize /\ n \in Int
      BY <2>2, Fields
    <3> QED BY <2>1, <2>2, <3>1, Maps
  <2>5. Busy'
    BY <1>3, <2>1, <2>2 DEF Fill, Goto, TypeOK
  <2> QED BY Zenon, <1>3, <2>3, <2>4, <2>5 DEF TypeOK, Fill, Goto, action, buffer, stream
<1>4. ASSUME NEW r \in Readers, Resume(r) PROVE (TypeOK /\ Busy)'
  <2>1. Busy'
    BY <1>4, Maps, Fields DEF Resume, Goto, buffer
  <2> QED BY Zenon, <1>4, <2>1 DEF TypeOK, Resume, Goto, action, buffer, stream
<1>5. ASSUME NEW r \in Readers, PickShare(r) PROVE (TypeOK /\ Busy)'
  <2>1. (cc + 1) % LimitshareSize \in Shares
    <3>1. cc + 1 \in Nat
      BY DEF Shares, TypeOK
    <3> QED BY <3>1 DEF Shares
  <2> QED BY Zenon, <1>5, <2>1 DEF TypeOK, PickShare, Goto, action, buffer, stream
<1>6. ASSUME NEW r \in Readers, LockShare(r) PROVE (TypeOK /\ Busy)'
  BY Zenon, <1>6 DEF TypeOK, LockShare, Goto, action, buffer, stream
<1>7. ASSUME NEW r \in Readers, Refill(r) PROVE (TypeOK /\ Busy)'
  <2>1. residReadueBurst' \in 0 .. readBurst /\ rflow' \in [Shares -> Nat]
    <3> DEFINE x == Smaller(Left, slimitMaxFlow)
    <3>1. \/ residReadueBurst' = Left /\ rflow' = rflow
          \/ residReadueBurst' = Left - x /\ rflow' = [rflow EXCEPT ![idx[r]] = x]
      BY <1>7 DEF Refill
    <3>2. Left \in 0 .. readBurst /\ readBurst \in Nat /\ x \in 0 .. Left
      BY Budget
    <3> HIDE DEF x
    <3>3. x \in Nat /\ Left - x \in 0 .. readBurst
      BY <3>2
    <3>4. rflow' = rflow \/ rflow' = [rflow EXCEPT ![idx[r]] = x]
      BY <3>1
    <3>5. rflow' \in [Shares -> Nat]
      BY Zenon, <3>3, <3>4, Maps
    <3>6. residReadueBurst' \in 0 .. readBurst
      BY <3>1, <3>2, <3>3
    <3> QED BY <3>5, <3>6
  <2>2. owner' \in [Shares -> Readers \cup {nil}] /\ nowTimeUnix' \in 0 .. clock
    <3>1. clock \in 0 .. clock
      BY DEF TypeOK
    <3>2. owner' = owner \/ owner' = [owner EXCEPT ![idx[r]] = nil]
      BY <1>7 DEF Refill
    <3> QED BY Zenon, <1>7, <3>1, <3>2, Maps DEF Refill
  <2>3. Busy' /\ pc' \in [Readers -> {"read", "fill", "share", "lock", "refill", "rate",
                           "reload", "wait", "copy", "ended", "panic"}]
    BY Zenon, <1>7 DEF Refill, Goto, TypeOK, action, buffer, stream
  <2> QED BY Zenon, <1>7, <2>1, <2>2, <2>3 DEF TypeOK, Refill, action, buffer, stream
<1>8. ASSUME NEW r \in Readers, Charge(r) PROVE (TypeOK /\ Busy)'
  <2>1. /\ idx[r] \in Shares /\ rflow[idx[r]] \in Nat /\ llen[r] \in Int /\ llen[r] >= 1
        /\ readRate \in Nat
    BY Zenon, <1>8, Budget DEF Charge, TypeOK
  <2>2. Smaller(llen[r], rflow[idx[r]]) \in 0 .. rflow[idx[r]]
    BY <2>1 DEF Smaller
  <2>3. rflow' \in [Shares -> Nat] /\ size' \in [Readers -> Nat] /\ granted' \in Nat
    <3>1. \/ \E n \in 0 .. rflow[idx[r]] :
                /\ rflow' = [rflow EXCEPT ![idx[r]] = rflow[idx[r]] - n]
                /\ size' = [size EXCEPT ![r] = n] /\ granted' = granted + n
          \/ /\ readRate < rflow[idx[r]] /\ UNCHANGED <<size, granted>>
             /\ rflow' = [rflow EXCEPT ![idx[r]] = rflow[idx[r]] - readRate]
      <4>1. readRate < rflow[idx[r]] /\ readRate >= llen[r] => llen[r] \in 0 .. rflow[idx[r]]
        BY <2>1
      <4> QED BY <1>8, <2>2, <4>1 DEF Charge, Grant
    <3>2. \A n \in 0 .. rflow[idx[r]] : rflow[idx[r]] - n \in Nat /\ n \in Nat /\ granted + n \in Nat
      BY <2>1, Maps
    <3>3. readRate < rflow[idx[r]] => rflow[idx[r]] - readRate \in Nat
      BY <2>1
    <3>4. CASE readRate < rflow[idx[r]] /\ UNCHANGED <<size, granted>>
               /\ rflow' = [rflow EXCEPT ![idx[r]] = rflow[idx[r]] - readRate]
      BY <3>3, <3>4, Maps
    <3>5. ASSUME NEW n \in 0 .. rflow[idx[r]],
                 rflow' = [rflow EXCEPT ![idx[r]] = rflow[idx[r]] - n],
                 size' = [size EXCEPT ![r] = n], granted' = granted + n
          PROVE  rflow' \in [Shares -> Nat] /\ size' \in [Readers -> Nat] /\ granted' \in Nat
      <4>1. rflow[idx[r]] - n \in Nat /\ n \in Nat /\ granted + n \in Nat
        BY <3>2
      <4> QED BY <4>1, <3>5, Maps
    <3> QED BY <3>1, <3>4, <3>5
  <2>4. owner' \in [Shares -> Readers \cup {nil}]
    BY Zenon, <1>8 DEF Charge, Grant, TypeOK
  <2>5. Busy' /\ pc' \in [Readers -> {"read", "fill", "share", "lock", "refill", "rate",
                           "reload", "wait", "copy", "ended", "panic"}]
    BY ZenonT(30), <1>8 DEF Charge, Grant, Goto, TypeOK, action, buffer, stream
  <2> QED BY Zenon, <1>8, <2>3, <2>4, <2>5 DEF TypeOK, Charge, action, buffer, stream
<1>9. ASSUME NEW r \in Readers, Reload(r) PROVE (TypeOK /\ Busy)'
  <2>1. rflow' \in [Shares -> Nat] /\ size' \in [Readers -> Nat] /\ granted' \in Nat
    <3>1. readRate \in Nat /\ rflow[idx[r]] - 0 \in Nat /\ granted + readRate \in Nat
      <4>1. readRate \in Nat
        BY Budget
      <4>2. rflow[idx[r]] \in Nat
        BY Fields
      <4>3. granted \in Nat
        BY Maps
      <4> QED BY <4>1, <4>2, <4>3
    <3>2. /\ rflow' = [rflow EXCEPT ![idx[r]] = rflow[idx[r]] - 0]
          /\ size' = [size EXCEPT ![r] = readRate] /\ granted' = granted + readRate
      BY <1>9 DEF Reload, Grant
    <3> QED BY <3>1, <3>2, Maps
  <2>2. owner' \in [Shares -> Readers \cup {nil}]
    BY <1>9 DEF Reload, Grant, TypeOK
  <2>3. Busy' /\ pc' \in [Readers -> {"read", "fill", "share", "lock", "refill", "rate",
                           "reload", "wait", "copy", "ended", "panic"}]
    BY Zenon, <1>9 DEF Reload, Grant, Goto, TypeOK, action, buffer, stream
  <2> QED BY Zenon, <1>9, <2>1, <2>2, <2>3 DEF TypeOK, Reload, action, buffer, stream
<1>10. ASSUME NEW r \in Readers, Wait(r) PROVE (TypeOK /\ Busy)'
  BY Zenon, <1>10 DEF TypeOK, Wait, Goto, action, buffer, stream
<1>11. ASSUME NEW r \in Readers, Copy(r) PROVE (TypeOK /\ Busy)'
  <2> DEFINE n == Smaller(BufSize, size[r])
  <2> DEFINE f == [i \in 1 .. n |-> tempbuf[r][off[r] + i]]
  <2>1. n \in Nat /\ off[r] \in 0 .. BufSize
    BY Fields DEF Smaller
  <2>2. UNCHANGED <<action, cc, rflow, owner, idx, size, tempbuf, sent, clock, cancelled, granted, updates>>
    BY <1>11 DEF Copy
  <2>3. CASE off[r] + n > BufSize
    <3>1. off[r] + n <= BufSize <=> FALSE
      BY <2>1, <2>3, Fields
    <3>2. pc' = [pc EXCEPT ![r] = "panic"] /\ UNCHANGED <<off, llen, delivered>>
      BY <1>11, <3>1 DEF Copy, Goto
    <3> QED BY Zenon, <2>2, <3>2 DEF TypeOK, action
  <2>4. CASE off[r] + n <= BufSize
    <3>1. ~(off[r] + n > BufSize)
      BY <2>1, <2>4, Fields
    <3>2. /\ delivered' = [delivered EXCEPT ![r] = delivered[r] \o f]
          /\ off' = [off EXCEPT ![r] = off[r] + n] /\ llen' = [llen EXCEPT ![r] = llen[r] - n]
          /\ pc' = [pc EXCEPT ![r] = "read"]
      BY Zenon, <1>11, <3>1 DEF Copy, Goto
    <3>3. f \in [1 .. n -> 0 .. MaxBytes]
      BY <2>1, <2>4, Piece
    <3>4. delivered[r] \o f \in Seq(0 .. MaxBytes)
      BY Zenon, <2>1, <3>3, Appended, Fields
    <3>5. off[r] + n \in 0 .. BufSize /\ llen[r] - n \in Int
      BY <2>1, <2>4, Fields
    <3> HIDE DEF n, f
    <3> QED BY Zenon, <2>2, <3>2, <3>4, <3>5 DEF TypeOK, action
  <2> QED BY <2>1, <2>3, <2>4, Fields
<1>12. ASSUME NEW p \in Params, UpdateParameter(p) PROVE (TypeOK /\ Busy)'
  <2>1. p.burst \in Nat /\ updates' \in 0 .. MaxUpdates
    BY <1>12, ShareSize DEF UpdateParameter, TypeOK
  <2>2. residReadueBurst' \in 0 .. readBurst'
    BY <1>12, <2>1 DEF UpdateParameter
  <2> QED BY Zenon, <1>12, <2>1, <2>2 DEF TypeOK, UpdateParameter, buffer, stream
<1>13. ASSUME Tick PROVE (TypeOK /\ Busy)'
  <2>1. clock' \in 0 .. MaxSeconds /\ nowTimeUnix \in 0 .. clock'
    BY <1>13, FlowAssumption DEF Tick, TypeOK
  <2>2. updates' \in 0 .. MaxUpdates /\ granted' \in Nat
    BY <1>13, FlowAssumption DEF Tick
  <2> QED BY Zenon, <1>13, <2>1, <2>2 DEF TypeOK, Tick, action, buffer, stream
<1>14. ASSUME Cancel PROVE (TypeOK /\ Busy)'
  BY Zenon, <1>14 DEF TypeOK, Cancel, Goto, action, buffer, stream
<1>15. ASSUME UNCHANGED vars PROVE (TypeOK /\ Busy)'
  BY Zenon, <1>15 DEF TypeOK, vars, action, buffer, stream
<1> QED
  BY <1>1, <1>2, <1>3, <1>4, <1>5, <1>6, <1>7, <1>8, <1>9, <1>10, <1>11, <1>12, <1>13, <1>14, <1>15
  DEF Next, ReaderStep

-----------------------------------------------------------------------------
LEMMA Untouched ==
    ASSUME NEW o \in Readers, Buffered(o), readRate' = readRate,
           pc'[o] = pc[o] \/ pc'[o] \notin {"copy", "reload"},
           size'[o] = size[o], llen'[o] = llen[o], off'[o] = off[o],
           sent'[o] = sent[o], delivered'[o] = delivered[o], tempbuf'[o] = tempbuf[o]
    PROVE  Buffered(o)'
BY DEF Buffered

(* Buffered, as long as readRate stays the same. *)
LEMMA Buffers ==
    ASSUME TypeOK, Busy, \A r \in Readers : Buffered(r), [Next]_vars, RateKept
    PROVE  \A r \in Readers : Buffered(r)'
<1> SUFFICES ASSUME NEW o \in Readers PROVE Buffered(o)'
  OBVIOUS
<1>1. ASSUME NEW r \in Readers, CheckContext(r) PROVE Buffered(o)'
  <2>1. pc'[o] = pc[o] \/ pc'[o] \notin {"copy", "reload"}
    BY <1>1 DEF CheckContext, Goto, TypeOK
  <2> QED BY <1>1, <2>1, Untouched DEF CheckContext, action, buffer, stream
<1>2. ASSUME NEW r \in Readers, Eof(r) PROVE Buffered(o)'
  <2>1. pc'[o] = pc[o] \/ pc'[o] \notin {"copy", "reload"}
    BY <1>2 DEF Eof, Goto, TypeOK
  <2> QED BY <1>2, <2>1, Untouched DEF Eof, action, buffer, stream
<1>3. ASSUME NEW r \in Readers, Fill(r) PROVE Buffered(o)'
  <2>1. PICK n \in 1 .. Smaller(BufSize, MaxBytes - sent[r]) :
          /\ tempbuf' = [tempbuf EXCEPT ![r] =
                            [i \in 1 .. BufSize |-> IF i <= n THEN sent[r] + i ELSE @[i]]]
          /\ off' = [off EXCEPT ![r] = 0]
          /\ llen' = [llen EXCEPT ![r] = n]
          /\ sent' = [sent EXCEPT ![r] = @ + n]
    BY Zenon, <1>3 DEF Fill
  <2>2. n \in 1 .. BufSize
    BY <2>1, Fields DEF Smaller
  <2>3. pc' = [pc EXCEPT ![r] = "share"] /\ llen[r] = 0 /\ UNCHANGED <<delivered, size, readRate>>
    BY <1>3 DEF Fill, Goto, action
  <2>4. CASE o = r
    <3>1. llen'[r] = n /\ off'[r] = 0 /\ sent'[r] = sent[r] + n /\ pc'[r] = "share"
      BY <2>1, <2>3 DEF TypeOK
    <3>2. sent[r] = Len(delivered[r])
      BY <2>3, Fields DEF Buffered
    <3>3. \A i \in 1 .. n : 0 + i = i /\ i \in 1 .. BufSize /\ i <= n
      BY <2>2, Fields
    <3>4. \A i \in 1 .. n : tempbuf'[r][i] = Len(delivered[r]) + i
      BY <2>1, <3>2, <3>3 DEF TypeOK
    <3>5. n >= 0 /\ 0 + n <= BufSize
      BY <2>2, Fields
    <3> QED BY <2>3, <2>4, <3>1, <3>2, <3>3, <3>4, <3>5 DEF Buffered
  <2>5. CASE o # r
    BY <2>1, <2>3, <2>5, Untouched DEF TypeOK
  <2> QED BY <2>4, <2>5
<1>4. ASSUME NEW r \in Readers, Resume(r) PROVE Buffered(o)'
  <2>1. pc'[o] = pc[o] \/ pc'[o] \notin {"copy", "reload"}
    BY <1>4 DEF Resume, Goto, TypeOK
  <2> QED BY <1>4, <2>1, Untouched DEF Resume, action, buffer, stream
<1>5. ASSUME NEW r \in Readers, PickShare(r) PROVE Buffered(o)'
  <2>1. pc'[o] = pc[o] \/ pc'[o] \notin {"copy", "reload"}
    BY <1>5 DEF PickShare, Goto, TypeOK
  <2> QED BY <1>5, <2>1, Untouched DEF PickShare, action, buffer, stream
<1>6. ASSUME NEW r \in Readers, LockShare(r) PROVE Buffered(o)'
  <2>1. pc'[o] = pc[o] \/ pc'[o] \notin {"copy", "reload"}
    BY <1>6 DEF LockShare, Goto, TypeOK
  <2> QED BY <1>6, <2>1, Untouched DEF LockShare, action, buffer, stream
<1>7. ASSUME NEW r \in Readers, Refill(r) PROVE Buffered(o)'
  <2>1. pc'[o] = pc[o] \/ pc'[o] \notin {"copy", "reload"}
    BY <1>7 DEF Refill, Goto, TypeOK
  <2> QED BY <1>7, <2>1, Untouched DEF Refill, action, buffer, stream
<1>8. ASSUME NEW r \in Readers, Charge(r) PROVE Buffered(o)'
  <2>1. /\ idx[r] \in Shares /\ rflow[idx[r]] \in Nat /\ llen[r] \in Int /\ llen[r] >= 1
        /\ readRate \in Nat
    BY <1>8, Budget, Fields DEF Charge, Busy, Working
  <2>2. Smaller(llen[r], rflow[idx[r]]) \in 0 .. llen[r]
    BY <2>1 DEF Smaller
  <2>3. \/ \E n \in 0 .. llen[r] : /\ size' = [size EXCEPT ![r] = n]
                                   /\ pc' = [pc EXCEPT ![r] = IF n <= 0 THEN "wait" ELSE "copy"]
        \/ pc' = [pc EXCEPT ![r] = "reload"] /\ readRate < llen[r] /\ size' = size
    <3>1. llen[r] \in 0 .. llen[r]
      BY <2>1
    <3> QED BY <1>8, <2>2, <3>1 DEF Charge, Grant, Goto
  <2>4. pc'[r] = "copy" => size'[r] \in 1 .. llen[r]
    <3>1. CASE pc' = [pc EXCEPT ![r] = "reload"]
      BY <3>1, Maps
    <3>2. ASSUME NEW n \in 0 .. llen[r], size' = [size EXCEPT ![r] = n],
                 pc' = [pc EXCEPT ![r] = IF n <= 0 THEN "wait" ELSE "copy"]
          PROVE  pc'[r] = "copy" => size'[r] \in 1 .. llen[r]
      <4>1. size'[r] = n /\ pc'[r] = IF n <= 0 THEN "wait" ELSE "copy"
        BY <3>2, Maps
      <4> QED BY <4>1, <2>1
    <3> QED BY <2>3, <3>1, <3>2
  <2>5. pc'[r] = "reload" => readRate < llen[r]
    BY <2>3, Maps
  <2>6. CASE o = r
    <3> QED BY Zenon, <1>8, <2>6, <2>4, <2>5 DEF Buffered, Charge, action, buffer, stream
  <2>7. CASE o # r
    <3>1. pc'[o] = pc[o] /\ size'[o] = size[o]
      BY <1>8, <2>7 DEF Charge, Grant, Goto, TypeOK
    <3> QED BY <1>8, <2>7, <3>1, Untouched DEF Charge, action, buffer, stream
  <2> QED BY <2>6, <2>7
<1>9. ASSUME NEW r \in Readers, Reload(r) PROVE Buffered(o)'
  <2>1. readRate \in Nat \ {0} /\ readRate < llen[r] /\ llen[r] \in Int
    BY <1>9, Budget, Fields DEF Reload, Buffered
  <2>2. size' = [size EXCEPT ![r] = readRate] /\ pc' = [pc EXCEPT ![r] = "copy"]
    <3>1. ~(readRate <= 0)
      BY <2>1
    <3> QED BY <1>9, <3>1 DEF Reload, Grant, Goto
  <2>3. size'[r] \in 1 .. llen[r] /\ pc'[r] = "copy"
    <3>1. readRate \in 1 .. llen[r]
      BY <2>1
    <3> QED BY <2>2, <3>1, Maps
  <2>4. CASE o = r
    <3> QED BY <1>9, <2>4, <2>3 DEF Buffered, Reload, action, buffer, stream
  <2>5. CASE o # r
    <3>1. pc'[o] = pc[o] /\ size'[o] = size[o]
      BY <1>9, <2>5 DEF Reload, Grant, Goto, TypeOK
    <3> QED BY <1>9, <2>5, <3>1, Untouched DEF Reload, action, buffer, stream
  <2> QED BY <2>4, <2>5
<1>10. ASSUME NEW r \in Readers, Wait(r) PROVE Buffered(o)'
  <2>1. llen[r] \in Int /\ llen[r] >= 1
    BY <1>10, Fields DEF Wait, Busy, Working
  <2>2. size'[r] \in 1 .. llen[r] /\ pc'[r] = "copy"
    BY <1>10, <2>1 DEF Wait, Goto, TypeOK
  <2>3. CASE o = r
    <3> QED BY Zenon, <1>10, <2>3, <2>2 DEF Buffered, Wait, action, buffer, stream
  <2>4. CASE o # r
    <3>1. pc'[o] = pc[o] /\ size'[o] = size[o]
      BY <1>10, <2>4 DEF Wait, Grant, Goto, TypeOK
    <3> QED BY <1>10, <2>4, <3>1, Untouched DEF Wait, action, buffer, stream
  <2> QED BY <2>3, <2>4
<1>11. ASSUME NEW r \in Readers, Copy(r) PROVE Buffered(o)'
  <2> DEFINE n == Smaller(BufSize, size[r])
  <2> DEFINE f == [i \in 1 .. n |-> tempbuf[r][off[r] + i]]
  <2>1. /\ n = size[r] /\ n \in 1 .. llen[r] /\ off[r] + n <= BufSize
        /\ llen[r] \in Int /\ off[r] \in Nat
    <3>1. size[r] \in 1 .. llen[r] /\ off[r] + llen[r] <= BufSize
      BY <1>11 DEF Copy, Buffered
    <3>2. size[r] <= BufSize
      BY <3>1, Fields
    <3> QED BY <3>1, <3>2, Fields DEF Smaller
  <2>2. /\ delivered' = [delivered EXCEPT ![r] = delivered[r] \o f]
        /\ off' = [off EXCEPT ![r] = off[r] + n] /\ llen' = [llen EXCEPT ![r] = llen[r] - n]
        /\ pc' = [pc EXCEPT ![r] = "read"]
        /\ UNCHANGED <<tempbuf, sent, size, readRate>>
    <3>1. ~(off[r] + n > BufSize)
      BY <2>1, Fields
    <3> QED BY Zenon, <1>11, <3>1 DEF Copy, Goto, action
  <2>3. CASE o = r
    <3>1. f \in [1 .. n -> 0 .. MaxBytes] /\ delivered[r] \in Seq(0 .. MaxBytes)
      BY <2>1, Fields, Piece
    <3>2. /\ Len(delivered[r] \o f) = Len(delivered[r]) + n
          /\ \A i \in 1 .. Len(delivered[r]) : (delivered[r] \o f)[i] = delivered[r][i]
          /\ \A i \in Len(delivered[r]) + 1 .. Len(delivered[r]) + n :
                (delivered[r] \o f)[i] = f[i - Len(delivered[r])]
      BY <2>1, <3>1, Appended
    <3>3. Len(delivered[r]) \in Nat /\ \A i \in 1 .. n : f[i] = Len(delivered[r]) + i
      BY <2>1, Fields DEF Buffered
    <3> HIDE DEF n, f
    <3>4. /\ delivered'[r] = delivered[r] \o f /\ off'[r] = off[r] + n
          /\ llen'[r] = llen[r] - n /\ pc'[r] = "read"
      BY Zenon, <2>2 DEF TypeOK
    <3>5. \A i \in 1 .. Len(delivered'[r]) : delivered'[r][i] = i
      <4> SUFFICES ASSUME NEW i \in 1 .. Len(delivered[r]) + n
                   PROVE  (delivered[r] \o f)[i] = i
        BY <3>2, <3>4
      <4>1. CASE i \in 1 .. Len(delivered[r])
        BY <4>1, <3>2 DEF Buffered
      <4>2. CASE i \in Len(delivered[r]) + 1 .. Len(delivered[r]) + n
        <5>1. i - Len(delivered[r]) \in 1 .. n
          BY <4>2, <3>3, <2>1
        <5>2. (delivered[r] \o f)[i] = f[i - Len(delivered[r])]
          BY <3>2, <4>2
        <5> QED BY <5>1, <5>2, <4>2, <3>3
      <4>3. i \in 1 .. Len(delivered[r]) \/ i \in Len(delivered[r]) + 1 .. Len(delivered[r]) + n
        BY <3>3, <2>1
      <4> QED BY Zenon, <4>1, <4>2, <4>3
    <3>6. \A i \in 1 .. llen[r] - n : tempbuf[r][(off[r] + n) + i] = (Len(delivered[r]) + n) + i
      <4> SUFFICES ASSUME NEW i \in 1 .. llen[r] - n
                   PROVE  tempbuf[r][(off[r] + n) + i] = (Len(delivered[r]) + n) + i
        OBVIOUS
      <4>1. n + i \in 1 .. llen[r] /\ off[r] + (n + i) = (off[r] + n) + i
        BY <2>1
      <4>2. tempbuf[r][off[r] + (n + i)] = Len(delivered[r]) + (n + i)
        BY <4>1 DEF Buffered
      <4> QED BY <4>1, <4>2, <3>3, <2>1
    <3>7. sent[r] = (Len(delivered[r]) + n) + (llen[r] - n)
      BY <2>1, <3>3 DEF Buffered
    <3>8. llen[r] - n >= 0 /\ (off[r] + n) + (llen[r] - n) <= BufSize
      BY <2>1 DEF Buffered
    <3>9. Len(delivered'[r]) = Len(delivered[r]) + n
      BY <3>2, <3>4
    <3>10. llen'[r] >= 0 /\ off'[r] + llen'[r] <= BufSize
      BY <3>4, <3>8
    <3>11. sent'[r] = Len(delivered'[r]) + llen'[r]
      BY <2>2, <3>4, <3>7, <3>9
    <3>12. \A i \in 1 .. llen'[r] : tempbuf'[r][off'[r] + i] = Len(delivered'[r]) + i
      BY <2>2, <3>4, <3>6, <3>9
    <3>13. pc'[r] = "read"
      BY <3>4
    <3> QED BY <2>3, <3>5, <3>10, <3>11, <3>12, <3>13 DEF Buffered
  <2>4. CASE o # r
    <3> HIDE DEF n, f
    <3> QED BY <2>2, <2>4, Untouched DEF TypeOK
  <2> QED BY <2>3, <2>4
<1>12. ASSUME NEW p \in Params, UpdateParameter(p) PROVE Buffered(o)'
  <2>1. readRate' = readRate
    <3>1. CASE MaxUpdates = 0
      BY <1>12, <3>1 DEF TypeOK, UpdateParameter
    <3>2. CASE \A v, q \in Params : v.rate = q.rate
      BY <1>12, <3>2 DEF TypeOK, UpdateParameter
    <3> QED BY <3>1, <3>2 DEF RateKept
  <2> QED BY <1>12, <2>1, Untouched DEF UpdateParameter, buffer, stream
<1>13. ASSUME Tick PROVE Buffered(o)'
  BY <1>13, Untouched DEF Tick, action, buffer, stream
<1>14. ASSUME Cancel PROVE Buffered(o)'
  BY <1>14, Untouched DEF Cancel, action, buffer, stream
<1>15. ASSUME UNCHANGED vars PROVE Buffered(o)'
  BY <1>15 DEF TypeOK, Buffered, vars, action, buffer, stream
<1> QED
  BY <1>1, <1>2, <1>3, <1>4, <1>5, <1>6, <1>7, <1>8, <1>9, <1>10, <1>11, <1>12, <1>13, <1>14, <1>15
  DEF Next, ReaderStep

-----------------------------------------------------------------------------
LEMMA Initially == Init => TypeOK /\ Busy /\ \A r \in Readers : Buffered(r)
<1> SUFFICES ASSUME Init PROVE TypeOK /\ Busy /\ \A r \in Readers : Buffered(r)
  OBVIOUS
<1>1. /\ \E p \in Params : /\ readRate = p.rate /\ readBurst = p.burst
                           /\ slimitMaxFlow = p.burst \div LimitshareSize
      /\ slimitMaxFlow \in Nat /\ residReadueBurst \in 0 .. readBurst
  BY ShareSize DEF Init
<1>2. 0 \in Shares /\ 0 \in 0 .. BufSize /\ 0 \in 0 .. MaxBytes
  BY FlowAssumption DEF Shares
<1>3. /\ tempbuf \in [Readers -> [1 .. BufSize -> 0 .. MaxBytes]]
      /\ delivered \in [Readers -> Seq(0 .. MaxBytes)]
      /\ off \in [Readers -> 0 .. BufSize] /\ sent \in [Readers -> 0 .. MaxBytes]
  BY <1>2 DEF Init
<1>4. TypeOK
  <2>1. /\ rflow \in [Shares -> Nat] /\ owner \in [Shares -> Readers \cup {nil}]
        /\ idx \in [Readers -> Shares]
    BY <1>1, <1>2 DEF Init
  <2>2. /\ nowTimeUnix \in 0 .. clock /\ clock \in 0 .. MaxSeconds
        /\ granted \in Nat /\ updates \in 0 .. MaxUpdates /\ cc \in Shares
    <3>1. 0 \in 0 .. 0 /\ 0 \in 0 .. MaxSeconds /\ 0 \in 0 .. MaxUpdates /\ 0 \in Nat
      BY FlowAssumption
    <3> QED BY <1>2, <3>1 DEF Init
  <2>3. /\ size \in [Readers -> Nat] /\ llen \in [Readers -> Int]
        /\ pc \in [Readers -> {"read", "fill", "share", "lock", "refill", "rate",
                               "reload", "wait", "copy", "ended", "panic"}]
    BY DEF Init
  <2>4. cancelled \in BOOLEAN
    BY Zenon DEF Init
  <2> QED BY <1>1, <1>3, <2>1, <2>2, <2>3, <2>4 DEF TypeOK
<1>5. Busy
  BY DEF Init, Busy, Working
<1>6. \A r \in Readers : Buffered(r)
  <2> SUFFICES ASSUME NEW r \in Readers PROVE Buffered(r)
    OBVIOUS
  <2>1. /\ llen[r] = 0 /\ off[r] = 0 /\ sent[r] = 0 /\ pc[r] = "read"
        /\ delivered[r] = <<>> /\ Len(delivered[r]) = 0
    BY DEF Init
  <2>2. 0 >= 0 /\ 0 + 0 <= BufSize /\ 0 = 0 + 0 /\ \A i \in 1 .. 0 : FALSE
    BY FlowAssumption
  <2> QED BY <2>1, <2>2 DEF Buffered
<1> QED BY <1>4, <1>5, <1>6

(* The fields of LimitedReaderAction and LimitedReader keep their types    *)
(* under any interleaving of readers, updates and seconds: no share goes   *)
(* below 0 and the rest of the burst stays within the burst, also when     *)
(* UpdateParameter changes both in the middle of a second.                 *)
THEOREM TypeCorrect == Spec => []TypeOK
<1>1. Init => TypeOK /\ Busy
  BY Initially
<1>2. TypeOK /\ Busy /\ [Next]_vars => (TypeOK /\ Busy)'
  BY Types
<1> QED BY <1>1, <1>2, PTL DEF Spec

LEMMA Invariance == ASSUME RateKept PROVE Spec => []IInv
<1>1. Init => IInv
  BY Initially DEF IInv
<1>2. IInv /\ [Next]_vars => IInv'
  BY Types, Buffers DEF IInv
<1> QED BY <1>1, <1>2, PTL DEF Spec

(* While the rate stays the same, Read never copies more than the buffer   *)
(* holds (flow_limit.go 205-215), for any rate, shares, readers and        *)
(* updates of the burst.                                                   *)
THEOREM WithinData == ASSUME RateKept PROVE Spec => []CopyWithinData
<1>1. IInv => CopyWithinData
  BY DEF IInv, TypeOK, Buffered, CopyWithinData
<1> QED BY <1>1, Invariance, PTL

(* While the rate stays the same, a LimitedReader hands on the bytes of    *)
(* its source, each once and in order.                                     *)
THEOREM InOrder == ASSUME RateKept PROVE Spec => []DeliveredIsPrefix
<1>1. IInv => DeliveredIsPrefix
  BY DEF IInv, Buffered, DeliveredIsPrefix
<1> QED BY <1>1, Invariance, PTL
-----------------------------------------------------------------------------
(* The budget.  LockedShares: a share is locked exactly while GetReadSize  *)
(* works on it, and it is empty when it is about to be refilled.           *)
Locking == {"refill", "rate", "reload"}

LockedShares ==
    /\ \A r \in Readers : pc[r] \in Locking => owner[idx[r]] = r
    /\ \A s \in Shares : owner[s] # nil => idx[owner[s]] = s /\ pc[owner[s]] \in Locking
    /\ \A r \in Readers : pc[r] = "refill" => rflow[idx[r]] = 0

(* The shares that are charged for a read which has not returned yet, and  *)
(* what a share holds with the least that read can have been charged.      *)
Reloading == {s \in Shares : owner[s] # nil /\ pc[owner[s]] = "reload"}
Held == [s \in Shares |-> rflow[s] + IF s \in Reloading THEN MinRate ELSE 0]
Cap == MaxBurst \div LimitshareSize
Spread == MaxRate - MinRate

(* f[k] is the sum of the first k values of v; any segment of v has at     *)
(* most C on average.  The sums are named, not defined by recursion, so    *)
(* that a change of one value can be followed without induction.           *)
Sums(f, v, n, C) ==
    /\ f \in [0 .. n -> Int] /\ f[0] = 0
    /\ \A s \in 0 .. n - 1 : f[s + 1] = f[s] + v[s]
    /\ \A j, k \in 0 .. n : j <= k => f[j] <= f[k] /\ f[k] - f[j] <= (k - j) * C

(* w is v with the value x at s. *)
OneChanged(v, w, n, s, x) == \A i \in 0 .. n - 1 : w[i] = IF i = s THEN x ELSE v[i]

(* All flow that can still be granted in this second. *)
Budgeted(f) ==
    /\ Sums(f, Held, LimitshareSize, Cap)
    /\ granted + f[LimitshareSize] + (readRate - MinRate) * Cardinality(Reloading) + Left
          <= (2 + updates) * MaxBurst + (1 + updates) * (LimitshareSize * Spread)

RInv == TypeOK /\ Busy /\ LockedShares /\ \E f : Budgeted(f)

-----------------------------------------------------------------------------
LEMMA DivLe == ASSUME NEW a \in Nat, NEW n \in Nat \ {0} PROVE n * (a \div n) <= a /\ a \div n \in Nat
  BY Z3
LEMMA DivMono == ASSUME NEW a \in Nat, NEW b \in Nat, a <= b, NEW n \in Nat \ {0} PROVE a \div n <= b \div n
  BY Z3

LEMMA ProductLe ==
    ASSUME NEW a \in Nat, NEW b \in Nat, NEW c \in Nat, NEW d \in Nat, a <= b, c <= d
    PROVE  a * c >= 0 /\ a * c <= d * b
<1>1. a * c <= b * c /\ b * c <= b * d /\ b * d = d * b /\ a * c >= 0
  OBVIOUS
<1> QED BY <1>1

(* One value of v changes. *)
LEMMA SumStep ==
    ASSUME NEW n \in Nat, NEW C \in Nat, NEW v \in [0 .. n - 1 -> Int],
           NEW f, Sums(f, v, n, C), NEW s \in 0 .. n - 1, NEW x \in Nat, x <= C,
           NEW w, OneChanged(v, w, n, s, x)
    PROVE  \E g : Sums(g, w, n, C) /\ g[n] = f[n] + x - v[s]
<1>a. v[s] \in Int /\ n - 1 \in Int
  OBVIOUS
<1>b. PICK d \in Int : d = x - v[s]
  BY <1>a
<1> DEFINE g == [k \in 0 .. n |-> IF k <= s THEN f[k] ELSE f[k] + d]
<1>f. f \in [0 .. n -> Int] /\ f[0] = 0
  BY DEF Sums
<1>1. /\ \A i \in 0 .. n - 1 : f[i + 1] = f[i] + v[i]
      /\ \A j, k \in 0 .. n : j <= k => f[j] <= f[k] /\ f[k] - f[j] <= (k - j) * C
  BY DEF Sums
<1>c. \A k \in 0 .. n : f[k] \in Int
  BY <1>f
<1>d. \A k \in 0 .. n : g[k] = IF k <= s THEN f[k] ELSE f[k] + d
  OBVIOUS
<1>e. g \in [0 .. n -> Int]
  BY <1>c
<1>w. \A i \in 0 .. n - 1 : w[i] = (IF i = s THEN x ELSE v[i]) /\ v[i] \in Int
  BY DEF OneChanged
<1> HIDE DEF g
<1>2. g[0] = 0 /\ g[n] = f[n] + x - v[s]
  BY <1>a, <1>b, <1>c, <1>d, <1>f
<1>3. ASSUME NEW i \in 0 .. n - 1 PROVE g[i + 1] = g[i] + w[i]
  <2>1. f[i + 1] = f[i] + v[i] /\ i \in 0 .. n /\ i + 1 \in 0 .. n
    BY <1>1
  <2>2. /\ g[i] = (IF i <= s THEN f[i] ELSE f[i] + d)
        /\ g[i + 1] = (IF i + 1 <= s THEN f[i + 1] ELSE f[i + 1] + d)
        /\ w[i] = (IF i = s THEN x ELSE v[i])
        /\ f[i] \in Int /\ f[i + 1] \in Int /\ v[i] \in Int
    BY <1>c, <1>d, <1>w, <2>1
  <2>3. CASE i < s
    BY <2>1, <2>2, <2>3
  <2>4. CASE i = s
    BY <1>b, <2>1, <2>2, <2>4
  <2>5. CASE i > s
    BY <1>b, <2>1, <2>2, <2>5
  <2> QED BY <2>3, <2>4, <2>5
<1>4. ASSUME NEW j \in 0 .. n, NEW k \in 0 .. n, j <= k
      PROVE  g[j] <= g[k] /\ g[k] - g[j] <= (k - j) * C
  <2>0. f[j] <= f[k] /\ f[k] - f[j] <= (k - j) * C
    BY <1>1, <1>4
  <2>i. f[k] \in Int /\ f[j] \in Int
    BY <1>c
  <2>a. (k - j) * C \in Int
    OBVIOUS
  <2>1. CASE k <= s
    <3>1. g[k] = f[k] /\ g[j] = f[j]
      BY <1>d, <1>4, <2>1
    <3> QED BY <2>0, <2>i, <3>1
  <2>2. CASE s < j
    <3>1. g[k] = f[k] + d /\ g[j] = f[j] + d
      BY <1>d, <1>4, <2>2
    <3> QED BY <1>b, <2>0, <2>i, <2>a, <3>1
  <2>3. CASE j <= s /\ s < k
    <3>1. s \in 0 .. n /\ s + 1 \in 0 .. n /\ s + 1 <= k
      BY <2>3
    <3>2. /\ f[k] - f[s + 1] <= (k - (s + 1)) * C /\ f[s] - f[j] <= (s - j) * C
          /\ f[s + 1] <= f[k] /\ f[j] <= f[s]
      BY <1>1, <2>3, <3>1
    <3>3. f[s + 1] = f[s] + v[s] /\ g[k] = f[k] + d /\ g[j] = f[j]
      BY <1>1, <1>d, <2>3
    <3>4. (k - (s + 1)) * C + C + (s - j) * C = (k - j) * C
      OBVIOUS
    <3>5. f[s] \in Int /\ f[s + 1] \in Int
      BY <1>c, <3>1
    <3>6. PICK p \in Int, q \in Int : p = (k - (s + 1)) * C /\ q = (s - j) * C
      OBVIOUS
    <3>7. PICK fj \in Int, fs \in Int, fk \in Int, vs \in Int :
                   fj = f[j] /\ fs = f[s] /\ fk = f[k] /\ vs = v[s]
      BY <1>a, <2>i, <3>5
    <3>8. fk - (fs + vs) <= p /\ fs - fj <= q /\ fs + vs <= fk /\ fj <= fs /\ g[k] = fk + d /\ g[j] = fj /\ d = x - vs
      BY <1>b, <3>2, <3>3, <3>6, <3>7
    <3>9. fk + d - fj <= p + C + q /\ fj <= fk + d
      BY <3>8
    <3>10. g[k] - g[j] <= p + C + q /\ g[j] <= g[k]
      BY <3>8, <3>9
    <3> QED BY <3>4, <3>6, <3>10
  <2> QED BY <2>1, <2>2, <2>3
<1>5. Sums(g, w, n, C)
  BY <1>e, <1>2, <1>3, <1>4 DEF Sums
<1> QED BY <1>2, <1>5

LEMMA Extremes ==
    /\ MaxBurst \in Nat /\ MaxRate \in Nat /\ MinRate \in Nat /\ Spread \in Nat
    /\ \A p \in Params : /\ p.burst <= MaxBurst /\ MinRate <= p.rate /\ p.rate <= MaxRate
                         /\ p.rate - MinRate \in 0 .. Spread
    /\ LimitshareSize \in Nat \ {0} /\ Cap \in Nat /\ LimitshareSize * Cap <= MaxBurst
    /\ \A p \in Params : p.burst \div LimitshareSize <= Cap
<1>1. /\ MaxBurst \in {p.burst : p \in Params}
      /\ \A p \in Params : p.burst <= MaxBurst
  <2>1. \E b \in {p.burst : p \in Params} : \A p \in Params : p.burst <= b
    BY FlowAssumption
  <2> QED BY <2>1 DEF MaxBurst
<1>2. /\ MaxRate \in {p.rate : p \in Params}
      /\ \A p \in Params : p.rate <= MaxRate
  <2>1. \E b \in {p.rate : p \in Params} : \A p \in Params : p.rate <= b
    BY FlowAssumption
  <2> QED BY <2>1 DEF MaxRate
<1>3. /\ MinRate \in {p.rate : p \in Params}
      /\ \A p \in Params : MinRate <= p.rate
  <2>1. \E b \in {p.rate : p \in Params} : \A p \in Params : b <= p.rate
    BY FlowAssumption
  <2> QED BY <2>1 DEF MinRate
<1>4. \A p \in Params : p.rate \in Nat /\ p.burst \in Nat
  BY FlowAssumption
<1>5. MaxBurst \in Nat /\ MaxRate \in Nat /\ MinRate \in Nat /\ MinRate <= MaxRate
  BY <1>1, <1>2, <1>3, <1>4
<1>6. LimitshareSize \in Nat \ {0}
  BY FlowAssumption
<1>7. Cap \in Nat /\ LimitshareSize * Cap <= MaxBurst
  BY <1>5, <1>6, DivLe DEF Cap
<1>8. \A p \in Params : p.burst \div LimitshareSize <= Cap
  BY <1>1, <1>4, <1>5, <1>6, DivMono DEF Cap
<1>9. Spread \in Nat /\ \A p \in Params : p.rate - MinRate \in 0 .. Spread
  BY <1>2, <1>3, <1>4, <1>5 DEF Spread
<1> QED BY <1>1, <1>2, <1>3, <1>5, <1>6, <1>7, <1>8, <1>9

LEMMA InUse ==
    ASSUME TypeOK
    PROVE  /\ readBurst <= MaxBurst /\ slimitMaxFlow <= Cap /\ readRate \in Nat
           /\ MinRate <= readRate /\ readRate - MinRate \in 0 .. Spread
           /\ readBurst \in Nat /\ slimitMaxFlow \in Nat
<1>1. PICK p \in Params : /\ readRate = p.rate /\ readBurst = p.burst
                          /\ slimitMaxFlow = p.burst \div LimitshareSize
  BY DEF TypeOK
<1> QED BY <1>1, Extremes, Budget

(* The number of reads on their way: at most one per share. *)
LEMMA Reloads ==
    /\ IsFiniteSet(Reloading) /\ Cardinality(Reloading) \in 0 .. LimitshareSize
    /\ \A s \in Reloading : Cardinality(Reloading \ {s}) = Cardinality(Reloading) - 1
    /\ \A s \in Shares \ Reloading : Cardinality(Reloading \cup {s}) = Cardinality(Reloading) + 1
<1>1. IsFiniteSet(Shares) /\ Cardinality(Shares) = LimitshareSize
  BY FlowAssumption, FS_Interval DEF Shares
<1>2. Reloading \in SUBSET Shares
  BY DEF Reloading
<1>3. IsFiniteSet(Reloading) /\ Cardinality(Reloading) <= LimitshareSize
  BY <1>1, <1>2, FS_Subset
<1>4. Cardinality(Reloading) \in Nat
  BY <1>3, FS_CardinalityType
<1>5. \A s \in Reloading : Cardinality(Reloading \ {s}) = Cardinality(Reloading) - 1
  BY <1>3, FS_RemoveElement
<1>6. \A s \in Shares \ Reloading : Cardinality(Reloading \cup {s}) = Cardinality(Reloading) + 1
  BY <1>3, FS_AddElement
<1> QED BY <1>1, <1>3, <1>4, <1>5, <1>6, FlowAssumption

LEMMA BudgetKept ==
    ASSUME NEW f, Budgeted(f), Held' = Held, Reloading' = Reloading,
           UNCHANGED <<granted, updates, readRate>>, Left' = Left
    PROVE  Budgeted(f)'
BY DEF Budgeted, Sums

(* A step of a reader that holds no share and takes none. *)
LEMMA QuietStep ==
    ASSUME TypeOK, LockedShares, NEW r \in Readers, NEW l, l \notin Locking,
           pc[r] \notin Locking, pc' = [pc EXCEPT ![r] = l],
           \A o \in Readers : o # r => idx'[o] = idx[o], UNCHANGED <<rflow, owner>>
    PROVE  LockedShares' /\ Reloading' = Reloading /\ Held' = Held
<1>1. \A o \in Readers : pc'[o] = IF o = r THEN l ELSE pc[o]
  BY Maps
<1>2. \A s \in Shares : owner[s] # nil => owner[s] \in Readers /\ owner[s] # r
  BY Maps DEF LockedShares
<1>3. Reloading' = Reloading
  BY <1>1, <1>2 DEF Reloading
<1>4. Held' = Held
  BY <1>3 DEF Held
<1>5. LockedShares'
  BY <1>1, <1>2 DEF LockedShares, Locking
<1> QED BY <1>3, <1>4, <1>5

(* A step by which a reader lets go of its share. *)
LEMMA UnlockStep ==
    ASSUME TypeOK, LockedShares, NEW r \in Readers, NEW l, l \notin Locking,
           pc[r] \in Locking, pc' = [pc EXCEPT ![r] = l],
           owner' = [owner EXCEPT ![idx[r]] = nil], UNCHANGED idx,
           \A s \in Shares : s # idx[r] => rflow'[s] = rflow[s]
    PROVE  /\ LockedShares' /\ Reloading' = Reloading \ {idx[r]}
           /\ idx[r] \in Reloading <=> pc[r] = "reload"
<1>1. \A o \in Readers : pc'[o] = IF o = r THEN l ELSE pc[o]
  BY Maps
<1>2. idx[r] \in Shares /\ owner[idx[r]] = r /\ r # nil
  BY Maps, FlowAssumption DEF LockedShares
<1>3. \A s \in Shares : owner'[s] = IF s = idx[r] THEN nil ELSE owner[s]
  BY Maps
<1>4. \A s \in Shares : owner[s] # nil => owner[s] \in Readers /\ (owner[s] = r => s = idx[r])
  BY Maps DEF LockedShares
<1>5. Reloading' = Reloading \ {idx[r]}
  BY <1>1, <1>3, <1>4 DEF Reloading
<1>6. LockedShares'
  <2>1. \A s \in Shares : owner'[s] # nil => idx'[owner'[s]] = s /\ pc'[owner'[s]] \in Locking
    BY <1>1, <1>3, <1>4 DEF LockedShares
  <2>2. ASSUME NEW o \in Readers, pc'[o] \in Locking
        PROVE  /\ o # r /\ pc[o] \in Locking /\ idx[o] \in Shares /\ idx[o] # idx[r]
               /\ owner[idx[o]] = o
    BY <1>1, <1>2, <2>2, Maps DEF LockedShares
  <2>3. \A o \in Readers : pc'[o] \in Locking => owner'[idx'[o]] = o
    BY <1>3, <2>2
  <2>4. \A o \in Readers : pc'[o] = "refill" => rflow'[idx'[o]] = 0
    BY <1>1, <2>2 DEF LockedShares, Locking
  <2> QED BY <2>1, <2>3, <2>4 DEF LockedShares
<1>7. idx[r] \in Reloading <=> pc[r] = "reload"
  BY <1>2 DEF Reloading
<1> QED BY <1>5, <1>6, <1>7

(* A step by which a reader goes on with its share. *)
LEMMA HoldStep ==
    ASSUME TypeOK, LockedShares, NEW r \in Readers, NEW l \in {"rate", "reload"},
           pc[r] \in {"refill", "rate"}, pc' = [pc EXCEPT ![r] = l],
           UNCHANGED <<owner, idx>>,
           \A s \in Shares : s # idx[r] => rflow'[s] = rflow[s]
    PROVE  /\ LockedShares' /\ idx[r] \notin Reloading
           /\ Reloading' = IF l = "reload" THEN Reloading \cup {idx[r]} ELSE Reloading
<1>1. \A o \in Readers : pc'[o] = IF o = r THEN l ELSE pc[o]
  BY Maps
<1>2. idx[r] \in Shares /\ owner[idx[r]] = r /\ r # nil
  BY Maps, FlowAssumption DEF LockedShares, Locking
<1>3. \A s \in Shares : owner[s] # nil => owner[s] \in Readers /\ (owner[s] = r => s = idx[r])
  BY Maps DEF LockedShares
<1>4. idx[r] \notin Reloading
  BY <1>2 DEF Reloading
<1>5. Reloading' = IF l = "reload" THEN Reloading \cup {idx[r]} ELSE Reloading
  BY <1>1, <1>2, <1>3 DEF Reloading
<1>6. LockedShares'
  <2>1. \A s \in Shares : owner'[s] # nil => idx'[owner'[s]] = s /\ pc'[owner'[s]] \in Locking
    BY <1>1, <1>3 DEF LockedShares, Locking
  <2>2. \A o \in Readers : pc'[o] \in Locking => owner'[idx'[o]] = o
    BY <1>1, <1>2 DEF LockedShares
  <2>3. ASSUME NEW o \in Readers, pc'[o] = "refill" PROVE rflow'[idx'[o]] = 0
    <3>1. o # r /\ pc[o] = "refill"
      BY <1>1, <2>3
    <3>2. idx[o] \in Shares /\ idx[o] # idx[r] /\ rflow[idx[o]] = 0
      BY <1>2, <3>1, Maps DEF LockedShares, Locking
    <3> QED BY <3>2
  <2> QED BY <2>1, <2>2, <2>3 DEF LockedShares
<1> QED BY <1>4, <1>5, <1>6

(* What a share holds after a step that changes one of them. *)
LEMMA HeldStep ==
    ASSUME TypeOK, TypeOK', NEW s \in Shares,
           \A i \in Shares : i # s => rflow'[i] = rflow[i],
           \A i \in Shares : i # s => (i \in Reloading' <=> i \in Reloading),
           NEW f, Sums(f, Held, LimitshareSize, Cap),
           NEW x \in Nat, x <= Cap, x = rflow'[s] + IF s \in Reloading' THEN MinRate ELSE 0
    PROVE  \E g : /\ Sums(g, Held', LimitshareSize, Cap)
                  /\ g[LimitshareSize] = f[LimitshareSize] + x - Held[s]
<1>1. rflow \in [Shares -> Nat] /\ rflow' \in [Shares -> Nat] /\ MinRate \in Nat
  BY Extremes DEF TypeOK
<1>2. Held \in [Shares -> Int]
  BY <1>1 DEF Held
<1>3. \A i \in Shares : Held'[i] = IF i = s THEN x ELSE Held[i]
  <2>1. Held' = [i \in Shares |-> rflow'[i] + IF i \in Reloading' THEN MinRate ELSE 0]
    BY DEF Held
  <2> QED BY <2>1 DEF Held
<1>4. Shares = 0 .. LimitshareSize - 1 /\ LimitshareSize \in Nat /\ Cap \in Nat
  BY Extremes DEF Shares
<1>5. /\ Held \in [0 .. LimitshareSize - 1 -> Int] /\ s \in 0 .. LimitshareSize - 1
      /\ OneChanged(Held, Held', LimitshareSize, s, x)
  BY <1>2, <1>3, <1>4 DEF OneChanged
<1> QED BY <1>4, <1>5, SumStep

(* The sum is at most a burst, and no share holds more than its part. *)
LEMMA WithinCap ==
    ASSUME NEW f, Sums(f, Held, LimitshareSize, Cap)
    PROVE  /\ f[LimitshareSize] \in 0 .. MaxBurst
           /\ \A s \in Shares : Held[s] \in Int => Held[s] <= Cap
<1>1. /\ f \in [0 .. LimitshareSize -> Int] /\ f[0] = 0
      /\ \A s \in 0 .. LimitshareSize - 1 : f[s + 1] = f[s] + Held[s]
      /\ \A j, k \in 0 .. LimitshareSize : j <= k => f[j] <= f[k] /\ f[k] - f[j] <= (k - j) * Cap
  BY DEF Sums
<1>2. LimitshareSize \in Nat \ {0} /\ Cap \in Nat /\ LimitshareSize * Cap <= MaxBurst /\ MaxBurst \in Nat
  BY Extremes
<1>3. f[LimitshareSize] \in 0 .. MaxBurst
  <2>1. f[0] <= f[LimitshareSize] /\ f[LimitshareSize] - f[0] <= (LimitshareSize - 0) * Cap
    BY <1>1, <1>2
  <2>2. f[LimitshareSize] \in Int /\ (LimitshareSize - 0) * Cap = LimitshareSize * Cap
    BY <1>1, <1>2
  <2> QED BY <1>1, <1>2, <2>1, <2>2
<1>4. ASSUME NEW s \in Shares, Held[s] \in Int PROVE Held[s] <= Cap
  <2>1. s \in 0 .. LimitshareSize /\ s + 1 \in 0 .. LimitshareSize /\ s \in 0 .. LimitshareSize - 1
    BY <1>2 DEF Shares
  <2>2. f[s] \in Int /\ f[s + 1] \in Int /\ f[s + 1] = f[s] + Held[s]
    BY <1>1, <2>1
  <2>3. f[s + 1] - f[s] <= ((s + 1) - s) * Cap /\ ((s + 1) - s) * Cap = Cap
    BY <1>1, <1>2, <2>1
  <2> QED BY <1>2, <1>4, <2>2, <2>3
<1> QED BY <1>3, <1>4

(* What reads on their way can get beyond what they were charged. *)
LEMMA MostReloads ==
    ASSUME NEW v \in Nat, v - MinRate \in 0 .. Spread
    PROVE  /\ (v - MinRate) * Cardinality(Reloading) >= 0
           /\ (v - MinRate) * Cardinality(Reloading) <= LimitshareSize * Spread
<1>1. PICK d \in Nat : d = v - MinRate /\ d <= Spread
  BY Extremes
<1>2. PICK c \in Nat : c = Cardinality(Reloading) /\ c <= LimitshareSize
  BY Reloads
<1>3. Spread \in Nat /\ LimitshareSize \in Nat
  BY Extremes
<1>4. d * c >= 0 /\ d * c <= LimitshareSize * Spread
  BY <1>3, <1>1, <1>2, ProductLe
<1> QED BY <1>1, <1>2, <1>4

LEMMA Rates == ASSUME RInv, [Next]_vars PROVE LockedShares' /\ \E g : Budgeted(g)'
<1>t. TypeOK /\ Busy /\ LockedShares /\ TypeOK'
  BY Types DEF RInv
<1>f. PICK f : Budgeted(f)
  BY DEF RInv
<1>s. /\ Sums(f, Held, LimitshareSize, Cap)
      /\ granted + f[LimitshareSize] + (readRate - MinRate) * Cardinality(Reloading) + Left
           <= (2 + updates) * MaxBurst + (1 + updates) * (LimitshareSize * Spread)
  BY <1>f DEF Budgeted
<1>1. ASSUME NEW r \in Readers,
             CheckContext(r) \/ Eof(r) \/ Fill(r) \/ Resume(r) \/ PickShare(r) \/ Wait(r) \/ Copy(r)
      PROVE  LockedShares' /\ \E g : Budgeted(g)'
  <2>1. /\ pc[r] \in {"read", "fill", "share", "wait", "copy"}
        /\ \E l \in {"ended", "fill", "share", "lock", "copy", "panic", "read"} : pc' = [pc EXCEPT ![r] = l]
        /\ UNCHANGED <<rflow, owner, granted, updates, readRate, readBurst, residReadueBurst, nowTimeUnix, clock>>
    BY <1>1 DEF CheckContext, Eof, Fill, Resume, PickShare, Wait, Copy, Goto, action
  <2>2. \A o \in Readers : o # r => idx'[o] = idx[o]
    BY <1>1, <1>t DEF CheckContext, Eof, Fill, Resume, PickShare, Wait, Copy, TypeOK
  <2>3. Left' = Left
    BY <2>1 DEF Left
  <2>4. LockedShares' /\ Reloading' = Reloading /\ Held' = Held
    BY <1>t, <2>1, <2>2, QuietStep DEF Locking
  <2> QED BY <1>f, <2>1, <2>3, <2>4, BudgetKept
<1>2. ASSUME NEW r \in Readers, LockShare(r) PROVE LockedShares' /\ \E g : Budgeted(g)'
  <2>1. /\ pc[r] = "lock" /\ owner[idx[r]] = nil /\ owner' = [owner EXCEPT ![idx[r]] = r]
        /\ pc' = [pc EXCEPT ![r] = IF rflow[idx[r]] <= 0 THEN "refill" ELSE "rate"]
        /\ UNCHANGED <<rflow, idx, granted, updates, readRate, readBurst, residReadueBurst, nowTimeUnix, clock>>
    BY <1>2 DEF LockShare, Goto, action
  <2>2. PICK l \in {"refill", "rate"} :
            /\ l = IF rflow[idx[r]] <= 0 THEN "refill" ELSE "rate"
            /\ \A o \in Readers : pc'[o] = IF o = r THEN l ELSE pc[o]
    BY <1>t, <2>1, Maps
  <2>3. /\ idx[r] \in Shares /\ rflow[idx[r]] \in Nat
        /\ \A s \in Shares : owner'[s] = IF s = idx[r] THEN r ELSE owner[s]
        /\ \A s \in Shares : owner[s] # nil => owner[s] \in Readers /\ owner[s] # r
    BY <1>t, <2>1, Maps DEF LockedShares, Locking
  <2>4. Reloading' = Reloading
    BY <2>1, <2>2, <2>3 DEF Reloading
  <2>5. Held' = Held
    BY <2>1, <2>4 DEF Held
  <2>6. LockedShares'
    <3>1. \A s \in Shares : owner'[s] # nil => idx'[owner'[s]] = s /\ pc'[owner'[s]] \in Locking
      BY <1>t, <2>1, <2>2, <2>3 DEF LockedShares, Locking
    <3>2. ASSUME NEW o \in Readers, pc'[o] \in Locking PROVE owner'[idx'[o]] = o
      <4>1. CASE o = r
        BY <2>1, <2>3, <4>1
      <4>2. CASE o # r
        <5>1. idx[o] \in Shares /\ owner[idx[o]] = o /\ o # nil
          <6>1. pc[o] \in Locking
            BY <2>2, <3>2, <4>2
          <6>2. idx[o] \in Shares /\ o # nil
            BY <1>t, FlowAssumption, Maps
          <6> QED BY <1>t, <6>1, <6>2 DEF LockedShares
        <5> QED BY <2>1, <2>3, <5>1
      <4> QED BY <4>1, <4>2
    <3>3. \A o \in Readers : pc'[o] = "refill" => rflow'[idx'[o]] = 0
      BY <1>t, <2>1, <2>2, <2>3 DEF LockedShares
    <3> QED BY <3>1, <3>2, <3>3 DEF LockedShares
  <2>7. Left' = Left
    BY <2>1 DEF Left
  <2> QED BY <1>f, <2>1, <2>4, <2>5, <2>6, <2>7, BudgetKept
<1>n. /\ readRate \in Nat /\ MinRate \in Nat /\ readRate - MinRate \in Nat /\ Spread \in Nat
      /\ granted \in Nat /\ Left \in Nat /\ updates \in Nat /\ MaxBurst \in Nat
      /\ f[LimitshareSize] \in Int /\ LimitshareSize \in Nat /\ Cap \in Nat
      /\ Cardinality(Reloading) \in Nat /\ rflow \in [Shares -> Nat]
  <2>1. granted \in Nat /\ updates \in Nat /\ rflow \in [Shares -> Nat]
    BY <1>t, FlowAssumption DEF TypeOK
  <2>2. Left \in Nat
    BY <1>t, Budget
  <2>3. LimitshareSize \in 0 .. LimitshareSize
    BY Extremes
  <2>4. f[LimitshareSize] \in Int
    BY <1>s, <2>3 DEF Sums
  <2>5. Cardinality(Reloading) \in Nat
    BY Reloads
  <2>6. readRate \in Nat /\ readRate - MinRate \in Nat
    BY <1>t, InUse
  <2> QED BY <2>1, <2>2, <2>4, <2>5, <2>6, Extremes
<1>3. ASSUME NEW r \in Readers, Refill(r) PROVE LockedShares' /\ \E g : Budgeted(g)'
  <2>1. /\ pc[r] = "refill" /\ nowTimeUnix' = clock
        /\ UNCHANGED <<readRate, clock, granted, updates, idx>>
    BY <1>3 DEF Refill
  <2>2. Left' = residReadueBurst'
    BY <2>1 DEF Left
  <2>3. idx[r] \in Shares /\ rflow[idx[r]] = 0
    BY <1>t, <2>1, Maps DEF LockedShares
  <2>4. CASE Left = 0
    <3>1. /\ owner' = [owner EXCEPT ![idx[r]] = nil] /\ pc' = [pc EXCEPT ![r] = "wait"]
          /\ residReadueBurst' = Left /\ UNCHANGED rflow
      BY <1>3, <2>4 DEF Refill, Goto
    <3>2. LockedShares' /\ Reloading' = Reloading
      <4>1. /\ LockedShares' /\ Reloading' = Reloading \ {idx[r]}
            /\ idx[r] \in Reloading <=> pc[r] = "reload"
        BY <1>t, <2>1, <3>1, UnlockStep DEF Locking
      <4> QED BY <2>1, <4>1
    <3>3. Held' = Held
      BY <3>1, <3>2 DEF Held
    <3> QED BY <1>f, <2>1, <2>2, <3>1, <3>2, <3>3, BudgetKept
  <2>5. CASE Left # 0
    <3>1. PICK m \in Nat : m = Smaller(Left, slimitMaxFlow)
      BY <1>t, Budget
    <3>2. /\ UNCHANGED owner /\ pc' = [pc EXCEPT ![r] = "rate"]
          /\ residReadueBurst' = Left - m /\ rflow' = [rflow EXCEPT ![idx[r]] = m]
      BY <1>3, <2>5, <3>1 DEF Refill, Goto
    <3>3. m <= Cap
      <4>1. slimitMaxFlow <= Cap /\ slimitMaxFlow \in Nat
        BY <1>t, InUse
      <4> QED BY <1>n, <3>1, <4>1 DEF Smaller
    <3>4. rflow'[idx[r]] = m /\ \A s \in Shares : s # idx[r] => rflow'[s] = rflow[s]
      BY <1>n, <2>3, <3>2
    <3>5. LockedShares' /\ idx[r] \notin Reloading /\ Reloading' = Reloading
      BY <1>t, <2>1, <3>2, <3>4, HoldStep
    <3>6. PICK g : /\ Sums(g, Held', LimitshareSize, Cap)
                   /\ g[LimitshareSize] = f[LimitshareSize] + m - Held[idx[r]]
      <4>1. m = rflow'[idx[r]] + IF idx[r] \in Reloading' THEN MinRate ELSE 0
        BY <3>4, <3>5
      <4> QED BY <1>t, <1>s, <2>3, <3>3, <3>4, <3>5, <4>1, HeldStep
    <3>7. Held[idx[r]] = 0
      BY <2>3, <3>5 DEF Held
    <3>8. granted' + g[LimitshareSize] + (readRate' - MinRate) * Cardinality(Reloading') + Left'
            = granted + f[LimitshareSize] + (readRate - MinRate) * Cardinality(Reloading) + Left
      <4>1. PICK c \in Int : c = (readRate - MinRate) * Cardinality(Reloading)
        BY <1>n
      <4>2. (readRate' - MinRate) * Cardinality(Reloading') = c /\ granted' = granted
        BY <2>1, <3>5, <4>1
      <4>3. Left' = Left - m /\ g[LimitshareSize] = f[LimitshareSize] + m
        BY <1>n, <2>2, <3>2, <3>6, <3>7
      <4> QED BY <1>n, <4>1, <4>2, <4>3
    <3>9. Budgeted(g)'
      BY <1>s, <2>1, <3>6, <3>8 DEF Budgeted
    <3> QED BY <3>5, <3>9
  <2> QED BY <2>4, <2>5
<1>4. ASSUME NEW r \in Readers, Charge(r) PROVE LockedShares' /\ \E g : Budgeted(g)'
  <2>1. /\ pc[r] = "rate" /\ UNCHANGED <<readRate, clock, updates, idx>> /\ Left' = Left
    BY <1>4 DEF Charge, Left, action
  <2>2. idx[r] \in Shares /\ rflow[idx[r]] \in Nat /\ llen[r] \in Nat
    BY <1>t, <2>1, Maps DEF Busy, Working
  <2>3. idx[r] \notin Reloading /\ Held[idx[r]] = rflow[idx[r]] /\ rflow[idx[r]] <= Cap
    <3>1. idx[r] \notin Reloading
      BY <1>t, <2>1, <2>2 DEF LockedShares, Locking, Reloading
    <3>2. Held[idx[r]] = rflow[idx[r]]
      BY <1>n, <2>2, <3>1 DEF Held
    <3> QED BY <1>n, <1>s, <2>2, <3>1, <3>2, WithinCap
  <2>4. \/ \E n \in Nat, l \in {"wait", "copy"} :
              /\ n <= rflow[idx[r]] /\ granted' = granted + n
              /\ rflow' = [rflow EXCEPT ![idx[r]] = rflow[idx[r]] - n]
              /\ owner' = [owner EXCEPT ![idx[r]] = nil]
              /\ pc' = [pc EXCEPT ![r] = l]
        \/ /\ readRate < rflow[idx[r]] /\ granted' = granted
           /\ rflow' = [rflow EXCEPT ![idx[r]] = rflow[idx[r]] - readRate]
           /\ owner' = owner
           /\ pc' = [pc EXCEPT ![r] = "reload"]
    <3>1. /\ Smaller(llen[r], rflow[idx[r]]) \in Nat
          /\ Smaller(llen[r], rflow[idx[r]]) <= rflow[idx[r]]
      BY <2>2 DEF Smaller
    <3>2. readRate < rflow[idx[r]] /\ readRate >= llen[r] => llen[r] <= rflow[idx[r]]
      BY <1>n, <2>2
    <3> QED BY <1>4, <2>2, <3>1, <3>2 DEF Charge, Grant, Goto
  <2>5. ASSUME NEW n \in Nat, NEW l \in {"wait", "copy"},
               n <= rflow[idx[r]], granted' = granted + n,
               rflow' = [rflow EXCEPT ![idx[r]] = rflow[idx[r]] - n],
               owner' = [owner EXCEPT ![idx[r]] = nil],
               pc' = [pc EXCEPT ![r] = l]
        PROVE  LockedShares' /\ \E g : Budgeted(g)'
    <3>1. PICK x \in Nat : x = rflow[idx[r]] - n /\ x <= Cap
      BY <1>n, <2>2, <2>3, <2>5
    <3>2. rflow'[idx[r]] = x /\ \A s \in Shares : s # idx[r] => rflow'[s] = rflow[s]
      BY <1>n, <2>2, <2>5, <3>1
    <3>3. LockedShares' /\ Reloading' = Reloading
      <4>1. LockedShares' /\ Reloading' = Reloading \ {idx[r]}
        BY <1>t, <2>1, <2>5, <3>2, UnlockStep DEF Locking
      <4> QED BY <2>3, <4>1
    <3>4. PICK g : /\ Sums(g, Held', LimitshareSize, Cap)
                   /\ g[LimitshareSize] = f[LimitshareSize] + x - Held[idx[r]]
      <4>1. x = rflow'[idx[r]] + IF idx[r] \in Reloading' THEN MinRate ELSE 0
        BY <2>3, <3>2, <3>3
      <4> QED BY <1>t, <1>s, <2>2, <3>1, <3>2, <3>3, <4>1, HeldStep
    <3>5. /\ granted' = granted + n /\ x = rflow[idx[r]] - n /\ rflow[idx[r]] \in Nat
          /\ g[LimitshareSize] = f[LimitshareSize] + x - rflow[idx[r]]
      BY <2>2, <2>3, <2>5, <3>1, <3>4
    <3>6. granted' + g[LimitshareSize] = granted + f[LimitshareSize]
      BY <1>n, <3>5
    <3>7. granted' + g[LimitshareSize] + (readRate' - MinRate) * Cardinality(Reloading') + Left'
            = granted + f[LimitshareSize] + (readRate - MinRate) * Cardinality(Reloading) + Left
      <4>1. (readRate' - MinRate) * Cardinality(Reloading') = (readRate - MinRate) * Cardinality(Reloading)
        BY <2>1, <3>3
      <4> QED BY <2>1, <3>6, <4>1
    <3>8. Budgeted(g)'
      BY <1>s, <2>1, <3>4, <3>7 DEF Budgeted
    <3> QED BY <3>3, <3>8
  <2>6. ASSUME readRate < rflow[idx[r]], granted' = granted,
               rflow' = [rflow EXCEPT ![idx[r]] = rflow[idx[r]] - readRate],
               owner' = owner, pc' = [pc EXCEPT ![r] = "reload"]
        PROVE  LockedShares' /\ \E g : Budgeted(g)'
    <3>1. PICK x \in Nat : x = rflow[idx[r]] - readRate + MinRate /\ x <= Cap
      BY <1>n, <2>2, <2>3, <2>6
    <3>2. /\ rflow'[idx[r]] = rflow[idx[r]] - readRate
          /\ \A s \in Shares : s # idx[r] => rflow'[s] = rflow[s]
      BY <1>n, <2>2, <2>6
    <3>3. LockedShares' /\ Reloading' = Reloading \cup {idx[r]}
      BY <1>t, <2>1, <2>6, <3>2, HoldStep
    <3>4. PICK g : /\ Sums(g, Held', LimitshareSize, Cap)
                   /\ g[LimitshareSize] = f[LimitshareSize] + x - Held[idx[r]]
      <4>1. x = rflow'[idx[r]] + IF idx[r] \in Reloading' THEN MinRate ELSE 0
        BY <3>1, <3>2, <3>3
      <4> QED BY <1>t, <1>s, <2>2, <3>1, <3>2, <3>3, <4>1, HeldStep
    <3>5. /\ Cardinality(Reloading') = Cardinality(Reloading) + 1
          /\ g[LimitshareSize] = f[LimitshareSize] - (readRate - MinRate)
      BY <1>n, <2>2, <2>3, <3>1, <3>3, <3>4, Reloads
    <3>6. granted' + g[LimitshareSize] + (readRate' - MinRate) * Cardinality(Reloading') + Left'
            = granted + f[LimitshareSize] + (readRate - MinRate) * Cardinality(Reloading) + Left
      <4>1. (readRate' - MinRate) * Cardinality(Reloading')
               = (readRate - MinRate) * Cardinality(Reloading) + (readRate - MinRate)
        BY <1>n, <2>1, <3>5
      <4> QED BY <1>n, <2>1, <2>6, <3>5, <4>1
    <3>7. Budgeted(g)'
      BY <1>s, <2>1, <3>4, <3>6 DEF Budgeted
    <3> QED BY <3>3, <3>7
  <2> QED BY <2>4, <2>5, <2>6
<1>5. ASSUME NEW r \in Readers, Reload(r) PROVE LockedShares' /\ \E g : Budgeted(g)'
  <2>1. /\ pc[r] = "reload" /\ UNCHANGED <<readRate, clock, updates, idx>> /\ Left' = Left
        /\ granted' = granted + readRate
        /\ rflow' = [rflow EXCEPT ![idx[r]] = rflow[idx[r]] - 0]
        /\ owner' = [owner EXCEPT ![idx[r]] = nil]
        /\ \E l \in {"wait", "copy"} : pc' = [pc EXCEPT ![r] = l]
    BY <1>5 DEF Reload, Grant, Goto, Left, action
  <2>2. idx[r] \in Shares /\ rflow[idx[r]] \in Nat
    BY <1>t, Maps
  <2>3. rflow'[idx[r]] = rflow[idx[r]] /\ \A s \in Shares : s # idx[r] => rflow'[s] = rflow[s]
    BY <1>n, <2>1, <2>2
  <2>4. LockedShares' /\ Reloading' = Reloading \ {idx[r]} /\ idx[r] \in Reloading
    BY <1>t, <2>1, <2>3, UnlockStep DEF Locking
  <2>5. Held[idx[r]] = rflow[idx[r]] + MinRate /\ Held[idx[r]] <= Cap
    <3>1. Held[idx[r]] = rflow[idx[r]] + MinRate
      BY <2>2, <2>4 DEF Held
    <3> QED BY <1>n, <1>s, <2>2, <3>1, WithinCap
  <2>6. PICK x \in Nat : x = rflow[idx[r]] /\ x <= Cap
    BY <1>n, <2>2, <2>5
  <2>7. PICK g : /\ Sums(g, Held', LimitshareSize, Cap)
                 /\ g[LimitshareSize] = f[LimitshareSize] + x - Held[idx[r]]
    <3>1. x = rflow'[idx[r]] + IF idx[r] \in Reloading' THEN MinRate ELSE 0
      BY <2>3, <2>4, <2>6
    <3> QED BY <1>t, <1>s, <2>2, <2>3, <2>4, <2>6, <3>1, HeldStep
  <2>8. /\ Cardinality(Reloading') = Cardinality(Reloading) - 1
        /\ g[LimitshareSize] = f[LimitshareSize] - MinRate
    BY <1>n, <2>2, <2>4, <2>5, <2>6, <2>7, Reloads
  <2>9. granted' + g[LimitshareSize] + (readRate' - MinRate) * Cardinality(Reloading') + Left'
          = granted + f[LimitshareSize] + (readRate - MinRate) * Cardinality(Reloading) + Left
    <3>1. (readRate' - MinRate) * Cardinality(Reloading')
             = (readRate - MinRate) * Cardinality(Reloading) - (readRate - MinRate)
      BY <1>n, <2>1, <2>8
    <3> QED BY <1>n, <2>1, <2>8, <3>1
  <2>10. Budgeted(g)'
    BY <1>s, <2>1, <2>7, <2>9 DEF Budgeted
  <2> QED BY <2>4, <2>10
<1>6. ASSUME NEW p \in Params, UpdateParameter(p) PROVE LockedShares' /\ \E g : Budgeted(g)'
  <2>1. /\ UNCHANGED <<nowTimeUnix, clock, rflow, owner, pc, idx, granted>>
        /\ updates' = updates + 1 /\ readBurst' = p.burst /\ residReadueBurst' = p.burst
    BY <1>6 DEF UpdateParameter
  <2>2. LockedShares' /\ Reloading' = Reloading
    BY <1>t, <2>1 DEF LockedShares, Reloading
  <2>3. Held' = Held
    BY <2>1, <2>2 DEF Held
  <2>4. Left' = p.burst /\ p.burst \in Nat /\ p.burst <= MaxBurst
    BY <2>1, Extremes, ShareSize DEF Left
  <2>5. /\ (readRate' - MinRate) * Cardinality(Reloading) <= LimitshareSize * Spread
        /\ (readRate - MinRate) * Cardinality(Reloading) >= 0
    <3>1. readRate' = p.rate /\ p.rate \in Nat /\ p.rate - MinRate \in 0 .. Spread
      BY <1>6, Extremes, ShareSize DEF UpdateParameter
    <3>2. readRate \in Nat /\ readRate - MinRate \in 0 .. Spread
      BY <1>t, InUse
    <3> QED BY <3>1, <3>2, MostReloads
  <2>6. /\ (2 + (updates + 1)) * MaxBurst = (2 + updates) * MaxBurst + MaxBurst
        /\ (1 + (updates + 1)) * (LimitshareSize * Spread)
              = (1 + updates) * (LimitshareSize * Spread) + LimitshareSize * Spread
    BY <1>n
  <2>7. granted' + f[LimitshareSize] + (readRate' - MinRate) * Cardinality(Reloading') + Left'
          <= (2 + updates') * MaxBurst + (1 + updates') * (LimitshareSize * Spread)
    <3>a. readRate' \in Nat
      BY <1>6, ShareSize DEF UpdateParameter
    <3>1. PICK c \in Int, d \in Int, e \in Int, k \in Int :
             /\ c = (readRate - MinRate) * Cardinality(Reloading)
             /\ d = (readRate' - MinRate) * Cardinality(Reloading)
             /\ e = (2 + updates) * MaxBurst + (1 + updates) * (LimitshareSize * Spread)
             /\ k = LimitshareSize * Spread
      <4>1. /\ (readRate - MinRate) * Cardinality(Reloading) \in Int
            /\ (readRate' - MinRate) * Cardinality(Reloading) \in Int
            /\ (2 + updates) * MaxBurst + (1 + updates) * (LimitshareSize * Spread) \in Int
            /\ LimitshareSize * Spread \in Int
        BY <1>n, <3>a
      <4> QED BY Zenon, <4>1
    <3>2. (2 + updates') * MaxBurst + (1 + updates') * (LimitshareSize * Spread) = e + MaxBurst + k
      BY <1>n, <2>1, <2>6, <3>1
    <3>3. granted + f[LimitshareSize] + c + Left <= e /\ d <= k /\ c >= 0
      BY <1>s, <2>5, <3>1
    <3>4. granted + f[LimitshareSize] + d + p.burst <= e + MaxBurst + k
      BY <1>n, <2>4, <3>3
    <3> QED BY <2>1, <2>2, <2>4, <3>1, <3>2, <3>4
  <2>8. Budgeted(f)'
    BY <1>s, <2>3, <2>7 DEF Budgeted
  <2> QED BY <2>2, <2>8
<1>7. ASSUME Tick PROVE LockedShares' /\ \E g : Budgeted(g)'
  <2>1. /\ UNCHANGED <<nowTimeUnix, readBurst, readRate, residReadueBurst, rflow, owner, pc, idx>>
        /\ clock' = clock + 1 /\ updates' = 0 /\ granted' = 0
    BY <1>7 DEF Tick, action
  <2>2. LockedShares' /\ Reloading' = Reloading
    BY <1>t, <2>1 DEF LockedShares, Reloading
  <2>3. Held' = Held
    BY <2>1, <2>2 DEF Held
  <2>4. Left' = readBurst /\ readBurst \in Nat /\ readBurst <= MaxBurst
    <3>1. nowTimeUnix' # clock'
      BY <1>t, <2>1 DEF TypeOK
    <3> QED BY <1>t, <2>1, <3>1, InUse DEF Left
  <2>5. f[LimitshareSize] <= MaxBurst
    BY <1>s, <1>n, WithinCap
  <2>6. (readRate - MinRate) * Cardinality(Reloading) <= LimitshareSize * Spread
    BY <1>t, InUse, MostReloads
  <2>7. granted' + f[LimitshareSize] + (readRate' - MinRate) * Cardinality(Reloading') + Left'
          <= (2 + updates') * MaxBurst + (1 + updates') * (LimitshareSize * Spread)
    <3>1. PICK c \in Int, k \in Int :
             /\ c = (readRate - MinRate) * Cardinality(Reloading)
             /\ k = LimitshareSize * Spread
      BY <1>n
    <3>2. (2 + 0) * MaxBurst + (1 + 0) * (LimitshareSize * Spread) = MaxBurst + MaxBurst + k
      BY <1>n, <3>1
    <3>3. 0 + f[LimitshareSize] + c + readBurst <= MaxBurst + MaxBurst + k
      BY <1>n, <2>4, <2>5, <2>6, <3>1
    <3> QED BY <2>1, <2>2, <2>4, <3>1, <3>2, <3>3
  <2>8. Budgeted(f)'
    BY <1>s, <2>3, <2>7 DEF Budgeted
  <2> QED BY <2>2, <2>8
<1>8. ASSUME Cancel \/ UNCHANGED vars PROVE LockedShares' /\ \E g : Budgeted(g)'
  <2>1. UNCHANGED <<nowTimeUnix, clock, readBurst, readRate, residReadueBurst, rflow, owner, pc,
                    idx, granted, updates>>
    BY <1>8 DEF Cancel, vars, action
  <2>2. LockedShares' /\ Reloading' = Reloading /\ Left' = Left
    BY <1>t, <2>1 DEF LockedShares, Reloading, Left
  <2>3. Held' = Held
    BY <2>1, <2>2 DEF Held
  <2> QED BY <1>f, <2>1, <2>2, <2>3, BudgetKept
<1> QED
  BY <1>1, <1>2, <1>3, <1>4, <1>5, <1>6, <1>7, <1>8 DEF Next, ReaderStep

LEMMA BudgetInitially == Init => LockedShares /\ \E f : Budgeted(f)
<1> SUFFICES ASSUME Init PROVE LockedShares /\ \E f : Budgeted(f)
  OBVIOUS
<1>1. TypeOK
  BY Initially
<1>2. PICK m \in Nat : m = slimitMaxFlow /\ m <= Cap
  BY <1>1, InUse
<1>3. LimitshareSize \in Nat /\ Cap \in Nat /\ MaxBurst \in Nat /\ Spread \in Nat /\ MinRate \in Nat
  BY Extremes
<1>4. \A s \in Shares : owner[s] = nil /\ rflow[s] = m
  BY <1>2 DEF Init
<1>5. LockedShares /\ Reloading = {}
  BY <1>4 DEF Init, LockedShares, Locking, Reloading
<1>6. \A s \in Shares : Held[s] = m
  BY <1>4, <1>5 DEF Held
<1> DEFINE f == [k \in 0 .. LimitshareSize |-> k * m]
<1>7. /\ f \in [0 .. LimitshareSize -> Int] /\ f[0] = 0
      /\ f[LimitshareSize] = LimitshareSize * m
      /\ \A k \in 0 .. LimitshareSize : f[k] = k * m
  BY <1>2, <1>3
<1> HIDE DEF f
<1>8. Sums(f, Held, LimitshareSize, Cap)
  <2>1. ASSUME NEW s \in 0 .. LimitshareSize - 1 PROVE f[s + 1] = f[s] + Held[s]
    <3>1. s \in 0 .. LimitshareSize /\ s + 1 \in 0 .. LimitshareSize /\ s \in Shares
      BY <1>3 DEF Shares
    <3>2. f[s + 1] = (s + 1) * m /\ f[s] = s * m /\ Held[s] = m
      BY <1>6, <1>7, <3>1
    <3>3. (s + 1) * m = s * m + m
      OBVIOUS
    <3> QED BY <3>2, <3>3
  <2>2. ASSUME NEW j \in 0 .. LimitshareSize, NEW k \in 0 .. LimitshareSize, j <= k
        PROVE  f[j] <= f[k] /\ f[k] - f[j] <= (k - j) * Cap
    <3>1. f[k] = k * m /\ f[j] = j * m
      BY <1>7
    <3>2. k * m - j * m = (k - j) * m /\ k - j \in Nat
      BY <1>3, <2>2
    <3>3. (k - j) * m <= (k - j) * Cap /\ (k - j) * m >= 0
      <4>1. PICK d \in Nat : d = k - j
        BY <3>2
      <4>2. m * d >= 0 /\ m * d <= d * Cap /\ m * d = d * m
        BY <1>2, <1>3, ProductLe
      <4> QED BY <4>1, <4>2
    <3>4. k * m \in Int /\ j * m \in Int
      OBVIOUS
    <3> QED BY <3>1, <3>2, <3>3, <3>4
  <2> QED BY <1>7, <2>1, <2>2 DEF Sums
<1>9. granted + f[LimitshareSize] + (readRate - MinRate) * Cardinality(Reloading) + Left
         <= (2 + updates) * MaxBurst + (1 + updates) * (LimitshareSize * Spread)
  <2>1. f[LimitshareSize] \in Int /\ f[LimitshareSize] <= MaxBurst
    <3>1. LimitshareSize \in 0 .. LimitshareSize
      BY <1>3
    <3> QED BY <1>7, <1>8, <3>1, WithinCap
  <2>2. Left \in Nat /\ Left <= MaxBurst
    BY <1>1, <1>3, Budget, InUse
  <2>3. (readRate - MinRate) * Cardinality(Reloading) = 0
    <3>1. Cardinality(Reloading) = 0 /\ readRate \in Nat
      BY <1>1, <1>5, FS_EmptySet, InUse
    <3> QED BY <1>3, <3>1
  <2>4. granted = 0 /\ updates = 0
    BY DEF Init
  <2>5. PICK k \in Nat : k = LimitshareSize * Spread
    BY <1>3
  <2>6. (2 + updates) * MaxBurst + (1 + updates) * (LimitshareSize * Spread) = MaxBurst + MaxBurst + k
    BY <1>3, <2>4, <2>5
  <2> QED BY <1>3, <2>1, <2>2, <2>3, <2>4, <2>6
<1> QED BY <1>5, <1>8, <1>9 DEF Budgeted

(* In one second the readers of a user are granted at most two bursts, one *)
(* more for every UpdateParameter of that second, and for reads that were  *)
(* on their way during an update the difference of the rates, whatever the *)
(* number of readers and shares and however GetReadSize, UpdateParameter   *)
(* and the clock interleave (flow_limit.go 66-151).                        *)
THEOREM GrantsBounded == Spec => []RateBound
<1>1. Init => RInv
  BY Initially, BudgetInitially DEF RInv
<1>2. RInv /\ [Next]_vars => RInv'
  BY Types, Rates DEF RInv
<1>3. RInv => RateBound
  <2> SUFFICES ASSUME RInv PROVE RateBound
    OBVIOUS
  <2>1. PICK f : Budgeted(f)
    BY DEF RInv
  <2>2. TypeOK /\ Sums(f, Held, LimitshareSize, Cap)
        /\ granted + f[LimitshareSize] + (readRate - MinRate) * Cardinality(Reloading) + Left
              <= (2 + updates) * MaxBurst + (1 + updates) * (LimitshareSize * Spread)
    BY <2>1 DEF RInv, Budgeted
  <2>3. MaxBurst \in Nat /\ LimitshareSize \in Nat /\ Spread \in Nat /\ updates \in Nat /\ granted \in Nat
    BY <2>2, Extremes, FlowAssumption DEF TypeOK
  <2>4. f[LimitshareSize] \in Nat
    BY <2>2, <2>3, WithinCap
  <2>5. Left \in Nat
    BY <2>2, Budget
  <2>6. PICK c \in Nat, b \in Int :
           /\ c = (readRate - MinRate) * Cardinality(Reloading)
           /\ b = (2 + updates) * MaxBurst + (1 + updates) * (LimitshareSize * Spread)
    <3>1. (readRate - MinRate) * Cardinality(Reloading) \in Nat
      <4>1. readRate - MinRate \in Nat /\ Cardinality(Reloading) \in Nat
        BY <2>2, <2>3, InUse, Reloads
      <4> QED BY <4>1
    <3>2. (2 + updates) * MaxBurst + (1 + updates) * (LimitshareSize * Spread) \in Int
      BY <2>3
    <3> QED BY Zenon, <3>1, <3>2
  <2>7. granted <= b
    BY <2>2, <2>3, <2>4, <2>5, <2>6
  <2> QED BY <2>6, <2>7 DEF RateBound, Spread
<1> QED BY <1>1, <1>2, <1>3, PTL DEF Spec
=============================================================================
