---------------------------- MODULE MQueueProofs ----------------------------
(***************************************************************************)
(* Proofs about the queues and the server that empties them when it stops: *)
(* MQueue, for any sets of values, nodes and threads, and Lifecycle, for   *)
(* any number of tasks, slots, listeners, connections and queues.          *)
(***************************************************************************)
EXTENDS MQueue, Lifecycle, SequenceTheorems, TLAPS

(* Which provers a leaf is given to, and for how long. *)
USE ZenonT(3), SMTT(30), ZenonT(30)

(* The inductive invariant: the checked invariants, plus the fact that a   *)
(* linked node holds a value (a recycled one holds nil).                   *)
Stored == \A i \in 1 .. Len(order) : value[order[i]] \in Values

IInv ==
    /\ TypeOK
    /\ ListShape
    /\ Stored
    /\ ExactlyOnceInOrder
    /\ SleepsOnlyWhenIdle
    /\ DrainedBeforeExit

-----------------------------------------------------------------------------
(* Sequences of equal length and equal elements are equal. *)
LEMMA SameSeq ==
  ASSUME NEW S, NEW s \in Seq(S), NEW t \in Seq(S), Len(s) = Len(t),
         \A i \in 1 .. Len(s) : s[i] = t[i]
  PROVE  s = t
OBVIOUS

(* Appending to s \o t is appending to t. *)
LEMMA AppendConcat ==
  ASSUME NEW S, NEW s \in Seq(S), NEW t \in Seq(S), NEW e \in S
  PROVE  Append(s \o t, e) = s \o Append(t, e)
<1> DEFINE a == Append(s \o t, e)
           b == s \o Append(t, e)
<1>1. a \in Seq(S) /\ b \in Seq(S)
  OBVIOUS
<1>2. Len(a) = Len(s) + Len(t) + 1 /\ Len(b) = Len(s) + Len(t) + 1
  OBVIOUS
<1>3. ASSUME NEW i \in 1 .. Len(a) PROVE a[i] = b[i]
  <2>1. CASE i <= Len(s)
    BY <2>1
  <2>2. CASE i > Len(s) /\ i <= Len(s) + Len(t)
    BY <2>2
  <2>3. CASE i = Len(s) + Len(t) + 1
    BY <2>3
  <2> QED BY <2>1, <2>2, <2>3, <1>2
<1> HIDE DEF a, b
<1>4. a = b
  BY <1>1, <1>2, <1>3, SameSeq
<1> QED BY <1>4 DEF a, b

(* Moving the first element of t to the end of s does not change s \o t.   *)
LEMMA ShiftConcat ==
  ASSUME NEW S, NEW s \in Seq(S), NEW t \in Seq(S), t # <<>>
  PROVE  s \o t = Append(s, t[1]) \o Tail(t)
<1>1. Len(s \o t) = Len(Append(s, t[1]) \o Tail(t))
  OBVIOUS
<1>2. ASSUME NEW i \in 1 .. Len(s \o t)
      PROVE  (s \o t)[i] = (Append(s, t[1]) \o Tail(t))[i]
  OBVIOUS
<1> QED BY <1>1, <1>2

-----------------------------------------------------------------------------
(* Contents is a sequence of values, as long as the list. *)
LEMMA ContentsType ==
  ASSUME TypeOK, Stored
  PROVE  Contents \in Seq(Values) /\ Len(Contents) = Len(order)
<1>1. Len(order) \in Nat
  BY DEF TypeOK
<1> QED BY <1>1 DEF Contents, Stored

(* Linking a node from the pool appends its value to the contents. *)
LEMMA EnqueueContents ==
  ASSUME IInv, NEW v \in Values, Enqueue(v)
  PROVE  Contents' = Append(Contents, v)
<1> PICK n \in nodePool :
       /\ value' = [value EXCEPT ![n] = v]
       /\ order' = Append(order, n)
  BY DEF Enqueue
<1>1. n \in Nodes /\ order \in Seq(Nodes) /\ value \in [Nodes -> Values \cup {nil}]
  BY DEF IInv, TypeOK
<1>2. \A i \in 1 .. Len(order) : order[i] # n
  BY DEF IInv, ListShape
<1>3. Len(order') = Len(order) + 1 /\ Len(order) \in Nat
  BY <1>1
<1>4. Contents' = [i \in 1 .. Len(order) + 1 |-> value'[order'[i]]]
  BY <1>3 DEF Contents
<1>5. Contents \in Seq(Values) /\ Len(Contents) = Len(order)
  BY ContentsType DEF IInv
<1>6. ASSUME NEW i \in 1 .. Len(order) + 1
      PROVE  value'[order'[i]] = Append(Contents, v)[i]
  <2>1. CASE i = Len(order) + 1
    BY <2>1, <1>1, <1>5
  <2>2. CASE i \in 1 .. Len(order)
    <3>1. order'[i] = order[i] /\ order[i] \in Nodes
      BY <2>2, <1>1
    <3>2. value'[order[i]] = value[order[i]]
      BY <3>1, <2>2, <1>1, <1>2
    <3>3. Append(Contents, v)[i] = Contents[i]
      BY <2>2, <1>5
    <3> QED BY <3>1, <3>2, <3>3, <2>2 DEF Contents
  <2>3. i = Len(order) + 1 \/ i \in 1 .. Len(order)
    BY <1>3
  <2> QED BY <2>1, <2>2, <2>3
<1>7. Append(Contents, v) \in Seq(Values) /\ Len(Append(Contents, v)) = Len(order) + 1
  BY <1>5
<1>8. \A i \in 1 .. Len(order) + 1 : value'[order'[i]] \in Values
  BY <1>6, <1>7
<1>9. Contents' \in Seq(Values) /\ Len(Contents') = Len(order) + 1
  BY <1>3, <1>4, <1>8
<1>10. \A i \in 1 .. Len(order) + 1 : Contents'[i] = Append(Contents, v)[i]
  BY <1>4, <1>6
<1> QED BY <1>7, <1>9, <1>10, SameSeq

(* Unlinking the head removes the first value of the contents. *)
LEMMA UnlinkContents ==
  ASSUME IInv, Unlink
  PROVE  /\ Contents # <<>>
         /\ Contents[1] = value[head]
         /\ Contents' = Tail(Contents)
<1>1. order \in Seq(Nodes) /\ value \in [Nodes -> Values \cup {nil}]
  BY DEF IInv, TypeOK
<1>2. order # <<>> /\ head = order[1] /\ Len(order) \in Nat \ {0}
  BY <1>1 DEF IInv, ListShape, Unlink
<1>3. Contents \in Seq(Values) /\ Len(Contents) = Len(order)
  BY ContentsType DEF IInv
<1>4. Contents # <<>> /\ Contents[1] = value[head]
  BY <1>2, <1>3 DEF Contents
<1>5. order' = Tail(order) /\ value' = [value EXCEPT ![head] = nil]
  BY DEF Unlink
<1>6. Len(order') = Len(order) - 1
  BY <1>1, <1>2, <1>5
<1>7. Contents' = [i \in 1 .. Len(order) - 1 |-> value'[order'[i]]]
  BY <1>6 DEF Contents
<1>8. ASSUME NEW i \in 1 .. Len(order) - 1
      PROVE  value'[order'[i]] = Tail(Contents)[i]
  <2>1. order'[i] = order[i + 1] /\ order[i + 1] \in Nodes /\ i + 1 \in 1 .. Len(order)
    BY <1>1, <1>2, <1>5
  <2>2. order[i + 1] # head
    <3>1. 1 \in 1 .. Len(order) /\ i + 1 # 1
      BY <1>2
    <3> QED BY <2>1, <3>1, <1>2 DEF IInv, ListShape
  <2>3. value'[order'[i]] = value[order[i + 1]]
    BY <2>1, <2>2, <1>1, <1>5
  <2>4. Tail(Contents)[i] = Contents[i + 1]
    BY <1>3, <1>4, <1>2
  <2> QED BY <2>1, <2>3, <2>4 DEF Contents
<1>9. Tail(Contents) \in Seq(Values) /\ Len(Tail(Contents)) = Len(order) - 1
  BY <1>3, <1>4
<1>10. \A i \in 1 .. Len(order) - 1 : value'[order'[i]] \in Values
  BY <1>8, <1>9
<1>11. Contents' \in Seq(Values) /\ Len(Contents') = Len(order) - 1
  BY <1>2, <1>7, <1>10
<1>12. \A i \in 1 .. Len(order) - 1 : Contents'[i] = Tail(Contents)[i]
  BY <1>7, <1>8
<1>13. Contents' = Tail(Contents)
  BY <1>9, <1>11, <1>12, SameSeq
<1> QED BY <1>4, <1>13

-----------------------------------------------------------------------------
(* In the empty, the one-element and the longer list, linking node n keeps *)
(* the pointer structure.                                                  *)
LEMMA LinkShape ==
  ASSUME TypeOK, ListShape, NEW n \in nodePool, Link(n),
         order' = Append(order, n), count' = count + 1,
         nodePool' = nodePool \ {n}
  PROVE  ListShape' /\ head' \in Nodes \cup {nil} /\ tail' \in Nodes \cup {nil}
         /\ next' \in [Nodes -> Nodes \cup {nil}]
<1> DEFINE L == Len(order)
<1>1. /\ n \in Nodes /\ nil \notin Nodes
      /\ order \in Seq(Nodes) /\ L \in Nat
      /\ next \in [Nodes -> Nodes \cup {nil}]
      /\ head \in Nodes \cup {nil} /\ tail \in Nodes \cup {nil}
  BY MQueueAssumption DEF TypeOK
<1>2. \A i \in 1 .. L : order[i] \in Nodes /\ order[i] # n
  BY <1>1 DEF ListShape
<1>3. /\ Len(order') = L + 1 /\ order'[L + 1] = n
      /\ \A i \in 1 .. L : order'[i] = order[i]
  BY <1>1
<1>4. /\ head = IF L = 0 THEN nil ELSE order[1]
      /\ tail = IF L < 2 THEN nil ELSE order[L]
  BY <1>1 DEF ListShape
<1>5. (L = 0 <=> head = nil) /\ (L < 2 <=> tail = nil)
  BY <1>1, <1>2, <1>4
<1>6. /\ head' = IF L = 0 THEN n ELSE order[1]
      /\ tail' = IF L = 0 THEN nil ELSE n
      /\ next' = IF L = 0 THEN [next EXCEPT ![n] = nil]
                          ELSE [next EXCEPT ![n] = nil, ![order[L]] = n]
  BY <1>1, <1>4, <1>5 DEF Link
<1>7. order' # <<>> /\ order'[1] = IF L = 0 THEN n ELSE order[1]
  BY <1>1, <1>3
<1>8. /\ count' = Len(order')
      /\ head' = order'[1]
      /\ tail' = IF Len(order') < 2 THEN nil ELSE order'[Len(order')]
  BY <1>1, <1>3, <1>6, <1>7 DEF ListShape
<1>9. ASSUME NEW i \in 1 .. Len(order')
      PROVE  /\ order'[i] \notin nodePool'
             /\ next'[order'[i]] = IF i = Len(order') THEN nil ELSE order'[i + 1]
  <2>1. CASE i = L + 1
    <3>1. L # 0 => order[L] # n /\ order[L] \in Nodes
      BY <1>1, <1>2
    <3>2. next'[n] = nil
      BY <1>1, <1>6, <3>1
    <3> QED BY <2>1, <1>3, <3>2
  <2>2. CASE i \in 1 .. L
    <3>1. L # 0 /\ order'[i] = order[i] /\ order[i] \in Nodes /\ order[i] # n
          /\ order[i] \notin nodePool /\ order[L] \in Nodes
      BY <1>1, <1>2, <1>3, <2>2 DEF ListShape
    <3>2. CASE i = L
      BY <3>1, <3>2, <1>1, <1>3, <1>6
    <3>3. CASE i # L
      <4>1. order[i] # order[L] /\ i + 1 \in 1 .. L /\ i + 1 # L + 1
        BY <2>2, <3>3, <1>1 DEF ListShape
      <4>2. next'[order[i]] = next[order[i]]
        BY <4>1, <3>1, <1>1, <1>6
      <4>3. next[order[i]] = order[i + 1] /\ order'[i + 1] = order[i + 1]
        BY <2>2, <3>3, <4>1, <1>3 DEF ListShape
      <4> QED BY <2>2, <3>1, <4>1, <4>2, <4>3, <1>3
    <3> QED BY <3>2, <3>3
  <2> QED BY <2>1, <2>2, <1>1, <1>3
<1>10. ASSUME NEW i \in 1 .. Len(order'), NEW j \in 1 .. Len(order'),
              order'[i] = order'[j]
       PROVE  i = j
  <2>1. (i \in 1 .. L \/ i = L + 1) /\ (j \in 1 .. L \/ j = L + 1)
    BY <1>1, <1>3
  <2>2. CASE i \in 1 .. L /\ j \in 1 .. L
    BY <2>2, <1>3, <1>10 DEF ListShape
  <2> QED BY <2>1, <2>2, <1>2, <1>3, <1>10
<1>11. ListShape'
  BY <1>7, <1>8, <1>9, <1>10 DEF ListShape
<1>12. L # 0 => order[L] \in Nodes /\ order[1] \in Nodes
  BY <1>1, <1>2
<1> QED BY <1>1, <1>6, <1>11, <1>12

(* Unlinking the head keeps the pointer structure. *)
LEMMA UnlinkShape ==
  ASSUME TypeOK, ListShape, Unlink
  PROVE  ListShape' /\ head' \in Nodes \cup {nil} /\ tail' \in Nodes \cup {nil}
         /\ next' \in [Nodes -> Nodes \cup {nil}] /\ order' \in Seq(Nodes)
         /\ count' \in Nat /\ head \in Nodes
<1> DEFINE L == Len(order)
<1>1. /\ nil \notin Nodes
      /\ order \in Seq(Nodes) /\ L \in Nat
      /\ next \in [Nodes -> Nodes \cup {nil}]
      /\ tail \in Nodes \cup {nil}
  BY MQueueAssumption DEF TypeOK
<1>2. order # <<>> /\ L # 0 /\ head = order[1] /\ head \in Nodes
  BY <1>1 DEF ListShape, Unlink
<1>3. /\ order' = Tail(order) /\ order' \in Seq(Nodes) /\ Len(order') = L - 1
      /\ \A i \in 1 .. L - 1 : order'[i] = order[i + 1] /\ i + 1 \in 1 .. L
                               /\ i + 1 # 1
  BY <1>1, <1>2 DEF Unlink
<1>4. \A i \in 1 .. L - 1 : order'[i] # head /\ order'[i] \in Nodes
  <2> TAKE i \in 1 .. L - 1
  <2>1. order'[i] = order[i + 1] /\ i + 1 \in 1 .. L /\ i + 1 # 1 /\ 1 \in 1 .. L
    BY <1>1, <1>2, <1>3
  <2>2. order[i + 1] # order[1]
    BY <2>1 DEF ListShape
  <2> QED BY <2>1, <2>2, <1>1, <1>2
<1>5. next[head] = IF L = 1 THEN nil ELSE order[2]
  BY <1>1, <1>2 DEF ListShape
<1>6. head' = IF order' = <<>> THEN nil ELSE order'[1]
  BY <1>1, <1>2, <1>3, <1>5 DEF Unlink
<1>7. tail' = IF Len(order') < 2 THEN nil ELSE order'[Len(order')]
  <2>1. CASE L = 1
    BY <2>1, <1>3, <1>5 DEF Unlink, ListShape
  <2>2. CASE L = 2
    <3>1. tail = order[2]
      BY <2>2 DEF ListShape
    <3>2. 2 \in 1 .. Len(order) /\ order \in Seq(Nodes)
      BY <2>2, <1>1
    <3>3. order[2] \in Nodes
      BY <3>2
    <3> QED BY <2>2, <3>1, <3>3, <1>1, <1>3, <1>5 DEF Unlink
  <2>3. CASE L > 2
    <3>1. tail = order[L] /\ 2 \in 1 .. L /\ L \in 1 .. L /\ 2 # L
      BY <2>3, <1>1 DEF ListShape
    <3>2. order[2] # order[L]
      BY <3>1 DEF ListShape
    <3>3. tail' = order[L]
      BY <3>1, <3>2, <2>3, <1>5 DEF Unlink
    <3> QED BY <2>3, <3>3, <1>1, <1>3
  <2>4. L = 1 \/ L = 2 \/ L > 2
    <3>1. \A k \in Nat : k = 0 \/ k = 1 \/ k = 2 \/ k > 2
      OBVIOUS
    <3> HIDE DEF L
    <3> QED BY <3>1, <1>1, <1>2
  <2> QED BY <2>1, <2>2, <2>3, <2>4
<1>8. ASSUME NEW i \in 1 .. Len(order')
      PROVE  /\ order'[i] \notin nodePool'
             /\ next'[order'[i]] = IF i = Len(order') THEN nil ELSE order'[i + 1]
  <2>1. i \in 1 .. L - 1 /\ order'[i] = order[i + 1] /\ i + 1 \in 1 .. L
        /\ order'[i] # head /\ order'[i] \in Nodes
    BY <1>3, <1>4
  <2>2. order[i + 1] \notin nodePool
        /\ next[order[i + 1]] = IF i + 1 = L THEN nil ELSE order[i + 2]
    BY <2>1, <1>1 DEF ListShape
  <2>3. next'[order'[i]] = next[order[i + 1]] /\ order'[i] \notin nodePool'
    BY <2>1, <2>2, <1>1, <1>2 DEF Unlink
  <2>4. L \in Nat /\ i \in Nat /\ Len(order') = L - 1
    BY <2>1, <1>1, <1>3
  <2>5. CASE i = L - 1
    <3>1. i + 1 = L
      BY <2>4, <2>5
    <3> QED BY <2>2, <2>3, <2>4, <2>5, <3>1
  <2>6. CASE i # L - 1
    <3>1. i + 1 \in 1 .. L - 1 /\ i + 1 # L /\ (i + 1) + 1 = i + 2
      BY <2>1, <2>4, <2>6
    <3>2. order'[i + 1] = order[(i + 1) + 1]
      BY <3>1, <1>3
    <3> QED BY <2>2, <2>3, <2>4, <2>6, <3>1, <3>2
  <2> QED BY <2>5, <2>6
<1>9. ASSUME NEW i \in 1 .. Len(order'), NEW j \in 1 .. Len(order'),
             order'[i] = order'[j]
      PROVE  i = j
  <2>1. i \in 1 .. L - 1 /\ j \in 1 .. L - 1
    BY <1>3
  <2>2. order'[i] = order[i + 1] /\ i + 1 \in 1 .. L
    BY <2>1, <1>3
  <2>3. order'[j] = order[j + 1] /\ j + 1 \in 1 .. L
    BY <2>1, <1>3
  <2>4. i + 1 = j + 1
    BY <2>2, <2>3, <1>9 DEF ListShape
  <2>5. i \in Nat /\ j \in Nat
    BY <2>1, <1>1
  <2> QED BY <2>4, <2>5
<1>10. count' = Len(order') /\ count' \in Nat
  BY <1>1, <1>2, <1>3 DEF Unlink, ListShape
<1>11. ListShape'
  BY <1>6, <1>7, <1>8, <1>9, <1>10 DEF ListShape
<1> QED BY <1>1, <1>2, <1>3, <1>10, <1>11 DEF Unlink

-----------------------------------------------------------------------------
(* Enqueue preserves the invariant. *)
LEMMA EnqueueInv ==
  ASSUME IInv, NEW v \in Values, Enqueue(v)
  PROVE  IInv'
<1> USE DEF IInv
<1>1. PICK n \in nodePool :
       /\ nodePool' = nodePool \ {n}
       /\ value' = [value EXCEPT ![n] = v]
       /\ Link(n)
       /\ order' = Append(order, n)
  BY DEF Enqueue
<1>2. n \in Nodes /\ order \in Seq(Nodes)
  BY <1>1 DEF TypeOK
<1>3. count' = count + 1 /\ accepted' = Append(accepted, v)
      /\ status /\ status' = status /\ taken' = taken /\ Broadcast
  BY DEF Enqueue
<1>4. ListShape' /\ head' \in Nodes \cup {nil} /\ tail' \in Nodes \cup {nil}
      /\ next' \in [Nodes -> Nodes \cup {nil}]
  BY <1>1, <1>3, LinkShape
<1>5. pc' \in [Threads -> {"dequeue", "fn", "check", "wait"} \cup Ends]
      /\ \A t \in Threads : pc'[t] # "wait" /\ (pc'[t] = "closed" => pc[t] = "closed")
  BY <1>3 DEF Broadcast, TypeOK
<1>6. TypeOK'
  <2>1. order' \in Seq(Nodes) /\ accepted' \in Seq(Values) /\ count' \in Nat
    BY <1>1, <1>2, <1>3 DEF TypeOK
  <2>2. value' \in [Nodes -> Values \cup {nil}] /\ nodePool' \in SUBSET Nodes
    BY <1>1, <1>2 DEF TypeOK
  <2> QED BY <2>1, <2>2, <1>3, <1>4, <1>5 DEF TypeOK
<1>7. Contents' = Append(Contents, v)
  BY EnqueueContents
<1>8. Contents \in Seq(Values)
  BY ContentsType
<1>9. Stored'
  <2>1. ASSUME NEW i \in 1 .. Len(order') PROVE value'[order'[i]] \in Values
    <3>1. Contents' \in Seq(Values)
      BY <1>7, <1>8
    <3>2. Len(order') \in Nat
      BY <1>6 DEF TypeOK
    <3>3. Contents' = [k \in 1 .. Len(order') |-> value'[order'[k]]]
      BY DEF Contents
    <3>4. Len(Contents') = Len(order')
      BY <3>2, <3>3
    <3>5. Contents'[i] \in Values
      BY <3>1, <3>4
    <3> QED BY <3>3, <3>5
  <2> QED BY <2>1 DEF Stored
<1>10. ExactlyOnceInOrder'
  <2>1. taken \in Seq(Values)
    BY DEF TypeOK
  <2>2. \A s, t \in Seq(Values), e \in Values : Append(s \o t, e) = s \o Append(t, e)
    BY AppendConcat
  <2>3. Append(taken \o Contents, v) = taken \o Append(Contents, v)
    BY <2>1, <2>2, <1>8
  <2> QED BY <2>3, <1>3, <1>7 DEF ExactlyOnceInOrder
<1>11. SleepsOnlyWhenIdle' /\ DrainedBeforeExit'
  BY <1>3, <1>5 DEF SleepsOnlyWhenIdle, DrainedBeforeExit
<1> QED BY <1>4, <1>6, <1>9, <1>10, <1>11

(* Close preserves the invariant. *)
LEMMA CloseInv ==
  ASSUME IInv, Close
  PROVE  IInv'
<1> USE DEF IInv
<1>1. UNCHANGED <<head, tail, next, value, nodePool, count, order, accepted, taken>>
      /\ status' = FALSE /\ Broadcast
  BY DEF Close, list
<1>2. pc' \in [Threads -> {"dequeue", "fn", "check", "wait"} \cup Ends]
      /\ \A t \in Threads : pc'[t] # "wait" /\ (pc'[t] = "closed" => pc[t] = "closed")
  BY <1>1 DEF Broadcast, TypeOK
<1>3. TypeOK'
  BY <1>1, <1>2 DEF TypeOK
<1>4. ListShape' /\ Stored' /\ Contents' = Contents
  BY <1>1 DEF ListShape, Stored, Contents
<1> QED BY <1>1, <1>2, <1>3, <1>4
        DEF ExactlyOnceInOrder, SleepsOnlyWhenIdle, DrainedBeforeExit

(* A step that only moves one thread preserves the invariant when it goes  *)
(* to sleep only on an open empty queue and leaves only on a closed empty  *)
(* one.                                                                    *)
LEMMA MoveInv ==
  ASSUME IInv, NEW t \in Threads, NEW l \in {"dequeue", "fn", "check", "wait"} \cup Ends,
         Goto(t, l), UNCHANGED <<list, status, accepted, taken>>,
         l = "wait" => status /\ head = nil,
         l = "closed" => ~status /\ head = nil
  PROVE  IInv'
<1> USE DEF IInv
<1>1. UNCHANGED <<head, tail, next, value, nodePool, count, order, status, accepted, taken>>
  BY DEF list
<1>2. pc' = [pc EXCEPT ![t] = l]
  BY DEF Goto
<1>3. TypeOK'
  BY <1>1, <1>2 DEF TypeOK
<1>4. ListShape' /\ Stored' /\ Contents' = Contents
  BY <1>1 DEF ListShape, Stored, Contents
<1>5. ExactlyOnceInOrder'
  BY <1>1, <1>4 DEF ExactlyOnceInOrder
<1>6. \A u \in Threads : pc'[u] = IF u = t THEN l ELSE pc[u]
  BY <1>2 DEF TypeOK
<1>7. SleepsOnlyWhenIdle'
  BY <1>1, <1>6 DEF SleepsOnlyWhenIdle
<1>8. head = nil => taken = accepted
  <2>1. SUFFICES ASSUME head = nil PROVE taken = accepted
    OBVIOUS
  <2>2. order \in Seq(Nodes) /\ taken \in Seq(Values) /\ nil \notin Nodes
    BY MQueueAssumption DEF TypeOK
  <2>3. order = <<>>
    BY <2>1, <2>2 DEF ListShape
  <2>4. Contents \in Seq(Values) /\ Len(Contents) = 0
    BY <2>3, ContentsType
  <2>5. taken \o Contents = taken
    BY <2>2, <2>4
  <2> QED BY <2>5 DEF ExactlyOnceInOrder
<1>9. DrainedBeforeExit'
  BY <1>1, <1>6, <1>8 DEF DrainedBeforeExit
<1> QED BY <1>3, <1>4, <1>5, <1>7, <1>9

(* Taking the head value preserves the invariant. *)
LEMMA TakeInv ==
  ASSUME IInv, NEW t \in Threads, pc[t] = "dequeue", Unlink,
         Goto(t, IF t \in Workers THEN "fn" ELSE "returned"),
         UNCHANGED <<status, accepted>>
  PROVE  IInv'
<1> USE DEF IInv
<1>1. ListShape' /\ head' \in Nodes \cup {nil} /\ tail' \in Nodes \cup {nil}
      /\ next' \in [Nodes -> Nodes \cup {nil}] /\ order' \in Seq(Nodes)
      /\ count' \in Nat /\ head \in Nodes
  BY UnlinkShape
<1>2. Contents # <<>> /\ Contents[1] = value[head] /\ Contents' = Tail(Contents)
  BY UnlinkContents
<1>3. Contents \in Seq(Values)
  BY ContentsType
<1>4. value[head] \in Values /\ Contents' \in Seq(Values)
  BY <1>2, <1>3
<1>5. taken' = Append(taken, value[head])
      /\ nodePool' = nodePool \cup {head}
      /\ value' = [value EXCEPT ![head] = nil]
      /\ head # nil
  BY DEF Unlink
<1>6. taken' \in Seq(Values)
  BY <1>4, <1>5 DEF TypeOK
<1>7. \A u \in Threads : pc'[u] = IF u = t THEN (IF t \in Workers THEN "fn" ELSE "returned")
                                  ELSE pc[u]
  BY DEF Goto, TypeOK
<1>8. pc' \in [Threads -> {"dequeue", "fn", "check", "wait"} \cup Ends]
  BY DEF Goto, TypeOK, Ends
<1>9. TypeOK'
  BY <1>1, <1>5, <1>6, <1>8 DEF TypeOK
<1>10. Stored'
  <2>1. ASSUME NEW i \in 1 .. Len(order') PROVE value'[order'[i]] \in Values
    <3>1. Len(order') \in Nat
      BY <1>1
    <3>2. Contents' = [k \in 1 .. Len(order') |-> value'[order'[k]]]
      BY DEF Contents
    <3>3. Len(Contents') = Len(order')
      BY <3>1, <3>2
    <3>4. Contents'[i] \in Values
      BY <1>4, <3>3
    <3> QED BY <3>2, <3>4
  <2> QED BY <2>1 DEF Stored
<1>11. ExactlyOnceInOrder'
  <2>1. taken \in Seq(Values)
    BY DEF TypeOK
  <2>2. taken \o Contents = Append(taken, Contents[1]) \o Tail(Contents)
    BY <2>1, <1>2, <1>3, ShiftConcat
  <2> QED BY <2>2, <1>2, <1>5 DEF ExactlyOnceInOrder
<1>12. SleepsOnlyWhenIdle'
  BY <1>5, <1>7 DEF SleepsOnlyWhenIdle
<1>13. ASSUME NEW u \in Threads, pc'[u] = "closed"
       PROVE  FALSE
  <2>1. pc[u] = "closed"
    BY <1>7, <1>13
  <2>2. taken = taken \o Contents
    BY <2>1 DEF DrainedBeforeExit, ExactlyOnceInOrder
  <2>3. Len(Contents) > 0
    BY <1>2, <1>3
  <2>4. taken \in Seq(Values)
    BY DEF TypeOK
  <2>5. Len(taken \o Contents) = Len(taken) + Len(Contents)
    BY <2>4, <1>3
  <2> QED BY <2>2, <2>3, <2>4, <2>5, <1>3
<1>14. DrainedBeforeExit'
  BY <1>13 DEF DrainedBeforeExit
<1> QED BY <1>1, <1>9, <1>10, <1>11, <1>12, <1>14

(* Every step of Next preserves the invariant. *)
LEMMA NextInv ==
  ASSUME IInv, [Next]_vars
  PROVE  IInv'
<1>1. ASSUME NEW v \in Values, Enqueue(v) PROVE IInv'
  BY <1>1, EnqueueInv
<1>2. CASE Close
  BY <1>2, CloseInv
<1>3. ASSUME NEW t \in Threads, Dequeue(t) PROVE IInv'
  <2>1. CASE Unlink /\ Goto(t, IF t \in Workers THEN "fn" ELSE "returned")
    BY <1>3, <2>1, TakeInv DEF Dequeue
  <2>2. CASE /\ head = nil
             /\ Goto(t, IF status THEN "check" ELSE "closed")
             /\ UNCHANGED <<list, taken>>
    <3>1. UNCHANGED <<list, status, accepted, taken>>
      BY <1>3, <2>2 DEF Dequeue
    <3>2. CASE status
      <4>1. Goto(t, "check")
        BY <3>2, <2>2
      <4> QED BY <4>1, <3>1, MoveInv
    <3>3. CASE ~status
      <4>1. "closed" \in Ends
        BY DEF Ends
      <4> QED BY <4>1, <3>1, <3>3, <2>2, MoveInv
    <3> QED BY <3>2, <3>3
  <2> QED BY <1>3, <2>1, <2>2 DEF Dequeue
<1>4. ASSUME NEW t \in Threads, Process(t) PROVE IInv'
  BY <1>4, MoveInv DEF Process
<1>5. ASSUME NEW t \in Threads, CheckWait(t) PROVE IInv'
  <2>1. CASE status /\ count = 0
    <3>0. order \in Seq(Nodes) /\ Len(order) = 0
      BY <2>1 DEF IInv, TypeOK, ListShape
    <3>1. head = nil
      BY <3>0 DEF IInv, ListShape
    <3>2. Goto(t, "wait") /\ UNCHANGED <<list, status, accepted, taken>>
      BY <1>5, <2>1 DEF CheckWait
    <3> QED BY <2>1, <3>1, <3>2, MoveInv
  <2>2. CASE ~(status /\ count = 0)
    BY <1>5, <2>2, MoveInv DEF CheckWait
  <2> QED BY <2>1, <2>2
<1>6. CASE UNCHANGED vars
  <2>1. UNCHANGED <<head, tail, next, value, nodePool, count, status, pc, order,
                    accepted, taken>>
    BY <1>6 DEF vars
  <2> QED BY <2>1 DEF IInv, TypeOK, ListShape, Stored, ExactlyOnceInOrder, Contents,
                      SleepsOnlyWhenIdle, DrainedBeforeExit
<1> QED BY <1>1, <1>2, <1>3, <1>4, <1>5, <1>6 DEF Next, ThreadStep

(* An empty open queue with no thread asleep satisfies the invariant. *)
LEMMA InitInv ==
  ASSUME Init
  PROVE  IInv
<1>1. order = <<>> /\ Len(order) = 0
  BY DEF Init
<1>2. TypeOK
  BY DEF Init, TypeOK
<1>3. ListShape /\ Stored
  BY <1>1 DEF Init, ListShape, Stored
<1>4. ExactlyOnceInOrder
  <2>1. Contents \in Seq(Values) /\ Len(Contents) = 0
    BY <1>1, <1>2, <1>3, ContentsType
  <2> QED BY <2>1 DEF ExactlyOnceInOrder, Init
<1> QED BY <1>2, <1>3, <1>4 DEF Init, IInv, SleepsOnlyWhenIdle, DrainedBeforeExit

(* The invariant holds in every reachable state of the queue of            *)
(* utils/Queue/mqueue.go, for any number of values, nodes and threads.     *)
THEOREM Invariance == Spec => []IInv
<1>1. Init => IInv
  BY InitInv
<1>2. IInv /\ [Next]_vars => IInv'
  BY NextInv
<1> QED BY <1>1, <1>2, PTL DEF Spec

(* The fields of the queue and of its nodes keep their types. *)
THEOREM TypeCorrect == Spec => []TypeOK
<1>1. IInv => TypeOK
  BY DEF IInv
<1> QED BY <1>1, Invariance, PTL

(* Enqueue and dequeue keep the pointer structure, and no node of the list *)
(* is ever in the pool at the same time.                                   *)
THEOREM ListShapeCorrect == Spec => []ListShape
<1>1. IInv => ListShape
  BY DEF IInv
<1> QED BY <1>1, Invariance, PTL

(* What Enqueue accepted is what dequeue returned followed by what the     *)
(* list still holds: nothing is lost, duplicated or reordered.             *)
THEOREM Delivery == Spec => []ExactlyOnceInOrder
<1>1. IInv => ExactlyOnceInOrder
  BY DEF IInv
<1> QED BY <1>1, Invariance, PTL

(* A thread sleeps in recvCond.Wait only while the queue is open and empty. *)
THEOREM NoLostWakeup == Spec => []SleepsOnlyWhenIdle
<1>1. IInv => SleepsOnlyWhenIdle
  BY DEF IInv
<1> QED BY <1>1, Invariance, PTL

(* DequeueFunc and DequeueWait report a closed queue only when it is drained. *)
THEOREM CloseDrains == Spec => []DrainedBeforeExit
<1>1. IInv => DrainedBeforeExit
  BY DEF IInv
<1> QED BY <1>1, Invariance, PTL

(* The linked list with node recycling implements the abstract queue:      *)
(* Enqueue is Put, a successful dequeue is Take, Close is Shut, and every  *)
(* other step leaves the abstract queue alone.                             *)
THEOREM Refinement == Spec => ImplementsFifo
<1>1. Init => Fifo!FifoInit
  <2> SUFFICES ASSUME Init PROVE Fifo!FifoInit
    OBVIOUS
  <2>1. IInv /\ Len(order) = 0 /\ status = TRUE
    BY InitInv DEF Init
  <2>2. Contents \in Seq(Values) /\ Len(Contents) = 0
    BY <2>1, ContentsType DEF IInv
  <2> QED BY <2>1, <2>2 DEF Fifo!FifoInit
<1>2. IInv /\ [Next]_vars => [Fifo!FifoNext]_(Fifo!fifoVars)
  <2> SUFFICES ASSUME IInv, [Next]_vars
               PROVE  [Fifo!FifoNext]_(Fifo!fifoVars)
    OBVIOUS
  <2> USE DEF Fifo!FifoNext, Fifo!fifoVars, Fifo!Put, Fifo!Take, Fifo!Shut
  <2>1. ASSUME NEW v \in Values, Enqueue(v) PROVE Fifo!Put(v)
    <3>1. Contents' = Append(Contents, v)
      BY <2>1, EnqueueContents
    <3> QED BY <2>1, <3>1 DEF Enqueue
  <2>2. ASSUME UNCHANGED <<value, order>> PROVE UNCHANGED Contents
    BY <2>2 DEF Contents
  <2>3. CASE Close
    BY <2>3, <2>2 DEF Close, list
  <2>4. ASSUME NEW t \in Threads, Dequeue(t) PROVE [Fifo!FifoNext]_(Fifo!fifoVars)
    <3>1. CASE Unlink
      <4>1. Contents # <<>> /\ Contents' = Tail(Contents)
        BY <3>1, UnlinkContents
      <4> QED BY <4>1, <2>4 DEF Dequeue
    <3>2. CASE UNCHANGED <<list, taken>>
      BY <3>2, <2>2, <2>4 DEF Dequeue, list
    <3> QED BY <3>1, <3>2, <2>4 DEF Dequeue
  <2>5. ASSUME NEW t \in Threads, Process(t) \/ CheckWait(t)
        PROVE  UNCHANGED <<Contents, status>>
    BY <2>5, <2>2 DEF Process, CheckWait, list
  <2>6. CASE UNCHANGED vars
    BY <2>6, <2>2 DEF vars
  <2> QED BY <2>1, <2>3, <2>4, <2>5, <2>6 DEF Next, ThreadStep
<1> QED BY <1>1, <1>2, Invariance, PTL DEF Spec, ImplementsFifo, Fifo!FifoSpec

-----------------------------------------------------------------------------
(* Stop is orderly.                                                        *)
(*                                                                         *)
(* A chain of waiting makes the server quiet before the queues close: a    *)
(* served connection keeps its accept loop going, a loop keeps its slot    *)
(* running, a running slot keeps the supervisor of its task, and Stop      *)
(* waits for all supervisors (Waiting).  With nobody left to report, a     *)
(* closed queue gets no more logs, and a handler that has ended has left   *)
(* an empty queue behind (Closing).  Storing says that a reported log is   *)
(* somewhere on its way, Once that it is at one place only.                *)

ShareIds == 0 .. Shares - 1

Waiting ==
    /\ \A t \in Tasks : sup[t] = "ended" => \A w \in SlotsOf(t) : slot[w] # "run"
    /\ \A l \in Loops : loop[l] # "off" => slot[l[1]] = "run"
    /\ \A c \in Conns : conn[c] = "served" => by[c] \in Loops /\ loop[by[c]] # "off"
    /\ stop \in {"queues", "stopped"} => \A t \in Tasks : sup[t] = "ended"

Closing ==
    /\ \A s \in ShareIds : ~open[s] => stop \in {"queues", "stopped"}
    /\ \A h \in QueueHandlers : hand[h] = "ended" => ~open[h[1]] /\ queue[h[1]] = <<>>
    /\ stop = "stopped" => \A h \in QueueHandlers : hand[h] = "ended"

Storing ==
    /\ \A c \in reported : c \in Pushed \/ Sending(c) \/ Queued(c)
    /\ \A c \in Conns : c \in Pushed \/ Sending(c) \/ Queued(c) => c \in reported

(* No two places of the queues, and no two handlers, have the same log. *)
DistinctPlaces ==
    \A r, s \in ShareIds : \A i \in 1 .. Len(queue[r]), j \in 1 .. Len(queue[s]) :
       queue[r][i] = queue[s][j] => r = s /\ i = j
DistinctHands ==
    \A g, h \in QueueHandlers : hand[g] \in Conns /\ hand[g] = hand[h] => g = h
Once ==
    /\ DistinctPlaces
    /\ DistinctHands
    /\ \A c \in Conns : Sending(c) => ~Queued(c) /\ c \notin Pushed
    /\ \A c \in Conns : Queued(c) => c \notin Pushed
    /\ sent \cap dropped = {}

StopInv == ServerTypeOK /\ Waiting /\ Closing /\ Storing /\ Once

-----------------------------------------------------------------------------
(* Every slot belongs to one task, and every loop to one slot. *)
LEMMA Owners ==
    /\ \A t \in Tasks : \A w \in SlotsOf(t) : w[1] = t /\ w \in Slots
    /\ \A w \in Slots : w[1] \in Tasks /\ w \in SlotsOf(w[1])
    /\ \A l \in Loops : l[1] \in Slots
BY DEF SlotsOf, Slots, Loops

(* What Append and Tail do to the logs of a queue. *)
LEMMA Appended ==
    ASSUME NEW q \in Seq(Conns), NEW c \in Conns
    PROVE  /\ Append(q, c) \in Seq(Conns)
           /\ \E i \in 1 .. Len(Append(q, c)) : Append(q, c)[i] = c
           /\ \A i \in 1 .. Len(q) : i \in 1 .. Len(Append(q, c)) /\ Append(q, c)[i] = q[i]
           /\ \A i \in 1 .. Len(Append(q, c)) : \/ i \in 1 .. Len(q)
                                                \/ i = Len(q) + 1 /\ Append(q, c)[i] = c
<1>1. Len(q) \in Nat /\ Len(Append(q, c)) = Len(q) + 1 /\ Append(q, c)[Len(q) + 1] = c
  OBVIOUS
<1>2. \A i \in 1 .. Len(q) : Append(q, c)[i] = q[i]
  OBVIOUS
<1> QED BY <1>1, <1>2

LEMMA Removed ==
    ASSUME NEW q \in Seq(Conns), q # <<>>
    PROVE  /\ Head(q) \in Conns /\ Tail(q) \in Seq(Conns)
           /\ 1 \in 1 .. Len(q) /\ Head(q) = q[1]
           /\ \A i \in 1 .. Len(q) : \/ q[i] = Head(q)
                                     \/ \E j \in 1 .. Len(Tail(q)) : Tail(q)[j] = q[i]
           /\ \A j \in 1 .. Len(Tail(q)) : \E i \in 1 .. Len(q) : q[i] = Tail(q)[j]
<1>1. Len(q) \in Nat /\ Len(q) # 0 /\ Len(Tail(q)) = Len(q) - 1 /\ Tail(q) \in Seq(Conns)
  OBVIOUS
<1>2. \A j \in 1 .. Len(q) - 1 : Tail(q)[j] = q[j + 1]
  OBVIOUS
<1>3. Head(q) = q[1] /\ Head(q) \in Conns
  BY <1>1
<1>4. ASSUME NEW i \in 1 .. Len(q), i # 1
      PROVE  \E j \in 1 .. Len(Tail(q)) : Tail(q)[j] = q[i]
  <2>1. i - 1 \in 1 .. Len(q) - 1 /\ (i - 1) + 1 = i
    BY <1>1, <1>4
  <2> QED BY <2>1, <1>1, <1>2
<1>5. ASSUME NEW j \in 1 .. Len(Tail(q)) PROVE \E i \in 1 .. Len(q) : q[i] = Tail(q)[j]
  <2>1. j + 1 \in 1 .. Len(q)
    BY <1>1, <1>5
  <2> QED BY <2>1, <1>1, <1>2
<1> QED BY <1>1, <1>3, <1>4, <1>5

-----------------------------------------------------------------------------
LEMMA Types == ASSUME ServerTypeOK, [NextServer]_serverVars PROVE ServerTypeOK'
<1> USE LifecycleAssumption
<1>1. ASSUME NEW t \in Tasks, Select(t) PROVE ServerTypeOK'
  <2>1. sup' \in [Tasks -> {"loop", "check", "wait", "ended"}]
    <3>1. sup' = [sup EXCEPT ![t] = "wait"] \/ sup' = [sup EXCEPT ![t] = "check"]
      BY <1>1 DEF Select
    <3> QED BY <3>1 DEF ServerTypeOK
  <2>2. slot' \in [Slots -> {"free", "taken", "run", "left"}]
    <3>1. slot' = slot \/ \E w \in SlotsOf(t) : slot' = [slot EXCEPT ![w] = "taken"]
      BY <1>1 DEF Select
    <3> QED BY <3>1 DEF ServerTypeOK
  <2> QED BY <1>1, <2>1, <2>2 DEF ServerTypeOK, Select, flags, taskVars, connVars, queueVars
<1>2. ASSUME NEW t \in Tasks, StartTask(t) PROVE ServerTypeOK'
  <2>1. sup' \in [Tasks -> {"loop", "check", "wait", "ended"}]
    <3>1. sup' = [sup EXCEPT ![t] = "wait"] \/ sup' = [sup EXCEPT ![t] = "loop"]
      BY <1>2 DEF StartTask
    <3> QED BY <3>1 DEF ServerTypeOK
  <2>2. slot' \in [Slots -> {"free", "taken", "run", "left"}]
    <3>1. slot' = slot \/ \E w \in Slots : slot' = [slot EXCEPT ![w] = "run"]
      BY <1>2, Owners DEF StartTask
    <3> QED BY <3>1 DEF ServerTypeOK
  <2>3. loop' \in [Loops -> {"off", "test", "accept", "wait"}]
    BY <1>2 DEF StartTask, ServerTypeOK
  <2> QED BY <1>2, <2>1, <2>2, <2>3 DEF ServerTypeOK, StartTask, flags, taskVars, connVars, queueVars
<1>3. ASSUME NEW t \in Tasks, EndTask(t) PROVE ServerTypeOK'
  BY <1>3 DEF ServerTypeOK, EndTask, flags, taskVars, connVars, queueVars
<1>4. ASSUME NEW w \in Slots, ReturnTask(w) PROVE ServerTypeOK'
  BY <1>4 DEF ServerTypeOK, ReturnTask, flags, taskVars, connVars, queueVars
<1>5. ASSUME NEW w \in Slots, FreeSlot(w) PROVE ServerTypeOK'
  BY <1>5 DEF ServerTypeOK, FreeSlot, flags, taskVars, connVars, queueVars
<1>6. ASSUME NEW l \in Loops, TestRun(l) PROVE ServerTypeOK'
  BY <1>6 DEF ServerTypeOK, TestRun, flags, taskVars, connVars, queueVars
<1>7. ASSUME NEW l \in Loops, AcceptError(l) PROVE ServerTypeOK'
  BY <1>7 DEF ServerTypeOK, AcceptError, flags, taskVars, connVars, queueVars
<1>8. ASSUME NEW l \in Loops, EndLoop(l) PROVE ServerTypeOK'
  BY <1>8 DEF ServerTypeOK, EndLoop, flags, taskVars, connVars, queueVars
<1>9. ASSUME NEW l \in Loops, NEW c \in Conns, AcceptConn(l, c) PROVE ServerTypeOK'
  BY <1>9 DEF ServerTypeOK, AcceptConn, flags, taskVars, connVars, queueVars
<1>10. ASSUME NEW c \in Conns, Report(c) PROVE ServerTypeOK'
  <2>1. (counter + 1) % Shares \in 0 .. Shares - 1
    BY <1>10 DEF ServerTypeOK
  <2>2. queue' \in [0 .. Shares - 1 -> Seq(Conns)]
    BY <1>10, <2>1, Appended DEF Report, ServerTypeOK
  <2> QED BY <1>10, <2>1, <2>2 DEF ServerTypeOK, Report, flags, taskVars, connVars, queueVars
<1>11. ASSUME NEW c \in Conns, EndConn(c) PROVE ServerTypeOK'
  BY <1>11 DEF ServerTypeOK, EndConn, flags, taskVars, connVars, queueVars
<1>12. ASSUME NEW h \in QueueHandlers, TakeLog(h) PROVE ServerTypeOK'
  <2>1. h[1] \in 0 .. Shares - 1
    BY <1>12 DEF QueueHandlers
  <2>2. queue[h[1]] \in Seq(Conns) /\ queue[h[1]] # <<>>
    BY <1>12, <2>1 DEF TakeLog, ServerTypeOK
  <2>3. Head(queue[h[1]]) \in Conns /\ Tail(queue[h[1]]) \in Seq(Conns)
    BY <2>2, Removed
  <2> QED BY <1>12, <2>1, <2>3 DEF ServerTypeOK, TakeLog, flags, taskVars, connVars, queueVars
<1>13. ASSUME NEW h \in QueueHandlers, SendLog(h) PROVE ServerTypeOK'
  BY <1>13 DEF ServerTypeOK, SendLog, flags, taskVars, connVars, queueVars
<1>14. ASSUME NEW h \in QueueHandlers, EndHandler(h) PROVE ServerTypeOK'
  BY <1>14 DEF ServerTypeOK, EndHandler, flags, taskVars, connVars, queueVars
<1>15. ASSUME StopRunning PROVE ServerTypeOK'
  BY <1>15 DEF ServerTypeOK, StopRunning, flags, taskVars, connVars, queueVars
<1>16. ASSUME NEW i \in Listeners, CloseListener(i) PROVE ServerTypeOK'
  BY <1>16 DEF ServerTypeOK, CloseListener, flags, taskVars, connVars, queueVars
<1>17. ASSUME CancelTasks PROVE ServerTypeOK'
  BY <1>17 DEF ServerTypeOK, CancelTasks, flags, taskVars, connVars, queueVars
<1>18. ASSUME WaitTasks PROVE ServerTypeOK'
  BY <1>18 DEF ServerTypeOK, WaitTasks, flags, taskVars, connVars, queueVars
<1>19. ASSUME NEW s \in ShareIds, CloseQueue(s) PROVE ServerTypeOK'
  BY <1>19 DEF ServerTypeOK, CloseQueue, ShareIds, flags, taskVars, connVars, queueVars
<1>20. ASSUME WaitQueues PROVE ServerTypeOK'
  BY <1>20 DEF ServerTypeOK, WaitQueues, flags, taskVars, connVars, queueVars
<1>21. ASSUME UNCHANGED serverVars PROVE ServerTypeOK'
  BY <1>21 DEF ServerTypeOK, serverVars, flags, taskVars, connVars, queueVars
<1> QED
  BY <1>1, <1>2, <1>3, <1>4, <1>5, <1>6, <1>7, <1>8, <1>9, <1>10, <1>11, <1>12, <1>13, <1>14, <1>15, <1>16, <1>17, <1>18, <1>19, <1>20, <1>21
  DEF NextServer, TaskStep, SlotStep, LoopStep, HandlerStep, StopStep, ShareIds

LEMMA Waits == ASSUME ServerTypeOK, Waiting, [NextServer]_serverVars PROVE Waiting'
<1> USE Owners
<1>1. ASSUME NEW t \in Tasks, Select(t) PROVE Waiting'
  BY <1>1 DEF ServerTypeOK, Waiting, Select, Returns, flags, taskVars, connVars, queueVars
<1>2. ASSUME NEW t \in Tasks, StartTask(t) PROVE Waiting'
  BY <1>2 DEF ServerTypeOK, Waiting, StartTask, Returns, flags, taskVars, connVars, queueVars
<1>3. ASSUME NEW t \in Tasks, EndTask(t) PROVE Waiting'
  BY <1>3 DEF ServerTypeOK, Waiting, EndTask, Returns, flags, taskVars, connVars, queueVars
<1>4. ASSUME NEW w \in Slots, ReturnTask(w) PROVE Waiting'
  BY <1>4 DEF ServerTypeOK, Waiting, ReturnTask, Returns, flags, taskVars, connVars, queueVars
<1>5. ASSUME NEW w \in Slots, FreeSlot(w) PROVE Waiting'
  BY <1>5 DEF ServerTypeOK, Waiting, FreeSlot, Returns, flags, taskVars, connVars, queueVars
<1>6. ASSUME NEW l \in Loops, TestRun(l) PROVE Waiting'
  BY <1>6 DEF ServerTypeOK, Waiting, TestRun, Returns, flags, taskVars, connVars, queueVars
<1>7. ASSUME NEW l \in Loops, AcceptError(l) PROVE Waiting'
  BY <1>7 DEF ServerTypeOK, Waiting, AcceptError, Returns, flags, taskVars, connVars, queueVars
<1>8. ASSUME NEW l \in Loops, EndLoop(l) PROVE Waiting'
  BY <1>8 DEF ServerTypeOK, Waiting, EndLoop, Returns, flags, taskVars, connVars, queueVars
<1>9. ASSUME NEW l \in Loops, NEW c \in Conns, AcceptConn(l, c) PROVE Waiting'
  BY <1>9 DEF ServerTypeOK, Waiting, AcceptConn, Returns, flags, taskVars, connVars, queueVars
<1>10. ASSUME NEW c \in Conns, Report(c) PROVE Waiting'
  BY <1>10 DEF ServerTypeOK, Waiting, Report, Returns, flags, taskVars, connVars, queueVars
<1>11. ASSUME NEW c \in Conns, EndConn(c) PROVE Waiting'
  BY <1>11 DEF ServerTypeOK, Waiting, EndConn, Returns, flags, taskVars, connVars, queueVars
<1>12. ASSUME NEW h \in QueueHandlers, TakeLog(h) PROVE Waiting'
  BY <1>12 DEF ServerTypeOK, Waiting, TakeLog, Returns, flags, taskVars, connVars, queueVars
<1>13. ASSUME NEW h \in QueueHandlers, SendLog(h) PROVE Waiting'
  BY <1>13 DEF ServerTypeOK, Waiting, SendLog, Returns, flags, taskVars, connVars, queueVars
<1>14. ASSUME NEW h \in QueueHandlers, EndHandler(h) PROVE Waiting'
  BY <1>14 DEF ServerTypeOK, Waiting, EndHandler, Returns, flags, taskVars, connVars, queueVars
<1>15. ASSUME StopRunning PROVE Waiting'
  BY <1>15 DEF ServerTypeOK, Waiting, StopRunning, Returns, flags, taskVars, connVars, queueVars
<1>16. ASSUME NEW i \in Listeners, CloseListener(i) PROVE Waiting'
  BY <1>16 DEF ServerTypeOK, Waiting, CloseListener, Returns, flags, taskVars, connVars, queueVars
<1>17. ASSUME CancelTasks PROVE Waiting'
  BY <1>17 DEF ServerTypeOK, Waiting, CancelTasks, Returns, flags, taskVars, connVars, queueVars
<1>18. ASSUME WaitTasks PROVE Waiting'
  BY <1>18 DEF ServerTypeOK, Waiting, WaitTasks, Returns, flags, taskVars, connVars, queueVars
<1>19. ASSUME NEW s \in ShareIds, CloseQueue(s) PROVE Waiting'
  BY <1>19 DEF ServerTypeOK, Waiting, CloseQueue, Returns, flags, taskVars, connVars, queueVars
<1>20. ASSUME WaitQueues PROVE Waiting'
  BY <1>20 DEF ServerTypeOK, Waiting, WaitQueues, Returns, flags, taskVars, connVars, queueVars
<1>21. ASSUME UNCHANGED serverVars PROVE Waiting'
  BY <1>21 DEF Waiting, serverVars, flags, taskVars, connVars, queueVars
<1> QED
  BY <1>1, <1>2, <1>3, <1>4, <1>5, <1>6, <1>7, <1>8, <1>9, <1>10, <1>11, <1>12, <1>13, <1>14, <1>15, <1>16, <1>17, <1>18, <1>19, <1>20, <1>21
  DEF NextServer, TaskStep, SlotStep, LoopStep, HandlerStep, StopStep, ShareIds

(* A share that a connection reports to is open. *)
LEMMA ServedMeansOpen ==
    ASSUME ServerTypeOK, Waiting, Closing, NEW c \in Conns, conn[c] = "served"
    PROVE  stop \notin {"queues", "stopped"} /\ \A s \in ShareIds : open[s]
BY Owners DEF ServerTypeOK, Waiting, Closing, ShareIds

LEMMA Closes == ASSUME ServerTypeOK, Waiting, Closing, [NextServer]_serverVars PROVE Closing'
<1> USE LifecycleAssumption DEF QueueHandlers, ShareIds
<1>1. ASSUME NEW t \in Tasks, Select(t) PROVE Closing'
  BY <1>1 DEF ServerTypeOK, Closing, Select, flags, taskVars, connVars, queueVars
<1>2. ASSUME NEW t \in Tasks, StartTask(t) PROVE Closing'
  BY <1>2 DEF ServerTypeOK, Closing, StartTask, flags, taskVars, connVars, queueVars
<1>3. ASSUME NEW t \in Tasks, EndTask(t) PROVE Closing'
  BY <1>3 DEF ServerTypeOK, Closing, EndTask, flags, taskVars, connVars, queueVars
<1>4. ASSUME NEW w \in Slots, ReturnTask(w) PROVE Closing'
  BY <1>4 DEF ServerTypeOK, Closing, ReturnTask, flags, taskVars, connVars, queueVars
<1>5. ASSUME NEW w \in Slots, FreeSlot(w) PROVE Closing'
  BY <1>5 DEF ServerTypeOK, Closing, FreeSlot, flags, taskVars, connVars, queueVars
<1>6. ASSUME NEW l \in Loops, TestRun(l) PROVE Closing'
  BY <1>6 DEF ServerTypeOK, Closing, TestRun, flags, taskVars, connVars, queueVars
<1>7. ASSUME NEW l \in Loops, AcceptError(l) PROVE Closing'
  BY <1>7 DEF ServerTypeOK, Closing, AcceptError, flags, taskVars, connVars, queueVars
<1>8. ASSUME NEW l \in Loops, EndLoop(l) PROVE Closing'
  BY <1>8 DEF ServerTypeOK, Closing, EndLoop, flags, taskVars, connVars, queueVars
<1>9. ASSUME NEW l \in Loops, NEW c \in Conns, AcceptConn(l, c) PROVE Closing'
  BY <1>9 DEF ServerTypeOK, Closing, AcceptConn, flags, taskVars, connVars, queueVars
<1>10. ASSUME NEW c \in Conns, Report(c) PROVE Closing'
  BY <1>10, ServedMeansOpen DEF ServerTypeOK, Closing, Report, flags, taskVars, connVars, queueVars
<1>11. ASSUME NEW c \in Conns, EndConn(c) PROVE Closing'
  BY <1>11 DEF ServerTypeOK, Closing, EndConn, flags, taskVars, connVars, queueVars
<1>12. ASSUME NEW h \in QueueHandlers, TakeLog(h) PROVE Closing'
  <2>1. h[1] \in ShareIds /\ queue[h[1]] \in Seq(Conns) /\ queue[h[1]] # <<>>
    BY <1>12 DEF TakeLog, ServerTypeOK
  <2>2. Head(queue[h[1]]) \in Conns
    BY <2>1, Removed
  <2>3. stop # "stopped" /\ stop' = stop /\ open' = open
    BY <1>12 DEF TakeLog, Closing
  <2>4. ASSUME NEW g \in QueueHandlers, hand'[g] = "ended"
        PROVE  ~open'[g[1]] /\ queue'[g[1]] = <<>>
    <3>1. g # h /\ hand[g] = "ended"
      BY <1>12, <2>2, <2>4 DEF TakeLog, ServerTypeOK
    <3>2. ~open[g[1]] /\ queue[g[1]] = <<>>
      BY <3>1 DEF Closing
    <3>3. g[1] # h[1]
      BY <3>2, <2>1
    <3> QED BY <1>12, <2>3, <3>2, <3>3 DEF TakeLog, ServerTypeOK
  <2> QED BY <2>3, <2>4 DEF Closing
<1>13. ASSUME NEW h \in QueueHandlers, SendLog(h) PROVE Closing'
  BY <1>13 DEF ServerTypeOK, Closing, SendLog, flags, taskVars, connVars, queueVars
<1>14. ASSUME NEW h \in QueueHandlers, EndHandler(h) PROVE Closing'
  BY <1>14 DEF ServerTypeOK, Closing, EndHandler, flags, taskVars, connVars, queueVars
<1>15. ASSUME StopRunning PROVE Closing'
  BY <1>15 DEF ServerTypeOK, Closing, StopRunning, flags, taskVars, connVars, queueVars
<1>16. ASSUME NEW i \in Listeners, CloseListener(i) PROVE Closing'
  BY <1>16 DEF ServerTypeOK, Closing, CloseListener, flags, taskVars, connVars, queueVars
<1>17. ASSUME CancelTasks PROVE Closing'
  BY <1>17 DEF ServerTypeOK, Closing, CancelTasks, flags, taskVars, connVars, queueVars
<1>18. ASSUME WaitTasks PROVE Closing'
  BY <1>18 DEF ServerTypeOK, Closing, WaitTasks, flags, taskVars, connVars, queueVars
<1>19. ASSUME NEW s \in ShareIds, CloseQueue(s) PROVE Closing'
  BY <1>19 DEF ServerTypeOK, Closing, CloseQueue, flags, taskVars, connVars, queueVars
<1>20. ASSUME WaitQueues PROVE Closing'
  BY <1>20 DEF ServerTypeOK, Closing, WaitQueues, flags, taskVars, connVars, queueVars
<1>21. ASSUME UNCHANGED serverVars PROVE Closing'
  BY <1>21 DEF Closing, serverVars, flags, taskVars, connVars, queueVars
<1> QED
  BY <1>1, <1>2, <1>3, <1>4, <1>5, <1>6, <1>7, <1>8, <1>9, <1>10, <1>11, <1>12, <1>13, <1>14, <1>15, <1>16, <1>17, <1>18, <1>19, <1>20, <1>21
  DEF NextServer, TaskStep, SlotStep, LoopStep, HandlerStep, StopStep, ShareIds

LEMMA Stores == ASSUME ServerTypeOK, Waiting, Closing, Storing, [NextServer]_serverVars PROVE Storing'
<1> USE DEF Sending, Queued, Pushed, ShareIds
<1>1. ASSUME NEW t \in Tasks, Select(t) PROVE Storing'
  BY <1>1 DEF Storing, Select, flags, taskVars, connVars, queueVars
<1>2. ASSUME NEW t \in Tasks, StartTask(t) PROVE Storing'
  BY <1>2 DEF Storing, StartTask, flags, taskVars, connVars, queueVars
<1>3. ASSUME NEW t \in Tasks, EndTask(t) PROVE Storing'
  BY <1>3 DEF Storing, EndTask, flags, taskVars, connVars, queueVars
<1>4. ASSUME NEW w \in Slots, ReturnTask(w) PROVE Storing'
  BY <1>4 DEF Storing, ReturnTask, flags, taskVars, connVars, queueVars
<1>5. ASSUME NEW w \in Slots, FreeSlot(w) PROVE Storing'
  BY <1>5 DEF Storing, FreeSlot, flags, taskVars, connVars, queueVars
<1>6. ASSUME NEW l \in Loops, TestRun(l) PROVE Storing'
  BY <1>6 DEF Storing, TestRun, flags, taskVars, connVars, queueVars
<1>7. ASSUME NEW l \in Loops, AcceptError(l) PROVE Storing'
  BY <1>7 DEF Storing, AcceptError, flags, taskVars, connVars, queueVars
<1>8. ASSUME NEW l \in Loops, EndLoop(l) PROVE Storing'
  BY <1>8 DEF Storing, EndLoop, flags, taskVars, connVars, queueVars
<1>9. ASSUME NEW l \in Loops, NEW c \in Conns, AcceptConn(l, c) PROVE Storing'
  BY <1>9 DEF Storing, AcceptConn, flags, taskVars, connVars, queueVars
<1>10. ASSUME NEW c \in Conns, Report(c) PROVE Storing'
  <2> DEFINE s == (counter + 1) % Shares
  <2>1. s \in ShareIds
    BY LifecycleAssumption DEF ServerTypeOK, ShareIds
  <2>2. queue[s] \in Seq(Conns) /\ open[s]
    BY <1>10, <2>1, ServedMeansOpen DEF Report, ServerTypeOK, ShareIds
  <2>3. queue' = [queue EXCEPT ![s] = Append(@, c)] /\ reported' = reported \cup {c}
        /\ UNCHANGED <<hand, sent, dropped>>
    BY <1>10, <2>2 DEF Report
  <2>4. /\ queue'[s] = Append(queue[s], c)
        /\ \A r \in ShareIds \ {s} : queue'[r] = queue[r]
    BY <2>1, <2>3 DEF ServerTypeOK, ShareIds
  <2> HIDE DEF s
  <2>5. Queued(c)'
    BY <2>1, <2>2, <2>4, Appended
  <2>6. \A d \in Conns : Queued(d) => Queued(d)'
    <3> SUFFICES ASSUME NEW d \in Conns, NEW r \in ShareIds, NEW i \in 1 .. Len(queue[r]),
                        queue[r][i] = d
                 PROVE  \E j \in 1 .. Len(queue'[r]) : queue'[r][j] = d
      OBVIOUS
    <3>1. CASE r = s
      <4>1. i \in 1 .. Len(queue[s]) /\ queue[s][i] = d
        BY <3>1
      <4>2. i \in 1 .. Len(Append(queue[s], c)) /\ Append(queue[s], c)[i] = d
        BY <4>1, <2>2, Appended
      <4> QED BY <4>2, <3>1, <2>4
    <3>2. CASE r # s
      BY <3>2, <2>4
    <3> QED BY <3>1, <3>2
  <2>7. \A d \in Conns : Queued(d)' => Queued(d) \/ d = c
    <3> SUFFICES ASSUME NEW d \in Conns, NEW r \in ShareIds, NEW i \in 1 .. Len(queue'[r]),
                        queue'[r][i] = d, d # c
                 PROVE  \E j \in 1 .. Len(queue[r]) : queue[r][j] = d
      OBVIOUS
    <3>1. CASE r = s
      <4>1. i \in 1 .. Len(Append(queue[s], c)) /\ Append(queue[s], c)[i] = d
        BY <3>1, <2>4
      <4>2. i \in 1 .. Len(queue[s])
        BY <4>1, <2>2, Appended
      <4> QED BY <4>1, <4>2, <3>1, <2>2, Appended
    <3>2. CASE r # s
      BY <3>2, <2>4
    <3> QED BY <3>1, <3>2
  <2>8. \A d \in Conns : Sending(d)' <=> Sending(d)
    BY <2>3
  <2> HIDE DEF Sending, Queued
  <2> QED BY <2>3, <2>5, <2>6, <2>7, <2>8 DEF Storing, ServerTypeOK
<1>11. ASSUME NEW c \in Conns, EndConn(c) PROVE Storing'
  BY <1>11 DEF Storing, EndConn, flags, taskVars, connVars, queueVars
<1>12. ASSUME NEW h \in QueueHandlers, TakeLog(h) PROVE Storing'
  <2> DEFINE s == h[1]
  <2> DEFINE q == queue[s]
  <2>1. s \in ShareIds
    BY <1>12 DEF QueueHandlers, ShareIds
  <2>2. q \in Seq(Conns) /\ q # <<>> /\ hand[h] = nothing
    BY <1>12, <2>1 DEF TakeLog, ServerTypeOK, ShareIds
  <2>3. /\ hand' = [hand EXCEPT ![h] = Head(q)]
        /\ queue' = [queue EXCEPT ![s] = Tail(@)]
        /\ UNCHANGED <<reported, sent, dropped>>
    BY <1>12 DEF TakeLog
  <2>4. /\ queue'[s] = Tail(q)
        /\ \A r \in ShareIds \ {s} : queue'[r] = queue[r]
        /\ hand'[h] = Head(q)
        /\ \A g \in QueueHandlers \ {h} : hand'[g] = hand[g]
    BY <2>1, <2>3, <1>12 DEF ServerTypeOK, ShareIds
  <2>5. Head(q) \in reported /\ \E g \in QueueHandlers : hand'[g] = Head(q)
    <3>1. Head(q) \in Conns /\ 1 \in 1 .. Len(q) /\ Head(q) = q[1]
      BY <2>2, Removed
    <3>2. Queued(Head(q))
      BY <2>1, <3>1
    <3> QED BY <3>1, <3>2, <2>4, <1>12 DEF Storing
  <2>6. \A d \in Conns : Sending(d) => Sending(d)'
    BY <2>2, <2>4, LifecycleAssumption
  <2>7. \A d \in Conns : Sending(d)' => Sending(d) \/ d = Head(q)
    BY <2>4
  <2>8. \A d \in Conns : Queued(d) => Queued(d)' \/ d = Head(q)
    <3> SUFFICES ASSUME NEW d \in Conns, NEW r \in ShareIds, NEW i \in 1 .. Len(queue[r]),
                        queue[r][i] = d, d # Head(q)
                 PROVE  \E j \in 1 .. Len(queue'[r]) : queue'[r][j] = d
      OBVIOUS
    <3>1. CASE r = s
      BY <3>1, <2>2, <2>4, Removed
    <3>2. CASE r # s
      BY <3>2, <2>4
    <3> QED BY <3>1, <3>2
  <2>9. \A d \in Conns : Queued(d)' => Queued(d)
    <3> SUFFICES ASSUME NEW d \in Conns, NEW r \in ShareIds, NEW i \in 1 .. Len(queue'[r]),
                        queue'[r][i] = d
                 PROVE  \E j \in 1 .. Len(queue[r]) : queue[r][j] = d
      OBVIOUS
    <3>1. CASE r = s
      BY <3>1, <2>2, <2>4, Removed
    <3>2. CASE r # s
      BY <3>2, <2>4
    <3> QED BY <3>1, <3>2
  <2>10. ASSUME NEW d \in reported PROVE d \in Pushed \/ Sending(d)' \/ Queued(d)'
    <3>1. d \in Conns /\ (d \in Pushed \/ Sending(d) \/ Queued(d))
      BY DEF Storing, ServerTypeOK
    <3>2. CASE d = Head(q)
      BY <3>2, <2>5
    <3>3. CASE d # Head(q)
      <4> HIDE DEF Sending, Queued
      <4> QED BY <3>1, <3>3, <2>6, <2>8
    <3> QED BY <3>2, <3>3
  <2>11. ASSUME NEW d \in Conns, d \in Pushed \/ Sending(d)' \/ Queued(d)' PROVE d \in reported
    <3> HIDE DEF Sending, Queued, q
    <3> QED BY <2>11, <2>5, <2>7, <2>9 DEF Storing
  <2> HIDE DEF Sending, Queued
  <2> QED BY <2>3, <2>10, <2>11 DEF Storing
<1>13. ASSUME NEW h \in QueueHandlers, SendLog(h) PROVE Storing'
  <2>1. UNCHANGED <<queue, reported>> /\ hand[h] \in Conns /\ Pushed' = Pushed \cup {hand[h]}
        /\ hand' = [hand EXCEPT ![h] = nothing]
    BY <1>13 DEF SendLog
  <2>2. \A d \in Conns : Queued(d)' <=> Queued(d)
    BY <2>1
  <2>3. Sending(hand[h])
    BY <1>13
  <2>4. \A d \in Conns : Sending(d)' => Sending(d)
    BY <2>1, LifecycleAssumption DEF ServerTypeOK
  <2>5. \A d \in Conns : Sending(d) => Sending(d)' \/ d = hand[h]
    BY <2>1 DEF ServerTypeOK
  <2> HIDE DEF Sending, Queued
  <2> QED BY <2>1, <2>2, <2>3, <2>4, <2>5 DEF Storing, ServerTypeOK
<1>14. ASSUME NEW h \in QueueHandlers, EndHandler(h) PROVE Storing'
  <2>1. UNCHANGED <<queue, reported, sent, dropped>> /\ hand[h] = nothing
        /\ hand' = [hand EXCEPT ![h] = "ended"]
    BY <1>14 DEF EndHandler
  <2>2. \A d \in Conns : Queued(d)' <=> Queued(d)
    BY <2>1
  <2>3. \A d \in Conns : Sending(d)' <=> Sending(d)
    BY <2>1, LifecycleAssumption DEF ServerTypeOK
  <2> HIDE DEF Sending, Queued
  <2> QED BY <2>1, <2>2, <2>3 DEF Storing, ServerTypeOK
<1>15. ASSUME StopRunning PROVE Storing'
  BY <1>15 DEF Storing, StopRunning, flags, taskVars, connVars, queueVars
<1>16. ASSUME NEW i \in Listeners, CloseListener(i) PROVE Storing'
  BY <1>16 DEF Storing, CloseListener, flags, taskVars, connVars, queueVars
<1>17. ASSUME CancelTasks PROVE Storing'
  BY <1>17 DEF Storing, CancelTasks, flags, taskVars, connVars, queueVars
<1>18. ASSUME WaitTasks PROVE Storing'
  BY <1>18 DEF Storing, WaitTasks, flags, taskVars, connVars, queueVars
<1>19. ASSUME NEW s \in ShareIds, CloseQueue(s) PROVE Storing'
  BY <1>19 DEF Storing, CloseQueue, flags, taskVars, connVars, queueVars
<1>20. ASSUME WaitQueues PROVE Storing'
  BY <1>20 DEF Storing, WaitQueues, flags, taskVars, connVars, queueVars
<1>21. ASSUME UNCHANGED serverVars PROVE Storing'
  BY <1>21 DEF Storing, serverVars, flags, taskVars, connVars, queueVars
<1> QED
  BY <1>1, <1>2, <1>3, <1>4, <1>5, <1>6, <1>7, <1>8, <1>9, <1>10, <1>11, <1>12, <1>13, <1>14, <1>15, <1>16, <1>17, <1>18, <1>19, <1>20, <1>21
  DEF NextServer, TaskStep, SlotStep, LoopStep, HandlerStep, StopStep, ShareIds

(* What Tail does to the places of a queue. *)
LEMMA Shifted ==
    ASSUME NEW q \in Seq(Conns), q # <<>>, NEW i \in 1 .. Len(Tail(q))
    PROVE  i + 1 \in 1 .. Len(q) /\ Tail(q)[i] = q[i + 1] /\ i + 1 # 1
<1>1. Len(q) \in Nat /\ Len(q) # 0 /\ Len(Tail(q)) = Len(q) - 1
  OBVIOUS
<1>2. \A j \in 1 .. Len(q) - 1 : Tail(q)[j] = q[j + 1]
  OBVIOUS
<1> QED BY <1>1, <1>2

(* A step that leaves the logs where they are. *)
LEMMA Unmoved == ASSUME Once, UNCHANGED <<queue, hand, sent, dropped>> PROVE Once'
BY DEF Once, DistinctPlaces, DistinctHands, Sending, Queued, Pushed

LEMMA Onces == ASSUME ServerTypeOK, Waiting, Closing, Storing, Once, [NextServer]_serverVars PROVE Once'
<1>1. ASSUME NEW t \in Tasks, Select(t) PROVE Once'
  BY <1>1, Unmoved DEF Select, queueVars
<1>2. ASSUME NEW t \in Tasks, StartTask(t) PROVE Once'
  BY <1>2, Unmoved DEF StartTask, queueVars
<1>3. ASSUME NEW t \in Tasks, EndTask(t) PROVE Once'
  BY <1>3, Unmoved DEF EndTask, queueVars
<1>4. ASSUME NEW w \in Slots, ReturnTask(w) PROVE Once'
  BY <1>4, Unmoved DEF ReturnTask, queueVars
<1>5. ASSUME NEW w \in Slots, FreeSlot(w) PROVE Once'
  BY <1>5, Unmoved DEF FreeSlot, queueVars
<1>6. ASSUME NEW l \in Loops, TestRun(l) PROVE Once'
  BY <1>6, Unmoved DEF TestRun, queueVars
<1>7. ASSUME NEW l \in Loops, AcceptError(l) PROVE Once'
  BY <1>7, Unmoved DEF AcceptError, queueVars
<1>8. ASSUME NEW l \in Loops, EndLoop(l) PROVE Once'
  BY <1>8, Unmoved DEF EndLoop, queueVars
<1>9. ASSUME NEW l \in Loops, NEW c \in Conns, AcceptConn(l, c) PROVE Once'
  BY <1>9, Unmoved DEF AcceptConn, queueVars
<1>10. ASSUME NEW c \in Conns, Report(c) PROVE Once'
  <2> DEFINE s == (counter + 1) % Shares
  <2>1. s \in ShareIds
    BY LifecycleAssumption DEF ServerTypeOK, ShareIds
  <2>2. queue[s] \in Seq(Conns) /\ open[s]
    BY <1>10, <2>1, ServedMeansOpen DEF Report, ServerTypeOK, ShareIds
  <2>3. queue' = [queue EXCEPT ![s] = Append(@, c)] /\ UNCHANGED <<hand, sent, dropped>>
    BY <1>10, <2>2 DEF Report
  <2>4. /\ queue'[s] = Append(queue[s], c)
        /\ \A r \in ShareIds \ {s} : queue'[r] = queue[r]
    BY <2>1, <2>3 DEF ServerTypeOK, ShareIds
  <2> HIDE DEF s
  <2>5. c \notin Pushed /\ ~Sending(c) /\ ~Queued(c)
    BY <1>10 DEF Report, Storing
  <2>6. ASSUME NEW r \in ShareIds, NEW i \in 1 .. Len(queue'[r])
        PROVE  \/ i \in 1 .. Len(queue[r]) /\ queue'[r][i] = queue[r][i]
               \/ r = s /\ i = Len(queue[s]) + 1 /\ queue'[r][i] = c
    <3>1. CASE r = s
      BY <3>1, <2>2, <2>4, <2>6, Appended
    <3>2. CASE r # s
      BY <3>2, <2>4, <2>6
    <3> QED BY <3>1, <3>2
  <2>7. \A r \in ShareIds : \A i \in 1 .. Len(queue[r]) : queue[r][i] # c
    BY <2>5 DEF Queued, ShareIds
  <2>8. DistinctPlaces'
    <3> SUFFICES ASSUME NEW r \in ShareIds, NEW t \in ShareIds,
                        NEW i \in 1 .. Len(queue'[r]), NEW j \in 1 .. Len(queue'[t]),
                        queue'[r][i] = queue'[t][j]
                 PROVE  r = t /\ i = j
      BY DEF DistinctPlaces, ShareIds
    <3>1. CASE queue'[r][i] = c
      <4>1. r = s /\ i = Len(queue[s]) + 1
        BY <3>1, <2>6, <2>7
      <4>2. t = s /\ j = Len(queue[s]) + 1
        BY <3>1, <2>6, <2>7
      <4> QED BY <4>1, <4>2
    <3>2. CASE queue'[r][i] # c
      <4>1. i \in 1 .. Len(queue[r]) /\ queue'[r][i] = queue[r][i]
        BY <3>2, <2>6
      <4>2. j \in 1 .. Len(queue[t]) /\ queue'[t][j] = queue[t][j]
        BY <3>2, <2>6
      <4>3. queue[r][i] = queue[t][j]
        BY <4>1, <4>2
      <4>4. DistinctPlaces
        BY DEF Once
      <4> QED BY <4>1, <4>2, <4>3, <4>4 DEF DistinctPlaces
    <3> QED BY <3>1, <3>2
  <2>9. \A d \in Conns : Queued(d)' => Queued(d) \/ d = c
    BY <2>6 DEF Queued, ShareIds
  <2>10. \A d \in Conns : Sending(d)' <=> Sending(d)
    BY <2>3 DEF Sending
  <2>11. DistinctHands' /\ Pushed' = Pushed /\ (sent \cap dropped)' = {}
    BY <2>3 DEF Once, DistinctHands, Pushed
  <2> QED BY <2>5, <2>8, <2>9, <2>10, <2>11 DEF Once
<1>11. ASSUME NEW c \in Conns, EndConn(c) PROVE Once'
  BY <1>11, Unmoved DEF EndConn, queueVars
<1>12. ASSUME NEW h \in QueueHandlers, TakeLog(h) PROVE Once'
  <2> DEFINE s == h[1]
  <2> DEFINE q == queue[s]
  <2>1. s \in ShareIds
    BY <1>12 DEF QueueHandlers, ShareIds
  <2>2. q \in Seq(Conns) /\ q # <<>>
    BY <1>12, <2>1 DEF TakeLog, ServerTypeOK, ShareIds
  <2>3. /\ hand' = [hand EXCEPT ![h] = Head(q)]
        /\ queue' = [queue EXCEPT ![s] = Tail(@)]
        /\ UNCHANGED <<sent, dropped>>
    BY <1>12 DEF TakeLog
  <2>4. /\ queue'[s] = Tail(q)
        /\ \A r \in ShareIds \ {s} : queue'[r] = queue[r]
        /\ hand'[h] = Head(q)
        /\ \A g \in QueueHandlers \ {h} : hand'[g] = hand[g]
    BY <2>1, <2>3, <1>12 DEF ServerTypeOK, ShareIds
  <2>5. Head(q) \in Conns /\ 1 \in 1 .. Len(q) /\ Head(q) = queue[s][1]
    BY <2>2, Removed
  <2>6. Queued(Head(q))
    BY <2>1, <2>5 DEF Queued, ShareIds
  <2>7. ~Sending(Head(q)) /\ Head(q) \notin Pushed
    BY <2>5, <2>6 DEF Once
  <2> DEFINE old(r, i) == IF r = s THEN i + 1 ELSE i
  <2>8. ASSUME NEW r \in ShareIds, NEW i \in 1 .. Len(queue'[r])
        PROVE  /\ old(r, i) \in 1 .. Len(queue[r]) /\ queue'[r][i] = queue[r][old(r, i)]
               /\ r = s => old(r, i) # 1
    <3>1. CASE r = s
      BY <3>1, <2>2, <2>4, <2>8, Shifted
    <3>2. CASE r # s
      BY <3>2, <2>4, <2>8
    <3> QED BY <3>1, <3>2
  <2> HIDE DEF s, q
  <2>9. DistinctPlaces'
    <3> SUFFICES ASSUME NEW r \in ShareIds, NEW t \in ShareIds,
                        NEW i \in 1 .. Len(queue'[r]), NEW j \in 1 .. Len(queue'[t]),
                        queue'[r][i] = queue'[t][j]
                 PROVE  r = t /\ i = j
      BY DEF DistinctPlaces, ShareIds
    <3> HIDE DEF old
    <3>1. r = t /\ old(r, i) = old(t, j)
      <4>1. old(r, i) \in 1 .. Len(queue[r]) /\ queue'[r][i] = queue[r][old(r, i)]
        BY <2>8
      <4>2. old(t, j) \in 1 .. Len(queue[t]) /\ queue'[t][j] = queue[t][old(t, j)]
        BY <2>8
      <4>3. queue[r][old(r, i)] = queue[t][old(t, j)]
        BY <4>1, <4>2
      <4>4. DistinctPlaces
        BY DEF Once
      <4> QED BY <4>1, <4>2, <4>3, <4>4 DEF DistinctPlaces
    <3>2. i \in Int /\ j \in Int
      OBVIOUS
    <3> QED BY <3>1, <3>2 DEF old
  <2> HIDE DEF old
  <2>10. \A d \in Conns : Queued(d)' => Queued(d) /\ d # Head(q)
    <3> SUFFICES ASSUME NEW r \in ShareIds, NEW i \in 1 .. Len(queue'[r])
                 PROVE  /\ \E j \in 1 .. Len(queue[r]) : queue[r][j] = queue'[r][i]
                        /\ queue'[r][i] # Head(q)
      BY DEF Queued, ShareIds
    <3>1. queue[r][old(r, i)] # Head(q)
      BY <2>1, <2>5, <2>8 DEF Once, DistinctPlaces, q
    <3> QED BY <3>1, <2>8
  <2>11. \A d \in Conns : Sending(d)' => Sending(d) \/ d = Head(q)
    BY <2>4 DEF Sending
  <2>12. DistinctHands'
    <3>1. \A g \in QueueHandlers \ {h} : hand'[g] # Head(q)
      BY <2>4, <2>7 DEF Sending
    <3> QED BY <3>1, <2>4 DEF Once, DistinctHands
  <2>13. Pushed' = Pushed /\ (sent \cap dropped)' = {}
    BY <2>3 DEF Once, Pushed
  <2> QED BY <2>5, <2>7, <2>9, <2>10, <2>11, <2>12, <2>13 DEF Once
<1>13. ASSUME NEW h \in QueueHandlers, SendLog(h) PROVE Once'
  <2> DEFINE d == hand[h]
  <2>1. /\ queue' = queue /\ d \in Conns /\ Pushed' = Pushed \cup {d}
        /\ hand'[h] = nothing /\ \A g \in QueueHandlers \ {h} : hand'[g] = hand[g]
    BY <1>13 DEF SendLog, Pushed, ServerTypeOK
  <2>2. Sending(d)
    BY <1>13 DEF Sending
  <2>3. ~Queued(d) /\ d \notin sent /\ d \notin dropped
    BY <2>1, <2>2 DEF Once, Pushed
  <2>4. (sent \cap dropped)' = {}
    BY <1>13, <2>3 DEF Once, SendLog
  <2>5. \A c \in Conns : Sending(c)' => Sending(c) /\ c # d
    BY <2>1, LifecycleAssumption DEF Once, DistinctHands, Sending
  <2>6. \A c \in Conns : Queued(c)' <=> Queued(c)
    BY <2>1 DEF Queued
  <2>7. DistinctPlaces' /\ DistinctHands'
    BY <2>1, LifecycleAssumption DEF Once, DistinctPlaces, DistinctHands
  <2> HIDE DEF d
  <2> QED BY <2>1, <2>3, <2>4, <2>5, <2>6, <2>7 DEF Once
<1>14. ASSUME NEW h \in QueueHandlers, EndHandler(h) PROVE Once'
  <2>1. /\ UNCHANGED <<queue, sent, dropped>> /\ hand[h] = nothing
        /\ hand'[h] = "ended" /\ \A g \in QueueHandlers \ {h} : hand'[g] = hand[g]
    BY <1>14 DEF EndHandler, ServerTypeOK
  <2>2. \A c \in Conns : (Queued(c)' <=> Queued(c)) /\ (Sending(c)' => Sending(c))
    BY <2>1, LifecycleAssumption DEF Queued, Sending
  <2>3. DistinctPlaces' /\ DistinctHands'
    BY <2>1, LifecycleAssumption DEF Once, DistinctPlaces, DistinctHands
  <2>4. Pushed' = Pushed
    BY <2>1 DEF Pushed
  <2> QED BY <2>1, <2>2, <2>3, <2>4 DEF Once
<1>15. ASSUME StopRunning PROVE Once'
  BY <1>15, Unmoved DEF StopRunning, queueVars
<1>16. ASSUME NEW i \in Listeners, CloseListener(i) PROVE Once'
  BY <1>16, Unmoved DEF CloseListener, queueVars
<1>17. ASSUME CancelTasks PROVE Once'
  BY <1>17, Unmoved DEF CancelTasks, queueVars
<1>18. ASSUME WaitTasks PROVE Once'
  BY <1>18, Unmoved DEF WaitTasks, queueVars
<1>19. ASSUME NEW s \in ShareIds, CloseQueue(s) PROVE Once'
  BY <1>19, Unmoved DEF CloseQueue, queueVars
<1>20. ASSUME WaitQueues PROVE Once'
  BY <1>20, Unmoved DEF WaitQueues, queueVars
<1>21. ASSUME UNCHANGED serverVars PROVE Once'
  BY <1>21, Unmoved DEF serverVars, queueVars
<1> QED
  BY <1>1, <1>2, <1>3, <1>4, <1>5, <1>6, <1>7, <1>8, <1>9, <1>10, <1>11, <1>12, <1>13, <1>14, <1>15, <1>16, <1>17, <1>18, <1>19, <1>20, <1>21
  DEF NextServer, TaskStep, SlotStep, LoopStep, HandlerStep, StopStep, ShareIds

-----------------------------------------------------------------------------
(* The five parts together are inductive, for every behaviour of the       *)
(* tasks, loops, connections, queues and Stop.                             *)
THEOREM StopInvariance == SpecServer => []StopInv
<1>1. InitServer => StopInv
  <2> SUFFICES ASSUME InitServer PROVE StopInv
    OBVIOUS
  <2>1. ServerTypeOK
    <3>1. 0 \in 0 .. Shares - 1
      BY LifecycleAssumption
    <3>2. listening \in SUBSET (Listeners \cup {SS})
      BY DEF InitServer
    <3>3. /\ queue \in [0 .. Shares - 1 -> Seq(Conns)]
          /\ hand \in [QueueHandlers -> Conns \cup {nothing, "ended"}]
          /\ by \in [Conns -> Loops \cup {nothing}]
      BY DEF InitServer
    <3>4. /\ open \in [0 .. Shares - 1 -> BOOLEAN]
          /\ isRun \in BOOLEAN /\ done \in BOOLEAN
      BY DEF InitServer
    <3>5. /\ sup \in [Tasks -> {"loop", "check", "wait", "ended"}]
          /\ slot \in [Slots -> {"free", "taken", "run", "left"}]
          /\ loop \in [Loops -> {"off", "test", "accept", "wait"}]
          /\ conn \in [Conns -> {"none", "served", "closed"}]
      BY DEF InitServer
    <3> QED BY <3>1, <3>2, <3>3, <3>4, <3>5 DEF InitServer, ServerTypeOK
  <2>2. Waiting
    BY Owners DEF InitServer, Waiting
  <2>3. Closing
    BY LifecycleAssumption DEF InitServer, Closing, ShareIds
  <2>4. Storing
    BY LifecycleAssumption DEF InitServer, Storing, Sending, Queued, Pushed
  <2>5. Once
    BY LifecycleAssumption
    DEF InitServer, Once, DistinctPlaces, DistinctHands, Sending, Queued, Pushed, ShareIds
  <2> QED BY <2>1, <2>2, <2>3, <2>4, <2>5 DEF StopInv
<1>2. StopInv /\ [NextServer]_serverVars => StopInv'
  BY Types, Waits, Closes, Stores, Onces DEF StopInv
<1> QED BY <1>1, <1>2, PTL DEF SpecServer

(* When Stop closes the send queues, no worker, accept loop or connection  *)
(* is left that could still report a log (manager.go 108-116).             *)
THEOREM QuietStop == SpecServer => []QuietBeforeClose
<1>1. StopInv => QuietBeforeClose
  <2> SUFFICES ASSUME StopInv, stop \in {"queues", "stopped"}
               PROVE  /\ \A w \in Slots : slot[w] # "run"
                      /\ \A l \in Loops : loop[l] = "off"
                      /\ \A c \in Conns : conn[c] # "served"
    BY DEF QuietBeforeClose
  <2>1. \A w \in Slots : slot[w] # "run"
    BY Owners DEF StopInv, Waiting
  <2>2. \A l \in Loops : loop[l] = "off"
    BY <2>1, Owners DEF StopInv, Waiting
  <2>3. \A c \in Conns : conn[c] # "served"
    BY <2>2 DEF StopInv, Waiting
  <2> QED BY <2>1, <2>2, <2>3
<1> QED BY <1>1, StopInvariance, PTL

(* A log handed to pushRabbitmqSendQueue is queued, with one handler or    *)
(* through Push, and never at two of these places, so that Push gets it    *)
(* exactly once; when Stop has returned exactly the reported logs have     *)
(* been pushed.  Only a failing Push loses a log.                          *)
THEOREM EachLogPushedOnce == SpecServer => []LogsPushedOnce
<1>1. StopInv => LogsPushedOnce
  <2> SUFFICES ASSUME StopInv PROVE LogsPushedOnce
    OBVIOUS
  <2>1. \A c \in reported : c \in Pushed \/ Sending(c) \/ Queued(c)
    BY DEF StopInv, Storing
  <2>2. /\ \A c \in Pushed : ~Sending(c) /\ ~Queued(c)
        /\ \A c \in Conns : ~(Sending(c) /\ Queued(c))
        /\ sent \cap dropped = {}
    <3>1. Pushed \subseteq Conns
      BY DEF StopInv, ServerTypeOK, Pushed
    <3> QED BY <3>1 DEF StopInv, Once
  <2>3. ASSUME stop = "stopped" PROVE reported = Pushed
    <3>1. \A c \in Conns : ~Sending(c)
      BY <2>3, LifecycleAssumption DEF StopInv, Closing, Sending
    <3>2. PICK k \in Handlers : TRUE
      BY LifecycleAssumption
    <3>3. \A s \in ShareIds : <<s, k>> \in QueueHandlers /\ <<s, k>>[1] = s
      BY <3>2 DEF QueueHandlers, ShareIds
    <3>4. \A s \in ShareIds : queue[s] = <<>>
      BY <2>3, <3>3 DEF StopInv, Closing
    <3>5. \A c \in Conns : ~Queued(c)
      BY <3>4 DEF Queued, ShareIds
    <3>6. reported \subseteq Conns /\ Pushed \subseteq Conns
      BY DEF StopInv, ServerTypeOK, Pushed
    <3> QED BY <3>1, <3>5, <3>6 DEF StopInv, Storing
  <2> QED BY <2>1, <2>2, <2>3 DEF LogsPushedOnce
<1> QED BY <1>1, StopInvariance, PTL
=============================================================================
