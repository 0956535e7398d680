-------------------------- MODULE ClientHelloProofs --------------------------
(***************************************************************************)
(* What ClientHello reads out of a hello laid out by SocksSession, for any *)
(* extensions and names: where a hello that is cut fails, what is read of  *)
(* one that is whole, and which lists inside its extensions are accepted.  *)
(***************************************************************************)
EXTENDS SocksSession, Socks5Proofs, WellFoundedInduction

(* Which provers a leaf is given to, and for how long. *)
USE ZenonT(3), SMTT(30), ZenonT(30)

-----------------------------------------------------------------------------
(* Lists of strings, written one behind the other.  What Last computes is  *)
(* shown by the least number for which it would be wrong.                  *)

(* Every non-empty set of numbers has a least one. *)
LEMMA Least ==
    ASSUME NEW T, T \subseteq Nat, T # {}
    PROVE  \E n \in T : \A m \in T : n <= m
<1> DEFINE R == OpToRel(<, Nat)
<1>1. IsWellFoundedOn(R, Nat)
  BY NatLessThanWellFounded
<1>2. \A m, n \in Nat : <<m, n>> \in R <=> m < n
  BY DEF OpToRel
<1> HIDE DEF R
<1>3. PICK n \in T : \A m \in T : ~(<<m, n>> \in R)
  BY <1>1, WFMin
<1>4. \A m \in T : ~(m < n)
  BY ZenonT(30), <1>2, <1>3
<1>5. \A i, j \in Nat : ~(i < j) => j <= i
  BY SMTT(30)
<1> QED BY ZenonT(30), <1>4, <1>5

Starts(items, f, k) ==
    f = [n \in 0 .. k |-> IF n = 0 THEN <<>> ELSE items[Len(items) - n + 1] \o f[n - 1]]

(* The recursive definition of Last has a solution. *)
LEMMA LastExists ==
    ASSUME NEW items, NEW k \in Nat
    PROVE  \E f : Starts(items, f, k)
<1> DEFINE T == {n \in Nat : ~ \E f : Starts(items, f, n)}
<1> SUFFICES ASSUME T # {} PROVE FALSE
  BY ZenonT(30)
<1>1. PICK n \in T : \A m \in T : n <= m
  <2>1. T \subseteq Nat
    BY ZenonT(30)
  <2> HIDE DEF T
  <2> QED BY ZenonT(30), <2>1, Least
<1>2. n \in Nat /\ ~ \E f : Starts(items, f, n)
  BY ZenonT(30), <1>1
<1>3. CASE n = 0
  <2> DEFINE f == [i \in 0 .. 0 |-> <<>>]
  <2>1. Starts(items, f, 0)
    BY SMTT(30) DEF Starts
  <2> QED BY ZenonT(30), <1>2, <1>3, <2>1
<1>4. CASE n # 0
  <2>1. n - 1 \in Nat /\ ~(n <= n - 1)
    BY SMTT(30), <1>2, <1>4
  <2>2. PICK f : Starts(items, f, n - 1)
    BY ZenonT(30), <1>1, <2>1
  <2> DEFINE x == items[Len(items) - n + 1] \o f[n - 1]
             g == [i \in 0 .. n |-> IF i = n THEN x ELSE f[i]]
  <2>3. \A i \in 0 .. n - 1 : f[i] = IF i = 0 THEN <<>> ELSE items[Len(items) - i + 1] \o f[i - 1]
    BY ZenonT(30), <2>2 DEF Starts
  <2>4. ASSUME NEW i \in 0 .. n
        PROVE  g[i] = IF i = 0 THEN <<>> ELSE items[Len(items) - i + 1] \o g[i - 1]
    <3>1. CASE i = n
      <4>1. n - 1 \in 0 .. n /\ n - 1 # n
        BY SMTT(30), <1>2, <2>1
      <4>2. g[n - 1] = f[n - 1] /\ g[i] = x
        BY ZenonT(30), <3>1, <4>1
      <4> QED BY ZenonT(30), <1>4, <3>1, <4>2
    <3>2. CASE i = 0
      <4>1. i \in 0 .. n - 1 /\ i # n
        BY SMTT(30), <1>2, <2>1, <3>2, <1>4
      <4> QED BY ZenonT(30), <2>3, <3>2, <4>1
    <3>3. CASE i # n /\ i # 0
      <4>1. i \in 0 .. n - 1 /\ i - 1 \in 0 .. n /\ i - 1 # n
        BY SMTT(30), <1>2, <3>3
      <4>2. g[i] = f[i] /\ g[i - 1] = f[i - 1]
        BY ZenonT(30), <3>3, <4>1
      <4> QED BY ZenonT(30), <2>3, <3>3, <4>1, <4>2
    <3> QED BY <3>1, <3>2, <3>3
  <2>5. Starts(items, g, n)
    <3>1. g = [i \in 0 .. n |-> g[i]]
      BY ZenonT(30)
    <3> HIDE DEF g
    <3> QED BY ZenonT(30), <2>4, <3>1 DEF Starts
  <2> QED BY ZenonT(30), <1>2, <2>5
<1> QED BY <1>3, <1>4

(* What Last computes. *)
LEMMA Lasts ==
    ASSUME NEW items, NEW l \in Nat, l = Len(items)
    PROVE  /\ Last(items)[0] = <<>>
           /\ \A n \in 1 .. l : Last(items)[n] = items[l - n + 1] \o Last(items)[n - 1]
<1>1. \E f : Starts(items, f, l)
  BY LastExists
<1>2. Last(items) = CHOOSE f : Starts(items, f, l)
  BY ZenonT(30) DEF Last, Starts
<1>3. Starts(items, Last(items), l)
  BY ZenonT(30), <1>1, <1>2
<1>4. \A n \in 0 .. l : Last(items)[n] = IF n = 0 THEN <<>> ELSE items[l - n + 1] \o Last(items)[n - 1]
  BY ZenonT(30), <1>3 DEF Starts
<1>5. 0 \in 0 .. l /\ \A n \in 1 .. l : n \in 0 .. l /\ n # 0
  BY SMTT(30)
<1> QED BY ZenonT(30), <1>4, <1>5

(* A list of byte strings gives byte strings. *)
LEMMA LastBytes ==
    ASSUME NEW items, NEW l \in Nat, l = Len(items), \A i \in 1 .. l : items[i] \in Str
    PROVE  \A n \in 0 .. l : Last(items)[n] \in Str
<1> DEFINE T == {n \in Nat : n <= l /\ Last(items)[n] \notin Str}
<1> SUFFICES ASSUME T # {} PROVE FALSE
  BY SMTT(30)
<1>1. PICK n \in T : \A m \in T : n <= m
  <2>1. T \subseteq Nat
    BY ZenonT(30)
  <2> HIDE DEF T
  <2> QED BY ZenonT(30), <2>1, Least
<1>2. n \in Nat /\ n <= l /\ Last(items)[n] \notin Str
  BY ZenonT(30), <1>1
<1>3. n # 0
  <2>1. Last(items)[0] \in Str
    BY ZenonT(30), Lasts, Catenation
  <2> QED BY <1>2, <2>1
<1>4. n - 1 \in Nat /\ n - 1 <= l /\ ~(n <= n - 1) /\ n \in 1 .. l /\ l - n + 1 \in 1 .. l
  BY SMTT(30), <1>2, <1>3
<1>5. Last(items)[n - 1] \in Str
  BY ZenonT(30), <1>1, <1>4
<1>6. Last(items)[n] = Cat(items[l - n + 1], Last(items)[n - 1])
  BY ZenonT(30), <1>4, Lasts DEF Cat
<1>7. items[l - n + 1] \in Str
  BY ZenonT(30), <1>4
<1>8. \A x, y \in Str : Cat(x, y) \in Str
  BY Catenation
<1> QED BY ZenonT(30), <1>2, <1>5, <1>6, <1>7, <1>8

-----------------------------------------------------------------------------
(* Reading a ClientHello. *)

(* The first m bytes of z. *)
Pre(z, m) == SubSeq(z, 1, m)

(* The length of x in k bytes, and that it fits there. *)
Width == {1, 2}
Lead(x, k) == IF k = 1 THEN <<Len(x)>> ELSE PortBytes(Len(x))
Fits(x, k) == IF k = 1 THEN Len(x) \in Byte ELSE Len(x) \in Port

LEMMA Pres ==
    ASSUME NEW z \in Str, NEW m \in Nat, m <= Len(z)
    PROVE  /\ Pre(z, m) \in Str /\ Len(Pre(z, m)) = m
           /\ \A i \in 1 .. m : Pre(z, m)[i] = z[i]
<1>1. 0 \in Nat /\ 0 + m <= Len(z) /\ 0 + 1 = 1 /\ 0 + m = m /\ \A i \in 1 .. m : 0 + i = i
  BY SMTT(30)
<1>2. /\ SubSeq(z, 0 + 1, 0 + m) \in Str /\ Len(SubSeq(z, 0 + 1, 0 + m)) = m
      /\ \A i \in 1 .. m : SubSeq(z, 0 + 1, 0 + m)[i] = z[0 + i]
  BY ZenonT(30), <1>1, Slices
<1> QED BY ZenonT(30), <1>1, <1>2 DEF Pre

(* All of z. *)
LEMMA PreAll == \A z \in Str : Pre(z, Len(z)) = z
<1> SUFFICES ASSUME NEW z \in Str PROVE Pre(z, Len(z)) = z
  OBVIOUS
<1>1. PICK m \in Nat : m = Len(z) /\ m <= m
  BY SMTT(30), Catenation
<1>2. Pre(z, m) \in Str /\ Len(Pre(z, m)) = m /\ \A i \in 1 .. m : Pre(z, m)[i] = z[i]
  BY ZenonT(30), <1>1, Pres
<1> QED BY ZenonT(30), <1>1, <1>2, Same

(* The part of a concatenation behind its first half. *)
Behind(x, y, a, n) == SubSeq(Cat(x, y), a + 1, a + n) = Pre(y, n)
LEMMA Middle ==
    ASSUME NEW x \in Str, NEW y \in Str, NEW a \in Nat, a = Len(x), NEW n \in Nat, n <= Len(y)
    PROVE  Behind(x, y, a, n)
<1>1. Cat(x, y) \in Str /\ Len(y) \in Nat /\ Len(Cat(x, y)) = Len(x) + Len(y)
  BY Catenation
<1>2. PICK z \in Str, l \in Nat : z = Cat(x, y) /\ l = Len(y) /\ Len(z) = a + l /\ n <= l
  BY ZenonT(30), <1>1
<1>3. \A i \in 1 .. l : z[a + i] = y[i]
  BY ZenonT(30), <1>2, Halves
<1>4. a + n <= Len(z) /\ \A i \in 1 .. n : i \in 1 .. l
  BY SMTT(30), <1>2
<1>5. PICK w \in Str : w = SubSeq(z, a + 1, a + n) /\ Len(w) = n /\ \A i \in 1 .. n : w[i] = z[a + i]
  BY ZenonT(30), <1>4, Slices
<1>6. PICK v \in Str : v = Pre(y, n) /\ Len(v) = n /\ \A i \in 1 .. n : v[i] = y[i]
  BY ZenonT(30), Pres
<1>7. w = v
  <2>1. \A i \in 1 .. n : w[i] = v[i]
    BY ZenonT(30), <1>3, <1>4, <1>5, <1>6
  <2> QED BY ZenonT(30), <1>5, <1>6, <2>1, Same
<1> QED BY ZenonT(30), <1>2, <1>5, <1>6, <1>7 DEF Behind

(* A concatenation that ends in its second half. *)
EndsIn(x, y, a, n) == Pre(Cat(x, y), a + n) = Cat(x, Pre(y, n))
LEMMA Truncated ==
    ASSUME NEW x \in Str, NEW y \in Str, NEW a \in Nat, a = Len(x), NEW n \in Nat, n <= Len(y)
    PROVE  EndsIn(x, y, a, n)
<1>1. Cat(x, y) \in Str /\ Len(y) \in Nat /\ Len(Cat(x, y)) = a + Len(y)
  BY ZenonT(30), Catenation
<1>2. PICK z \in Str, l \in Nat : z = Cat(x, y) /\ l = Len(y) /\ Len(z) = a + l /\ n <= l
  BY ZenonT(30), <1>1
<1>3. 0 \in Nat /\ 0 + a + n <= Len(z) /\ 0 + 1 = 1 /\ 0 + a + n = a + n /\ 0 + a = a
  BY SMTT(30), <1>2
<1>4. Meet(z, 0, a, n)
  BY ZenonT(30), <1>3, Adjacent
<1>5. Cat(SubSeq(z, 1, a), SubSeq(z, a + 1, a + n)) = Pre(z, a + n)
  BY ZenonT(30), <1>3, <1>4 DEF Pre, Meet
<1>6. SubSeq(Cat(x, y), 1, a) = x
  BY Cut
<1>7. Behind(x, y, a, n)
  BY ZenonT(30), Middle
<1> QED BY ZenonT(30), <1>2, <1>5, <1>6, <1>7 DEF EndsIn, Behind

(* Numbers that are read back. *)
LEMMA Numbers ==
    /\ \A n \in Byte, y \in Str : Number(Cat(<<n>>, y), 1) = n
    /\ \A p \in Port, y \in Str : Number(Cat(PortBytes(p), y), 2) = p
<1>1. ASSUME NEW n \in Byte, NEW y \in Str PROVE Number(Cat(<<n>>, y), 1) = n
  <2>1. PICK w \in Str : w = <<n>> /\ Len(w) = 1
    BY ZenonT(30), Short
  <2>2. Cat(w, y)[1] = w[1]
    <3>1. 1 \in 1 .. Len(w)
      BY SMTT(30), <2>1
    <3> QED BY ZenonT(30), <3>1, Halves
  <2>3. w[1] = n
    BY SMTT(30), <2>1
  <2> QED BY ZenonT(30), <2>1, <2>2, <2>3 DEF Number
<1>2. ASSUME NEW p \in Port, NEW y \in Str PROVE Number(Cat(PortBytes(p), y), 2) = p
  <2>1. PICK w \in Str : w = PortBytes(p) /\ Len(w) = 2 /\ PortOf(w) = p
    BY ZenonT(30), Ports
  <2>2. Cat(w, y)[1] = w[1] /\ Cat(w, y)[2] = w[2]
    <3>1. 1 \in 1 .. Len(w) /\ 2 \in 1 .. Len(w)
      BY SMTT(30), <2>1
    <3> QED BY ZenonT(30), <3>1, Halves
  <2>3. ASSUME NEW v PROVE Number(v, 2) = PortOf(v)
    BY SMTT(30) DEF Number, PortOf
  <2>4. ASSUME NEW u, NEW v, u[1] = v[1], u[2] = v[2] PROVE PortOf(u) = PortOf(v)
    BY SMTT(30), <2>4 DEF PortOf
  <2> QED BY <2>1, <2>2, <2>3, <2>4
<1> QED BY ZenonT(30), <1>1, <1>2

(* A field of fixed length that is skipped. *)
Skips(x, y, k) ==
    ~ Empty(Cat(x, y)) /\ Has(Cat(x, y), k) /\ Skip(Cat(x, y), k) = y
LEMMA Skipping ==
    ASSUME NEW x \in Str, NEW y \in Str, NEW k \in Nat, k = Len(x), k > 0
    PROVE  Skips(x, y, k)
<1>1. Len(Cat(x, y)) = Len(x) + Len(y) /\ Len(y) \in Nat /\ Len(<<>>) = 0
  BY Catenation
<1>2. PICK l \in Nat : Len(Cat(x, y)) = k + l
  BY ZenonT(30), <1>1
<1>3. k + l >= k /\ k + l # 0
  BY SMTT(30)
<1>4. SubSeq(Cat(x, y), k + 1, Len(Cat(x, y))) = y
  BY Cut
<1> QED BY ZenonT(30), <1>1, <1>2, <1>3, <1>4 DEF Skips, Empty, Has, Skip

LEMMA Leads ==
    ASSUME NEW k \in Width, NEW x \in Str, Fits(x, k), NEW y \in Str
    PROVE  /\ Lead(x, k) \in Str /\ Len(Lead(x, k)) = k
           /\ Number(Cat(Lead(x, k), y), k) = Len(x)
<1>1. CASE k = 1
  <2>1. Lead(x, k) = <<Len(x)>> /\ Len(x) \in Byte
    BY ZenonT(30), <1>1 DEF Lead, Fits
  <2> QED BY ZenonT(30), <1>1, <2>1, Short, Numbers
<1>2. CASE k = 2
  <2>1. k # 1
    BY SMTT(30), <1>2
  <2>2. Lead(x, k) = PortBytes(Len(x)) /\ Len(x) \in Port
    BY ZenonT(30), <2>1 DEF Lead, Fits
  <2> QED BY ZenonT(30), <1>2, <2>2, Ports, Numbers
<1> QED BY ZenonT(30), <1>1, <1>2 DEF Width

(* A part behind its length, when all of it is there (ReadUint8Length-     *)
(* Prefixed, ReadUint16LengthPrefixed).                                    *)
Reads(w, k, x, y) == HasPrefixed(w, k) /\ Prefixed(w, k) = x /\ Rest(w, k) = y
LEMMA ReadWhole ==
    ASSUME NEW k \in Width, NEW x \in Str, Fits(x, k), NEW y \in Str,
           NEW w, w = Cat(WithLen(x, k), y)
    PROVE  Reads(w, k, x, y)
<1>0. k \in Nat
  BY SMTT(30) DEF Width
<1>1. PICK l \in Str : l = Lead(x, k) /\ Len(l) = k
  BY ZenonT(30), Leads
<1>2. WithLen(x, k) = Cat(l, x)
  BY ZenonT(30), <1>1 DEF WithLen, Lead, Cat
<1>3. PICK z \in Str : z = Cat(x, y) /\ Len(z) = Len(x) + Len(y)
  <2>1. Cat(x, y) \in Str /\ Len(Cat(x, y)) = Len(x) + Len(y)
    BY Catenation
  <2> QED BY ZenonT(30), <2>1
<1>4. w = Cat(l, z)
  <2>1. Cat(Cat(l, x), y) = Cat(l, Cat(x, y))
    BY Associative
  <2> QED BY ZenonT(30), <1>2, <1>3, <2>1
<1>5. Number(w, k) = Len(x)
  <2>1. Number(Cat(Lead(x, k), z), k) = Len(x)
    BY ZenonT(30), Leads
  <2> QED BY ZenonT(30), <1>1, <1>4, <2>1
<1>6. PICK n \in Nat, m \in Nat : n = Len(x) /\ m = Len(y) /\ Len(z) = n + m
  <2>1. Len(x) \in Nat /\ Len(y) \in Nat
    BY Catenation
  <2> QED BY ZenonT(30), <1>3, <2>1
<1>7. Skip(w, k) = z
  <2>1. SubSeq(Cat(l, z), k + 1, Len(Cat(l, z))) = z
    BY ZenonT(30), <1>0, <1>1, Cut
  <2> QED BY ZenonT(30), <1>4, <2>1 DEF Skip
<1>8. HasPrefixed(w, k)
  <2>1. Len(Cat(l, z)) = Len(l) + Len(z)
    BY Catenation
  <2>2. Len(w) = k + (n + m)
    BY ZenonT(30), <1>1, <1>4, <1>6, <2>1
  <2>3. Len(w) >= k /\ n + m >= n
    BY SMTT(30), <1>0, <2>2
  <2> QED BY ZenonT(30), <1>5, <1>6, <1>7, <2>3 DEF HasPrefixed, Has
<1>9. Prefixed(w, k) = x
  <2>1. n <= Len(z)
    BY SMTT(30), <1>6
  <2>2. Behind(l, z, k, n)
    BY ZenonT(30), <1>0, <1>1, <2>1, Middle
  <2>3. SubSeq(Cat(x, y), 1, n) = x
    <3>1. n \in Nat /\ n = Len(x)
      BY <1>6
    <3> QED BY <3>1, Cut
  <2>4. Pre(z, n) = x
    BY ZenonT(30), <1>3, <2>3 DEF Pre
  <2> QED BY ZenonT(30), <1>4, <1>5, <1>6, <2>2, <2>4 DEF Prefixed, Behind
<1>10. Rest(w, k) = y
  <2>1. PICK v \in Str : v = WithLen(x, k) /\ Len(v) = k + n
    <3>1. Cat(l, x) \in Str /\ Len(Cat(l, x)) = Len(l) + Len(x)
      BY Catenation
    <3> QED BY ZenonT(30), <1>1, <1>2, <1>6, <3>1
  <2>2. k + n \in Nat
    BY SMTT(30), <1>0
  <2>3. SubSeq(Cat(v, y), k + n + 1, Len(Cat(v, y))) = y
    BY ZenonT(30), <2>1, <2>2, Cut
  <2> QED BY ZenonT(30), <1>5, <1>6, <2>1, <2>3 DEF Rest, Skip
<1> QED BY ZenonT(30), <1>8, <1>9, <1>10 DEF Reads

(* The same when the string ends early: if the part is there at all it is  *)
(* there whole, and what follows it ends where the string ended.           *)
ReadsUpto(w, k, x, y, l, m) ==
    /\ Prefixed(w, k) = x
    /\ \E j \in 0 .. l : m = k + Len(x) + j /\ Rest(w, k) = Pre(y, j)
LEMMA ReadPrefix ==
    ASSUME NEW k \in Width, NEW x \in Str, Fits(x, k), NEW y \in Str, NEW l \in Nat, l = Len(y),
           NEW m \in Nat, m <= k + Len(x) + l,
           NEW w, w = Pre(Cat(WithLen(x, k), y), m), HasPrefixed(w, k)
    PROVE  ReadsUpto(w, k, x, y, l, m)
<1>0. k \in Nat
  BY SMTT(30) DEF Width
<1>1. PICK a \in Str : a = Lead(x, k) /\ Len(a) = k
  BY ZenonT(30), Leads
<1>2. WithLen(x, k) = Cat(a, x)
  BY ZenonT(30), <1>1 DEF WithLen, Lead, Cat
<1>3. PICK z \in Str : z = Cat(x, y) /\ Len(z) = Len(x) + Len(y)
  <2>1. Cat(x, y) \in Str /\ Len(Cat(x, y)) = Len(x) + Len(y)
    BY Catenation
  <2> QED BY ZenonT(30), <2>1
<1>4. PICK n \in Nat : n = Len(x) /\ Len(z) = n + l /\ m <= k + n + l
  <2>1. Len(x) \in Nat
    BY Catenation
  <2> QED BY ZenonT(30), <1>3, <2>1
<1>5. w = Pre(Cat(a, z), m)
  <2>1. Cat(Cat(a, x), y) = Cat(a, Cat(x, y))
    BY Associative
  <2> QED BY ZenonT(30), <1>2, <1>3, <2>1
<1>6. Len(w) = m
  <2>1. Cat(a, z) \in Str /\ Len(Cat(a, z)) = Len(a) + Len(z)
    BY Catenation
  <2>2. PICK v \in Str : v = Cat(a, z) /\ Len(v) = k + (n + l)
    BY ZenonT(30), <1>1, <1>4, <2>1
  <2>3. m <= Len(v)
    BY SMTT(30), <1>0, <1>4, <2>2
  <2>4. Len(Pre(v, m)) = m
    BY ZenonT(30), <2>3, Pres
  <2> QED BY ZenonT(30), <1>5, <2>2, <2>4
<1>7. PICK i \in Nat : m = k + i /\ i <= n + l
  <2>1. m >= k
    BY ZenonT(30), <1>6 DEF HasPrefixed, Has
  <2> QED BY SMTT(30), <1>0, <1>4, <2>1
<1>8. PICK u \in Str : u = Pre(z, i) /\ Len(u) = i
  <2>1. i <= Len(z)
    BY ZenonT(30), <1>4, <1>7
  <2> QED BY ZenonT(30), <2>1, Pres
<1>9. w = Cat(a, u)
  <2>1. i <= Len(z)
    BY ZenonT(30), <1>4, <1>7
  <2>2. EndsIn(a, z, k, i)
    BY ZenonT(30), <1>0, <1>1, <2>1, Truncated
  <2>3. Pre(Cat(a, z), k + i) = Cat(a, Pre(z, i))
    BY ZenonT(30), <2>2 DEF EndsIn
  <2> QED BY ZenonT(30), <1>5, <1>7, <1>8, <2>3
<1>10. n <= i
  <2>1. Number(Cat(Lead(x, k), u), k) = Len(x)
    BY ZenonT(30), Leads
  <2>2. SubSeq(Cat(a, u), k + 1, Len(Cat(a, u))) = u
    BY ZenonT(30), <1>0, <1>1, Cut
  <2>3. Number(w, k) = n /\ Skip(w, k) = u
    BY ZenonT(30), <1>1, <1>4, <1>9, <2>1, <2>2 DEF Skip
  <2>4. i >= n
    BY ZenonT(30), <1>8, <2>3 DEF HasPrefixed, Has
  <2> QED BY SMTT(30), <2>4
<1>11. PICK j \in 0 .. l : i = n + j /\ j \in Nat /\ j <= l /\ m = k + n + j
  BY SMTT(30), <1>0, <1>7, <1>10
<1>12. PICK v \in Str : v = Pre(y, j)
  BY ZenonT(30), <1>11, Pres
<1>13. u = Cat(x, v)
  <2>1. EndsIn(x, y, n, j)
    BY ZenonT(30), <1>4, <1>11, Truncated
  <2>2. Pre(Cat(x, y), n + j) = Cat(x, Pre(y, j))
    BY ZenonT(30), <2>1 DEF EndsIn
  <2> QED BY ZenonT(30), <1>3, <1>8, <1>11, <1>12, <2>2
<1>14. w = Cat(WithLen(x, k), v)
  <2>1. Cat(Cat(a, x), v) = Cat(a, Cat(x, v))
    BY Associative
  <2> QED BY ZenonT(30), <1>2, <1>9, <1>13, <2>1
<1>15. Reads(w, k, x, v)
  BY ZenonT(30), <1>14, ReadWhole
<1> QED BY ZenonT(30), <1>4, <1>11, <1>12, <1>15 DEF Reads, ReadsUpto

(* Bytes skipped in two goes. *)
TwoSkips(z, a, b) == Skip(Skip(z, a), b) = Skip(z, a + b)
LEMMA SkipTwice ==
    ASSUME NEW z \in Str, NEW a \in Nat, NEW b \in Nat, a + b <= Len(z)
    PROVE  TwoSkips(z, a, b)
<1>1. PICK l \in Nat : Len(z) = a + b + l
  <2>1. PICK n \in Nat : n = Len(z)
    BY Catenation
  <2>2. a + b <= n
    BY ZenonT(30), <2>1
  <2>3. n - (a + b) \in Nat /\ n = a + b + (n - (a + b))
    BY SMTT(30), <2>2
  <2> QED BY ZenonT(30), <2>1, <2>3
<1>2. PICK u \in Str : /\ u = SubSeq(z, a + 1, a + (b + l)) /\ Len(u) = b + l
                       /\ \A i \in 1 .. b + l : u[i] = z[a + i]
  <2>1. b + l \in Nat /\ a + (b + l) <= Len(z)
    BY SMTT(30), <1>1
  <2> QED BY ZenonT(30), <2>1, Slices
<1>3. PICK v \in Str : /\ v = SubSeq(u, b + 1, b + l) /\ Len(v) = l
                       /\ \A i \in 1 .. l : v[i] = u[b + i]
  <2>1. b + l <= Len(u)
    BY SMTT(30), <1>2
  <2> QED BY ZenonT(30), <2>1, Slices
<1>4. PICK w \in Str : /\ w = SubSeq(z, a + b + 1, a + b + l) /\ Len(w) = l
                       /\ \A i \in 1 .. l : w[i] = z[a + b + i]
  <2>1. a + b \in Nat /\ a + b + l <= Len(z)
    BY SMTT(30), <1>1
  <2> QED BY ZenonT(30), <2>1, Slices
<1>5. v = w
  <2>1. \A i \in 1 .. l : b + i \in 1 .. b + l /\ a + (b + i) = a + b + i
    BY SMTT(30)
  <2>2. \A i \in 1 .. l : v[i] = w[i]
    BY ZenonT(30), <1>2, <1>3, <1>4, <2>1
  <2> QED BY ZenonT(30), <1>3, <1>4, <2>2, Same
<1>6. Skip(z, a) = u /\ Skip(z, a + b) = w /\ Skip(u, b) = v
  <2>1. a + (b + l) = a + b + l
    BY SMTT(30)
  <2> QED BY ZenonT(30), <1>1, <1>2, <1>3, <1>4, <2>1 DEF Skip
<1> QED BY ZenonT(30), <1>5, <1>6 DEF TwoSkips

(* The fields of the hello h of a TLS client c. *)
Ext(x) == x.id \in Port /\ x.data \in Str /\ Fits(x.data, 2)
Host(x) == x.type \in Byte /\ x.name \in Str /\ Fits(x.name, 2)
Hello(c, h) ==
    /\ c.data = HelloBytes(h)
    /\ h.head \in Str /\ h.sid \in Str /\ h.suites \in Str /\ h.comp \in Str /\ h.extra \in Str
    /\ Len(h.head) = 43
    /\ Fits(h.sid, 1) /\ Fits(h.suites, 2) /\ Fits(h.comp, 1)
    /\ Len(h.exts) \in Nat /\ Len(h.names) \in Nat
    /\ \A i \in 1 .. Len(h.exts) : Ext(h.exts[i])
    /\ \A i \in 1 .. Len(h.names) : Host(h.names[i])
    /\ Fits(Joined(ExtList(h)), 2) /\ Fits(Joined(NameList(h)), 2)
    /\ \A i \in 1 .. Len(h.exts) : IsFirst(Ids(h), i, 0) => h.exts[i].data = ServerNames(h)
    /\ \A i \in 1 .. Len(h.names) : IsFirst(Types(h), i, 0) => c.host = h.names[i].name

LEMMA HelloFields ==
    ASSUME NEW c \in Clients, c.kind = "socks", IsTls(c)
    PROVE  Hello(c, c.hello) /\ (c.wellFormed => WellFormed(c))
<1>1. SendsHello(c) /\ (c.wellFormed => WellFormed(c))
  BY ZenonT(30), HelloAssumption
<1>2. PICK h : h = c.hello
  OBVIOUS
<1>3. 2 # 1 /\ 5 + 4 + 2 + 32 = 43
  BY SMTT(30)
<1>4. /\ c.data = HelloBytes(h)
      /\ h.head \in Str /\ h.sid \in Str /\ h.suites \in Str /\ h.comp \in Str /\ h.extra \in Str
      /\ Len(h.head) = 43
      /\ Fits(h.sid, 1) /\ Fits(h.suites, 2) /\ Fits(h.comp, 1)
      /\ Fits(Joined(ExtList(h)), 2) /\ Fits(Joined(NameList(h)), 2)
  BY ZenonT(30), <1>1, <1>2, <1>3 DEF SendsHello, Fits, Str
<1>5. /\ h.exts \in Seq([id : Port, data : Str]) /\ h.names \in Seq([type : Byte, name : Str])
      /\ \A i \in 1 .. Len(h.exts) : Fits(h.exts[i].data, 2)
      /\ \A i \in 1 .. Len(h.names) : Fits(h.names[i].name, 2)
      /\ \A i \in 1 .. Len(h.exts) : IsFirst(Ids(h), i, 0) => h.exts[i].data = ServerNames(h)
      /\ \A i \in 1 .. Len(h.names) : IsFirst(Types(h), i, 0) => c.host = h.names[i].name
  BY ZenonT(30), <1>1, <1>2, <1>3 DEF SendsHello, Fits, Str, extensionServerName
<1>6. /\ Len(h.exts) \in Nat /\ Len(h.names) \in Nat
      /\ \A i \in 1 .. Len(h.exts) : h.exts[i] \in [id : Port, data : Str]
      /\ \A i \in 1 .. Len(h.names) : h.names[i] \in [type : Byte, name : Str]
  BY <1>5, LenProperties, ElementOfSeq
<1>7. \A x \in [id : Port, data : Str] : x.id \in Port /\ x.data \in Str
  BY SMTT(30)
<1>8. \A x \in [type : Byte, name : Str] : x.type \in Byte /\ x.name \in Str
  BY SMTT(30)
<1>9. \A i \in 1 .. Len(h.exts) : Ext(h.exts[i])
  BY ZenonT(30), <1>5, <1>6, <1>7 DEF Ext
<1>10. \A i \in 1 .. Len(h.names) : Host(h.names[i])
  BY ZenonT(30), <1>5, <1>6, <1>8 DEF Host
<1>11. Hello(c, h)
  BY ZenonT(30), <1>4, <1>5, <1>6, <1>9, <1>10 DEF Hello
<1> QED BY ZenonT(30), <1>1, <1>2, <1>11

(* An extension and a server name, read off the front of a list. *)
ReadsExt(w, x, y) ==
    /\ ~ Empty(w) /\ Has(w, 2) /\ Number(w, 2) = x.id
    /\ Reads(Skip(w, 2), 2, x.data, y)
ReadsName(w, x, y) ==
    /\ ~ Empty(w) /\ Has(w, 1) /\ Number(w, 1) = x.type
    /\ Reads(Skip(w, 1), 2, x.name, y)

LEMMA Widths == 1 \in Width /\ 2 \in Width /\ 1 \in Nat /\ 2 \in Nat /\ 1 > 0 /\ 2 > 0
  BY SMTT(30) DEF Width

(* A part behind its length is a string. *)
LEMMA WithLens ==
    ASSUME NEW k \in Width, NEW x \in Str, Fits(x, k)
    PROVE  WithLen(x, k) \in Str /\ Len(WithLen(x, k)) = k + Len(x)
<1>1. Lead(x, k) \in Str /\ Len(Lead(x, k)) = k
  BY ZenonT(30), Leads
<1>2. WithLen(x, k) = Cat(Lead(x, k), x)
  BY ZenonT(30) DEF WithLen, Lead, Cat
<1>3. PICK l \in Str : l = Lead(x, k) /\ Len(l) = k
  BY ZenonT(30), <1>1
<1>4. Cat(l, x) \in Str /\ Len(Cat(l, x)) = Len(l) + Len(x)
  BY Catenation
<1> QED BY ZenonT(30), <1>2, <1>3, <1>4

LEMMA ReadExt ==
    ASSUME NEW x, Ext(x), NEW y \in Str
    PROVE  ExtBytes(x) \in Str /\ ReadsExt(Cat(ExtBytes(x), y), x, y)
<1>1. PICK b \in Str : b = PortBytes(x.id) /\ Len(b) = 2
  BY ZenonT(30), Ports DEF Ext
<1>2. PICK v \in Str : v = WithLen(x.data, 2)
  BY ZenonT(30), Widths, WithLens DEF Ext
<1>3. ExtBytes(x) = Cat(b, v)
  BY ZenonT(30), <1>1, <1>2 DEF ExtBytes, Cat
<1>4. Cat(b, v) \in Str /\ Cat(v, y) \in Str
  BY Catenation
<1>5. Cat(ExtBytes(x), y) = Cat(b, Cat(v, y))
  <2>1. Cat(Cat(b, v), y) = Cat(b, Cat(v, y))
    BY Associative
  <2> QED BY ZenonT(30), <1>3, <2>1
<1>6. Number(Cat(b, Cat(v, y)), 2) = x.id
  BY ZenonT(30), <1>1, <1>4, Numbers DEF Ext
<1>7. Skips(b, Cat(v, y), 2)
  BY ZenonT(30), <1>1, <1>4, Widths, Skipping
<1>8. Reads(Cat(v, y), 2, x.data, y)
  BY ZenonT(30), <1>2, Widths, ReadWhole DEF Ext
<1> QED BY ZenonT(30), <1>3, <1>4, <1>5, <1>6, <1>7, <1>8 DEF ReadsExt, Skips

LEMMA ReadName ==
    ASSUME NEW x, Host(x), NEW y \in Str
    PROVE  NameBytes(x) \in Str /\ ReadsName(Cat(NameBytes(x), y), x, y)
<1>1. PICK b \in Str : b = <<x.type>> /\ Len(b) = 1
  BY ZenonT(30), Short DEF Host
<1>2. PICK v \in Str : v = WithLen(x.name, 2)
  BY ZenonT(30), Widths, WithLens DEF Host
<1>3. NameBytes(x) = Cat(b, v)
  BY ZenonT(30), <1>1, <1>2 DEF NameBytes, Cat
<1>4. Cat(b, v) \in Str /\ Cat(v, y) \in Str
  BY Catenation
<1>5. Cat(NameBytes(x), y) = Cat(b, Cat(v, y))
  <2>1. Cat(Cat(b, v), y) = Cat(b, Cat(v, y))
    BY Associative
  <2> QED BY ZenonT(30), <1>3, <2>1
<1>6. Number(Cat(b, Cat(v, y)), 1) = x.type
  BY ZenonT(30), <1>1, <1>4, Numbers DEF Host
<1>7. Skips(b, Cat(v, y), 1)
  BY ZenonT(30), <1>1, <1>4, Widths, Skipping
<1>8. Reads(Cat(v, y), 2, x.name, y)
  BY ZenonT(30), <1>2, Widths, ReadWhole DEF Host
<1> QED BY ZenonT(30), <1>3, <1>4, <1>5, <1>6, <1>7, <1>8 DEF ReadsName, Skips

(* The extensions of h from the i-th on, and its server names from the     *)
(* j-th on.                                                                *)
ExtTail(h, i) == Last(ExtList(h))[Len(h.exts) - i + 1]
NameTail(h, j) == Last(NameList(h))[Len(h.names) - j + 1]

(* A list of strings from its i-th item on. *)
LEMMA ListTails ==
    ASSUME NEW items, NEW l \in Nat, l = Len(items), \A i \in 1 .. l : items[i] \in Str
    PROVE  /\ \A i \in 1 .. l + 1 : Last(items)[l - i + 1] \in Str
           /\ Last(items)[l - (l + 1) + 1] = <<>>
           /\ Last(items)[l - 1 + 1] = Joined(items)
           /\ \A i \in 1 .. l : Last(items)[l - i + 1] = Cat(items[i], Last(items)[l - (i + 1) + 1])
<1>1. \A n \in 0 .. l : Last(items)[n] \in Str
  BY ZenonT(30), LastBytes
<1>2. /\ Last(items)[0] = <<>>
      /\ \A n \in 1 .. l : Last(items)[n] = Cat(items[l - n + 1], Last(items)[n - 1])
  BY ZenonT(30), Lasts DEF Cat
<1>3. l - (l + 1) + 1 = 0 /\ l - 1 + 1 = l /\ \A i \in 1 .. l + 1 : l - i + 1 \in 0 .. l
  BY SMTT(30)
<1>4. ASSUME NEW i \in 1 .. l
      PROVE  Last(items)[l - i + 1] = Cat(items[i], Last(items)[l - (i + 1) + 1])
  <2>1. l - i + 1 \in 1 .. l /\ l - (l - i + 1) + 1 = i /\ (l - i + 1) - 1 = l - (i + 1) + 1
    BY SMTT(30)
  <2>2. PICK n \in 1 .. l : n = l - i + 1 /\ l - n + 1 = i /\ n - 1 = l - (i + 1) + 1
    BY ZenonT(30), <2>1
  <2> QED BY ZenonT(30), <1>2, <2>2
<1> QED BY ZenonT(30), <1>1, <1>2, <1>3, <1>4 DEF Joined

(* The extensions of a hello from the i-th on: behind the last one there   *)
(* is nothing, and the others start with the i-th.                         *)
LEMMA ExtTails ==
    ASSUME NEW h, NEW l \in Nat, l = Len(h.exts), \A i \in 1 .. l : Ext(h.exts[i])
    PROVE  /\ \A i \in 1 .. l + 1 : ExtTail(h, i) \in Str
           /\ ExtTail(h, l + 1) = <<>> /\ ExtTail(h, 1) = Joined(ExtList(h))
           /\ \A i \in 1 .. l : ReadsExt(ExtTail(h, i), h.exts[i], ExtTail(h, i + 1))
<1>1. PICK items : items = ExtList(h)
  OBVIOUS
<1>2. l = Len(items)
  <2>1. items = [i \in 1 .. l |-> ExtBytes(h.exts[i])]
    BY ZenonT(30), <1>1 DEF ExtList
  <2> QED BY SMTT(30), <2>1
<1>3. ASSUME NEW i \in 1 .. l PROVE items[i] = ExtBytes(h.exts[i]) /\ items[i] \in Str
  <2>1. items[i] = ExtBytes(h.exts[i])
    BY ZenonT(30), <1>1 DEF ExtList
  <2>2. Ext(h.exts[i]) /\ <<>> \in Str
    BY ZenonT(30), Catenation
  <2> QED BY ZenonT(30), <2>1, <2>2, ReadExt
<1>4. /\ \A i \in 1 .. l + 1 : Last(items)[l - i + 1] \in Str
      /\ Last(items)[l - (l + 1) + 1] = <<>>
      /\ Last(items)[l - 1 + 1] = Joined(items)
      /\ \A i \in 1 .. l : Last(items)[l - i + 1] = Cat(items[i], Last(items)[l - (i + 1) + 1])
  BY ZenonT(30), <1>2, <1>3, ListTails
<1>5. /\ \A i \in 1 .. l + 1 : ExtTail(h, i) \in Str
      /\ ExtTail(h, l + 1) = <<>> /\ ExtTail(h, 1) = Joined(ExtList(h))
      /\ \A i \in 1 .. l : ExtTail(h, i) = Cat(items[i], ExtTail(h, i + 1))
  BY ZenonT(30), <1>1, <1>4 DEF ExtTail
<1>6. ASSUME NEW i \in 1 .. l PROVE ReadsExt(ExtTail(h, i), h.exts[i], ExtTail(h, i + 1))
  <2>1. i + 1 \in 1 .. l + 1
    BY SMTT(30)
  <2>2. PICK y \in Str : y = ExtTail(h, i + 1)
    BY ZenonT(30), <1>5, <2>1
  <2>3. ReadsExt(Cat(ExtBytes(h.exts[i]), y), h.exts[i], y)
    BY ZenonT(30), ReadExt
  <2> QED BY ZenonT(30), <1>3, <1>5, <2>2, <2>3
<1> QED BY ZenonT(30), <1>5, <1>6

LEMMA NameTails ==
    ASSUME NEW h, NEW l \in Nat, l = Len(h.names), \A i \in 1 .. l : Host(h.names[i])
    PROVE  /\ \A i \in 1 .. l + 1 : NameTail(h, i) \in Str
           /\ NameTail(h, l + 1) = <<>> /\ NameTail(h, 1) = Joined(NameList(h))
           /\ \A i \in 1 .. l : ReadsName(NameTail(h, i), h.names[i], NameTail(h, i + 1))
<1>1. PICK items : items = NameList(h)
  OBVIOUS
<1>2. l = Len(items)
  <2>1. items = [i \in 1 .. l |-> NameBytes(h.names[i])]
    BY ZenonT(30), <1>1 DEF NameList
  <2> QED BY SMTT(30), <2>1
<1>3. ASSUME NEW i \in 1 .. l PROVE items[i] = NameBytes(h.names[i]) /\ items[i] \in Str
  <2>1. items[i] = NameBytes(h.names[i])
    BY ZenonT(30), <1>1 DEF NameList
  <2>2. Host(h.names[i]) /\ <<>> \in Str
    BY ZenonT(30), Catenation
  <2> QED BY ZenonT(30), <2>1, <2>2, ReadName
<1>4. /\ \A i \in 1 .. l + 1 : Last(items)[l - i + 1] \in Str
      /\ Last(items)[l - (l + 1) + 1] = <<>>
      /\ Last(items)[l - 1 + 1] = Joined(items)
      /\ \A i \in 1 .. l : Last(items)[l - i + 1] = Cat(items[i], Last(items)[l - (i + 1) + 1])
  BY ZenonT(30), <1>2, <1>3, ListTails
<1>5. /\ \A i \in 1 .. l + 1 : NameTail(h, i) \in Str
      /\ NameTail(h, l + 1) = <<>> /\ NameTail(h, 1) = Joined(NameList(h))
      /\ \A i \in 1 .. l : NameTail(h, i) = Cat(items[i], NameTail(h, i + 1))
  BY ZenonT(30), <1>1, <1>4 DEF NameTail
<1>6. ASSUME NEW i \in 1 .. l PROVE ReadsName(NameTail(h, i), h.names[i], NameTail(h, i + 1))
  <2>1. i + 1 \in 1 .. l + 1
    BY SMTT(30)
  <2>2. PICK y \in Str : y = NameTail(h, i + 1)
    BY ZenonT(30), <1>5, <2>1
  <2>3. ReadsName(Cat(NameBytes(h.names[i]), y), h.names[i], y)
    BY ZenonT(30), ReadName
  <2> QED BY ZenonT(30), <1>3, <1>5, <2>2, <2>3
<1> QED BY ZenonT(30), <1>5, <1>6

(* The fields in front of the extensions, and when Fixed accepts them. *)
SidOf(q) == Skip(q, 4 + 2 + 32)
SuitesOf(q) == Rest(SidOf(q), 1)
CompOf(q) == Rest(SuitesOf(q), 2)
ExtsOf(q) == Rest(CompOf(q), 1)
FixedOk(q) ==
    /\ Has(q, 4 + 2 + 32) /\ HasPrefixed(SidOf(q), 1)
    /\ HasPrefixed(SuitesOf(q), 2) /\ IsUint16List(Prefixed(SuitesOf(q), 2))
    /\ HasPrefixed(CompOf(q), 1)
    /\ IsOnly(ExtsOf(q), 2)

(* The first j bytes of f, of which a part x behind its length and then    *)
(* the first i bytes of y are read: if y is complete, so is f.             *)
ReadsOn(f, j, k, x, y, i) ==
    /\ Prefixed(Pre(f, j), k) = x /\ Rest(Pre(f, j), k) = Pre(y, i)
    /\ i = Len(y) => j = Len(f)

LEMMA ReadNext ==
    ASSUME NEW k \in Width, NEW x \in Str, Fits(x, k), NEW y \in Str, NEW f \in Str,
           f = Cat(WithLen(x, k), y), NEW j \in 0 .. Len(f), HasPrefixed(Pre(f, j), k)
    PROVE  \E i \in 0 .. Len(y) : ReadsOn(f, j, k, x, y, i)
<1>1. PICK a \in Str : a = WithLen(x, k) /\ Len(a) = k + Len(x)
  BY ZenonT(30), WithLens
<1>2. Len(Cat(a, y)) = Len(a) + Len(y) /\ Len(y) \in Nat /\ Len(x) \in Nat
  BY Catenation
<1>3. PICK l \in Nat, n \in Nat : l = Len(y) /\ n = Len(x) /\ Len(f) = k + n + l
  BY ZenonT(30), <1>1, <1>2
<1>4. j \in Nat /\ j <= k + n + l
  <2>1. k \in Nat /\ j \in 0 .. k + n + l
    BY ZenonT(30), <1>3, Widths DEF Width
  <2> QED BY SMTT(30), <2>1
<1>5. j <= k + Len(x) + l
  BY ZenonT(30), <1>3, <1>4
<1>6. PICK w : w = Pre(f, j)
  OBVIOUS
<1>7. w = Pre(Cat(WithLen(x, k), y), j) /\ HasPrefixed(w, k)
  BY ZenonT(30), <1>6
<1>8. ReadsUpto(w, k, x, y, l, j)
  BY ZenonT(30), <1>3, <1>4, <1>5, <1>7, ReadPrefix
<1>9. PICK i \in 0 .. l : j = k + n + i /\ Rest(w, k) = Pre(y, i) /\ Prefixed(w, k) = x
  BY ZenonT(30), <1>3, <1>8 DEF ReadsUpto
<1>10. i = l => j = k + n + l
  BY ZenonT(30), <1>9
<1> QED BY ZenonT(30), <1>3, <1>6, <1>9, <1>10 DEF ReadsOn

(* A hello, field by field. *)
Fields(c, h, f1, f2, f3, f4) ==
    /\ c.data = Cat(h.head, f1) /\ f1 = Cat(WithLen(h.sid, 1), f2)
    /\ f2 = Cat(WithLen(h.suites, 2), f3) /\ f3 = Cat(WithLen(h.comp, 1), f4)
    /\ f4 = Cat(WithLen(Joined(ExtList(h)), 2), <<>>)

LEMMA Extensions ==
    ASSUME NEW c, NEW h, Hello(c, h)
    PROVE  Joined(ExtList(h)) \in Str
<1>1. PICK l \in Nat : l = Len(h.exts) /\ \A i \in 1 .. l : Ext(h.exts[i])
  BY ZenonT(30) DEF Hello
<1>2. 1 \in 1 .. l + 1
  BY SMTT(30)
<1>3. (\A i \in 1 .. l + 1 : ExtTail(h, i) \in Str) /\ ExtTail(h, 1) = Joined(ExtList(h))
  BY ZenonT(30), <1>1, ExtTails
<1> QED BY ZenonT(30), <1>2, <1>3

LEMMA HelloLayout ==
    ASSUME NEW c, NEW h, Hello(c, h)
    PROVE  \E f1, f2, f3, f4 \in Str : Fields(c, h, f1, f2, f3, f4)
<1>1. h.head \in Str /\ h.sid \in Str /\ h.suites \in Str /\ h.comp \in Str /\ Joined(ExtList(h)) \in Str
  BY ZenonT(30), Extensions DEF Hello
<1>2. Fits(h.sid, 1) /\ Fits(h.suites, 2) /\ Fits(h.comp, 1) /\ Fits(Joined(ExtList(h)), 2)
  BY ZenonT(30) DEF Hello
<1>3. PICK d \in Str, a \in Str : d = h.head /\ a = WithLen(h.sid, 1)
  BY ZenonT(30), <1>1, <1>2, Widths, WithLens
<1>4. PICK b \in Str : b = WithLen(h.suites, 2)
  BY ZenonT(30), <1>1, <1>2, Widths, WithLens
<1>5. PICK e \in Str : e = WithLen(h.comp, 1)
  BY ZenonT(30), <1>1, <1>2, Widths, WithLens
<1>6. PICK g \in Str : g = WithLen(Joined(ExtList(h)), 2)
  BY ZenonT(30), <1>1, <1>2, Widths, WithLens
<1>7. c.data = Cat(Cat(Cat(Cat(d, a), b), e), g)
  BY ZenonT(30), <1>3, <1>4, <1>5, <1>6 DEF Hello, HelloBytes, Cat
<1>8. Cat(Cat(Cat(Cat(d, a), b), e), g) = Cat(d, Cat(a, Cat(b, Cat(e, g))))
  BY SMTT(30), Regroup
<1>9. Cat(g, <<>>) = g /\ Cat(e, g) \in Str
  BY Catenation
<1>10. PICK f3 \in Str : f3 = Cat(e, g)
  BY <1>9
<1>11. PICK f2 \in Str : f2 = Cat(b, f3)
  BY Catenation
<1>12. PICK f1 \in Str : f1 = Cat(a, f2)
  BY Catenation
<1>13. Fields(c, h, f1, f2, f3, g)
  BY ZenonT(30), <1>3, <1>4, <1>5, <1>6, <1>7, <1>8, <1>9, <1>10, <1>11, <1>12 DEF Fields
<1> QED BY ZenonT(30), <1>13

(* As much of a hello as arrived: where the fields in front of the         *)
(* extensions are accepted all of it did, and the extensions are those of  *)
(* the client.                                                             *)
LEMMA HelloCut ==
    ASSUME NEW c, NEW h, Hello(c, h), c.data \in Str, NEW m \in 0 .. Len(c.data), m >= 5,
           FixedOk(Skip(Pre(c.data, m), 5))
    PROVE  m = Len(c.data) /\ Prefixed(ExtsOf(Skip(Pre(c.data, m), 5)), 2) = Joined(ExtList(h))
<1>1. PICK f1 \in Str, f2 \in Str, f3 \in Str, f4 \in Str : Fields(c, h, f1, f2, f3, f4)
  BY ZenonT(30), HelloLayout
<1>2. PICK d \in Str : d = h.head /\ Len(d) = 43 /\ c.data = Cat(d, f1)
  BY ZenonT(30), <1>1 DEF Hello, Fields
<1>3. PICK l \in Nat : l = Len(f1) /\ Len(c.data) = 43 + l
  <2>1. Len(Cat(d, f1)) = Len(d) + Len(f1) /\ Len(f1) \in Nat
    BY Catenation
  <2> QED BY ZenonT(30), <1>2, <2>1
<1>4. PICK b \in Str : b = Pre(c.data, m) /\ Len(b) = m /\ m \in Nat /\ m <= 43 + l
  <2>1. m \in 0 .. 43 + l
    BY ZenonT(30), <1>3
  <2>2. m \in Nat /\ m <= 43 + l
    BY SMTT(30), <2>1
  <2>3. m <= Len(c.data)
    BY ZenonT(30), <1>3, <2>2
  <2> QED BY ZenonT(30), <2>2, <2>3, Pres
<1>5. PICK q : q = Skip(b, 5)
  OBVIOUS
<1>6. FixedOk(q)
  BY ZenonT(30), <1>4, <1>5
<1>7. m >= 43
  <2>1. PICK k \in Nat : m = 5 + k
    <3>1. m - 5 \in Nat /\ m = 5 + (m - 5)
      BY SMTT(30), <1>4
    <3> QED BY ZenonT(30), <3>1
  <2>2. 5 \in Nat /\ 5 + k <= Len(b)
    BY SMTT(30), <1>4, <2>1
  <2>3. Len(SubSeq(b, 5 + 1, 5 + k)) = k
    BY ZenonT(30), <2>2, Slices
  <2>4. Len(q) = k
    BY ZenonT(30), <1>4, <1>5, <2>1, <2>3 DEF Skip
  <2>5. k >= 4 + 2 + 32
    BY ZenonT(30), <1>6, <2>4 DEF FixedOk, Has
  <2> QED BY SMTT(30), <2>1, <2>5
<1>8. PICK i \in Nat : m = 43 + i /\ i <= l /\ i \in 0 .. l
  <2>1. m - 43 \in Nat /\ m = 43 + (m - 43) /\ m - 43 <= l /\ m - 43 \in 0 .. l
    BY SMTT(30), <1>4, <1>7
  <2> QED BY ZenonT(30), <2>1
<1>9. 43 \in Nat /\ 43 = 5 + 38 /\ 5 \in Nat /\ 38 \in Nat /\ 38 = 4 + 2 + 32 /\ 43 > 0 /\ 5 + 38 <= m
  BY SMTT(30), <1>8
<1>10. SidOf(q) = Pre(f1, i)
  <2>1. EndsIn(d, f1, 43, i)
    BY ZenonT(30), <1>2, <1>3, <1>8, <1>9, Truncated
  <2>2. PICK u \in Str : u = Pre(f1, i)
    BY ZenonT(30), <1>3, <1>8, Pres
  <2>3. b = Cat(d, u)
    BY ZenonT(30), <1>2, <1>4, <1>8, <2>1, <2>2 DEF EndsIn
  <2>4. Skips(d, u, 43)
    BY ZenonT(30), <1>2, <1>9, Skipping
  <2>5. TwoSkips(b, 5, 38)
    BY ZenonT(30), <1>4, <1>9, SkipTwice
  <2> QED BY ZenonT(30), <1>5, <1>9, <2>2, <2>3, <2>4, <2>5 DEF SidOf, Skips, TwoSkips
<1>11. PICK i2 \in 0 .. Len(f2) : ReadsOn(f1, i, 1, h.sid, f2, i2)
  <2>1. HasPrefixed(Pre(f1, i), 1) /\ i \in 0 .. Len(f1)
    BY ZenonT(30), <1>3, <1>6, <1>8, <1>10 DEF FixedOk
  <2>2. h.sid \in Str /\ Fits(h.sid, 1) /\ f1 = Cat(WithLen(h.sid, 1), f2)
    BY ZenonT(30), <1>1 DEF Hello, Fields
  <2> QED BY ZenonT(30), <2>1, <2>2, Widths, ReadNext
<1>12. SuitesOf(q) = Pre(f2, i2)
  BY ZenonT(30), <1>10, <1>11 DEF SuitesOf, ReadsOn
<1>13. PICK i3 \in 0 .. Len(f3) : ReadsOn(f2, i2, 2, h.suites, f3, i3)
  <2>1. HasPrefixed(Pre(f2, i2), 2)
    BY ZenonT(30), <1>6, <1>12 DEF FixedOk
  <2>2. h.suites \in Str /\ Fits(h.suites, 2) /\ f2 = Cat(WithLen(h.suites, 2), f3)
    BY ZenonT(30), <1>1 DEF Hello, Fields
  <2> QED BY ZenonT(30), <1>11, <2>1, <2>2, Widths, ReadNext
<1>14. CompOf(q) = Pre(f3, i3)
  BY ZenonT(30), <1>12, <1>13 DEF CompOf, ReadsOn
<1>15. PICK i4 \in 0 .. Len(f4) : ReadsOn(f3, i3, 1, h.comp, f4, i4)
  <2>1. HasPrefixed(Pre(f3, i3), 1)
    BY ZenonT(30), <1>6, <1>14 DEF FixedOk
  <2>2. h.comp \in Str /\ Fits(h.comp, 1) /\ f3 = Cat(WithLen(h.comp, 1), f4)
    BY ZenonT(30), <1>1 DEF Hello, Fields
  <2> QED BY ZenonT(30), <1>13, <2>1, <2>2, Widths, ReadNext
<1>16. ExtsOf(q) = Pre(f4, i4)
  BY ZenonT(30), <1>14, <1>15 DEF ExtsOf, ReadsOn
<1>17. PICK i5 \in 0 .. Len(<<>>) : ReadsOn(f4, i4, 2, Joined(ExtList(h)), <<>>, i5)
  <2>1. HasPrefixed(Pre(f4, i4), 2)
    BY ZenonT(30), <1>6, <1>16 DEF FixedOk, IsOnly
  <2>2. /\ Joined(ExtList(h)) \in Str /\ Fits(Joined(ExtList(h)), 2)
        /\ f4 = Cat(WithLen(Joined(ExtList(h)), 2), <<>>)
    BY ZenonT(30), <1>1, Extensions DEF Hello, Fields
  <2>3. <<>> \in Str
    BY Catenation
  <2> QED BY ZenonT(30), <1>15, <2>1, <2>2, <2>3, Widths, ReadNext
<1>18. i5 = Len(<<>>)
  <2>1. Len(<<>>) = 0
    BY Catenation
  <2>2. \A j \in 0 .. 0 : j = 0
    BY SMTT(30)
  <2> QED BY ZenonT(30), <1>17, <2>1, <2>2
<1>19. i = l
  BY ZenonT(30), <1>3, <1>11, <1>13, <1>15, <1>17, <1>18 DEF ReadsOn
<1>20. m = Len(c.data)
  BY ZenonT(30), <1>3, <1>8, <1>19
<1>21. Prefixed(ExtsOf(q), 2) = Joined(ExtList(h))
  BY ZenonT(30), <1>16, <1>17 DEF ReadsOn
<1> QED BY ZenonT(30), <1>4, <1>5, <1>20, <1>21

(* A complete hello with whole cipher suites is accepted. *)
LEMMA HelloWhole ==
    ASSUME NEW c, NEW h, Hello(c, h), c.data \in Str, Len(h.suites) % 2 = 0
    PROVE  FixedOk(Skip(c.data, 5))
<1>1. PICK f1 \in Str, f2 \in Str, f3 \in Str, f4 \in Str : Fields(c, h, f1, f2, f3, f4)
  BY ZenonT(30), HelloLayout
<1>2. PICK d \in Str : d = h.head /\ Len(d) = 43 /\ c.data = Cat(d, f1)
  BY ZenonT(30), <1>1 DEF Hello, Fields
<1>3. PICK b \in Str, l \in Nat : b = c.data /\ Len(b) = 43 + l
  <2>1. Len(Cat(d, f1)) = Len(d) + Len(f1) /\ Len(f1) \in Nat
    BY Catenation
  <2> QED BY ZenonT(30), <1>2, <2>1
<1>4. PICK q : q = Skip(b, 5)
  OBVIOUS
<1>5. /\ 43 \in Nat /\ 43 = 5 + 38 /\ 5 \in Nat /\ 38 \in Nat /\ 38 = 4 + 2 + 32 /\ 43 > 0
      /\ 5 + 38 <= Len(b) /\ 38 + l \in Nat /\ 5 + (38 + l) <= Len(b) /\ 5 + (38 + l) = Len(b) /\ 38 + l >= 38
  BY SMTT(30), <1>3
<1>6. Has(q, 4 + 2 + 32)
  <2>1. Len(SubSeq(b, 5 + 1, 5 + (38 + l))) = 38 + l
    BY ZenonT(30), <1>5, Slices
  <2> QED BY ZenonT(30), <1>4, <1>5, <2>1 DEF Has, Skip
<1>7. SidOf(q) = f1
  <2>1. Skips(d, f1, 43)
    BY ZenonT(30), <1>2, <1>5, Skipping
  <2>2. TwoSkips(b, 5, 38)
    BY ZenonT(30), <1>5, SkipTwice
  <2> QED BY ZenonT(30), <1>2, <1>3, <1>4, <1>5, <2>1, <2>2 DEF SidOf, Skips, TwoSkips
<1>8. Reads(f1, 1, h.sid, f2)
  BY ZenonT(30), <1>1, Widths, ReadWhole DEF Hello, Fields
<1>9. Reads(f2, 2, h.suites, f3)
  BY ZenonT(30), <1>1, Widths, ReadWhole DEF Hello, Fields
<1>10. Reads(f3, 1, h.comp, f4)
  BY ZenonT(30), <1>1, Widths, ReadWhole DEF Hello, Fields
<1>11. Reads(f4, 2, Joined(ExtList(h)), <<>>)
  <2>1. /\ Joined(ExtList(h)) \in Str /\ Fits(Joined(ExtList(h)), 2) /\ <<>> \in Str
        /\ f4 = Cat(WithLen(Joined(ExtList(h)), 2), <<>>)
    BY ZenonT(30), <1>1, Extensions, Catenation DEF Hello, Fields
  <2> QED BY ZenonT(30), <2>1, Widths, ReadWhole
<1>12. SuitesOf(q) = f2 /\ CompOf(q) = f3 /\ ExtsOf(q) = f4
  BY ZenonT(30), <1>7, <1>8, <1>9, <1>10 DEF SuitesOf, CompOf, ExtsOf, Reads
<1>13. FixedOk(q)
  BY ZenonT(30), <1>6, <1>7, <1>8, <1>9, <1>10, <1>11, <1>12
     DEF FixedOk, Reads, IsOnly, Empty, IsUint16List
<1> QED BY ZenonT(30), <1>3, <1>4, <1>13

-----------------------------------------------------------------------------
(* Lists inside extensions.                                                *)

(* What IsList says of the last n bytes of w when f says it of fewer, and  *)
(* that f does so up to the last m bytes.                                  *)
Says(f, n) == f[n]
Listed(w, pre, k, post, f, n) ==
    LET item == Skip(w, Len(w) - n)
        part == Skip(item, pre)
    IN  \/ n = 0
        \/ /\ Has(item, pre)
           /\ HasPrefixed(part, k)
           /\ ~ Empty(Prefixed(part, k))
           /\ Has(Rest(part, k), post)
           /\ Says(f, Len(Rest(part, k)) - post)
Walks(w, pre, k, post, f, m) == f = [n \in 0 .. m |-> Listed(w, pre, k, post, f, n)]

(* The last n bytes of w begin with an item, and how many bytes are left   *)
(* behind it.                                                              *)
Entry(w, pre, k, post, n) ==
    LET part == Skip(Skip(w, Len(w) - n), pre)
    IN  /\ Has(Skip(w, Len(w) - n), pre)
        /\ HasPrefixed(part, k)
        /\ ~ Empty(Prefixed(part, k))
        /\ Has(Rest(part, k), post)
After(w, pre, k, post, n) == Len(Rest(Skip(Skip(w, Len(w) - n), pre), k)) - post

LEMMA ListedBy ==
    ASSUME NEW w, NEW pre, NEW k, NEW post, NEW f, NEW n
    PROVE  Listed(w, pre, k, post, f, n)
              <=> n = 0 \/ (Entry(w, pre, k, post, n) /\ Says(f, After(w, pre, k, post, n)))
  BY ZenonT(30) DEF Listed, Entry, After

LEMMA WalkBy ==
    ASSUME NEW w, NEW pre, NEW k, NEW post, NEW m, NEW f, Walks(w, pre, k, post, f, m)
    PROVE  \A n \in 0 .. m : Says(f, n) <=> Listed(w, pre, k, post, f, n)
<1> SUFFICES ASSUME NEW n \in 0 .. m PROVE Says(f, n) <=> Listed(w, pre, k, post, f, n)
  OBVIOUS
<1>1. f[n] = Listed(w, pre, k, post, f, n)
  BY ZenonT(30) DEF Walks
<1> QED BY ZenonT(30), <1>1 DEF Says

LEMMA IsListBy ==
    ASSUME NEW w, NEW pre, NEW k, NEW post, NEW l, l = Len(w), NEW g, Walks(w, pre, k, post, g, l)
    PROVE  \E f : Walks(w, pre, k, post, f, l) /\ (Says(f, l) => IsList(w, pre, k, post))
<1> DEFINE f == CHOOSE h : Walks(w, pre, k, post, h, l)
<1>1. Walks(w, pre, k, post, f, l)
  BY ZenonT(30)
<1>2. f[l] = IsList(w, pre, k, post)
  BY ZenonT(30) DEF IsList, Walks, Listed, Says
<1> HIDE DEF f
<1>3. Says(f, l) => IsList(w, pre, k, post)
  BY ZenonT(30), <1>2 DEF Says
<1> QED BY ZenonT(30), <1>1, <1>3

(* What is left when a bytes are skipped. *)
LeftOf(z, a, l) == Skip(z, a) \in Str /\ Len(Skip(z, a)) = l - a
LEMMA Skipped ==
    ASSUME NEW z \in Str, NEW l \in Nat, l = Len(z), NEW a \in Nat, a <= l
    PROVE  LeftOf(z, a, l)
<1>1. PICK n \in Nat : n = l - a /\ l = a + n /\ a + n <= l
  BY SMTT(30)
<1>2. SubSeq(z, a + 1, a + n) \in Str /\ Len(SubSeq(z, a + 1, a + n)) = n
  BY ZenonT(30), <1>1, Slices
<1> QED BY ZenonT(30), <1>1, <1>2 DEF LeftOf, Skip

LEMMA NumberNat ==
    ASSUME NEW z \in Str, NEW k \in Width, Len(z) >= k
    PROVE  Number(z, k) \in Nat
<1>1. \A i \in 1 .. Len(z) : z[i] \in Nat
  <2>1. \A i \in 1 .. Len(z) : z[i] \in Byte
    BY SMTT(30) DEF Str
  <2>2. \A b \in Byte : b \in Nat
    BY SMTT(30) DEF Byte
  <2> QED BY ZenonT(30), <2>1, <2>2
<1>2. PICK l \in Nat : l = Len(z) /\ l >= k
  BY Catenation
<1>3. CASE k = 1
  <2>1. z[1] \in Nat
    <3>1. 1 \in 1 .. l
      BY SMTT(30), <1>2, <1>3
    <3> QED BY ZenonT(30), <1>1, <1>2, <3>1
  <2> QED BY ZenonT(30), <1>3, <2>1 DEF Number
<1>4. CASE k = 2
  <2>1. z[1] \in Nat /\ z[2] \in Nat
    <3>1. 1 \in 1 .. l /\ 2 \in 1 .. l
      BY SMTT(30), <1>2, <1>4
    <3> QED BY ZenonT(30), <1>1, <1>2, <3>1
  <2> QED BY SMTT(30), <1>4, <2>1 DEF Number
<1> QED BY ZenonT(30), <1>3, <1>4 DEF Width

(* Behind an item there is less than before it. *)
LEMMA Descends ==
    ASSUME NEW w \in Str, NEW l \in Nat, l = Len(w), NEW pre \in Nat, NEW k \in Width, NEW post \in Nat,
           NEW n \in Nat, n <= l, Entry(w, pre, k, post, n)
    PROVE  After(w, pre, k, post, n) \in 0 .. n - 1
<1>0. k \in Nat /\ k > 0
  BY SMTT(30) DEF Width
<1>1. PICK item \in Str : item = Skip(w, Len(w) - n) /\ Len(item) = n
  <2>1. l - n \in Nat /\ l - n <= l /\ l - (l - n) = n
    BY SMTT(30)
  <2>2. LeftOf(w, l - n, l)
    BY ZenonT(30), <2>1, Skipped
  <2> QED BY ZenonT(30), <2>1, <2>2 DEF LeftOf
<1>2. pre <= n
  <2>1. n >= pre
    BY ZenonT(30), <1>1 DEF Entry, Has
  <2> QED BY SMTT(30), <2>1
<1>3. PICK part \in Str : part = Skip(item, pre) /\ Len(part) = n - pre
  <2>1. LeftOf(item, pre, n)
    BY ZenonT(30), <1>1, <1>2, Skipped
  <2> QED BY ZenonT(30), <2>1 DEF LeftOf
<1>4. HasPrefixed(part, k) /\ Has(Rest(part, k), post)
  BY ZenonT(30), <1>1, <1>3 DEF Entry
<1>5. PICK p \in Nat : p = Len(part) /\ n = pre + p /\ k <= p
  <2>1. n - pre \in Nat /\ n = pre + (n - pre)
    BY SMTT(30), <1>2
  <2>2. Len(part) >= k
    BY ZenonT(30), <1>4 DEF HasPrefixed, Has
  <2>3. n - pre >= k
    BY ZenonT(30), <1>3, <2>2
  <2>4. k <= n - pre
    BY SMTT(30), <1>0, <2>1, <2>3
  <2> QED BY ZenonT(30), <1>3, <2>1, <2>4
<1>6. PICK x \in Nat : x = Number(part, k) /\ k + x <= p
  <2>1. Number(part, k) \in Nat
    <3>1. Len(part) >= k
      BY ZenonT(30), <1>4 DEF HasPrefixed, Has
    <3> QED BY ZenonT(30), <3>1, NumberNat
  <2>2. LeftOf(part, k, p)
    BY ZenonT(30), <1>0, <1>5, Skipped
  <2>3. p - k >= Number(part, k)
    BY ZenonT(30), <1>4, <2>2 DEF LeftOf, HasPrefixed, Has
  <2>4. k + Number(part, k) <= p
    BY SMTT(30), <1>0, <2>1, <2>3
  <2> QED BY ZenonT(30), <2>1, <2>4
<1>7. Len(Rest(part, k)) = p - (k + x)
  <2>1. k + x \in Nat
    BY SMTT(30), <1>0
  <2>2. LeftOf(part, k + x, p)
    BY ZenonT(30), <1>5, <1>6, <2>1, Skipped
  <2> QED BY ZenonT(30), <1>6, <2>2 DEF LeftOf, Rest
<1>8. p - (k + x) >= post
  BY ZenonT(30), <1>4, <1>7 DEF Has
<1>9. After(w, pre, k, post, n) = p - (k + x) - post
  BY ZenonT(30), <1>1, <1>3, <1>7 DEF After
<1>10. p - (k + x) - post \in 0 .. n - 1
  BY SMTT(30), <1>0, <1>5, <1>6, <1>8
<1> QED BY ZenonT(30), <1>9, <1>10

(* The recursive definition of IsList has a solution. *)
LEMMA WalkExists ==
    ASSUME NEW w \in Str, NEW l \in Nat, l = Len(w), NEW pre \in Nat, NEW k \in Width, NEW post \in Nat
    PROVE  \E f : Walks(w, pre, k, post, f, l)
<1> DEFINE T == {n \in Nat : n <= l /\ ~ \E f : Walks(w, pre, k, post, f, n)}
<1>0. l <= l
  BY SMTT(30)
<1> SUFFICES ASSUME T # {} PROVE FALSE
  BY ZenonT(30), <1>0
<1>1. PICK m \in T : \A n \in T : m <= n
  <2>1. T \subseteq Nat
    BY ZenonT(30)
  <2> HIDE DEF T
  <2> QED BY ZenonT(30), <2>1, Least
<1>2. m \in Nat /\ m <= l /\ ~ \E f : Walks(w, pre, k, post, f, m)
  BY ZenonT(30), <1>1
<1>3. PICK f : m # 0 => Walks(w, pre, k, post, f, m - 1)
  <2>1. m # 0 => m - 1 \in Nat /\ m - 1 <= l /\ ~(m <= m - 1)
    BY SMTT(30), <1>2
  <2> QED BY ZenonT(30), <1>1, <2>1
<1> DEFINE g == [n \in 0 .. m |-> IF n = m THEN Listed(w, pre, k, post, f, m) ELSE f[n]]
<1>4. ASSUME NEW n \in 0 .. m PROVE g[n] = Listed(w, pre, k, post, f, n)
  <2>1. CASE n = m
    BY ZenonT(30), <2>1
  <2>2. CASE n # m
    <3>1. m # 0 /\ n \in 0 .. m - 1
      BY SMTT(30), <1>2, <2>2
    <3>2. f[n] = Listed(w, pre, k, post, f, n)
      BY ZenonT(30), <1>3, <3>1 DEF Walks
    <3> QED BY ZenonT(30), <2>2, <3>2
  <2> QED BY <2>1, <2>2
<1>5. ASSUME NEW n \in 0 .. m PROVE Listed(w, pre, k, post, g, n) <=> Listed(w, pre, k, post, f, n)
  <2>1. n \in Nat /\ n <= l /\ \A a \in 0 .. n - 1 : a \in 0 .. m /\ a # m
    BY SMTT(30), <1>2
  <2>2. Entry(w, pre, k, post, n) => After(w, pre, k, post, n) \in 0 .. n - 1
    BY ZenonT(30), <2>1, Descends
  <2>3. \A a \in 0 .. n - 1 : g[a] = f[a]
    BY ZenonT(30), <2>1
  <2>4. \A a \in 0 .. n - 1 : Says(g, a) <=> Says(f, a)
    <3> HIDE DEF g
    <3> QED BY ZenonT(30), <2>3 DEF Says
  <2> HIDE DEF g
  <2> QED BY ZenonT(30), <2>2, <2>4, ListedBy
<1>6. ASSUME NEW n \in 0 .. m PROVE g[n] = Listed(w, pre, k, post, g, n)
  <2>1. g[n] = Listed(w, pre, k, post, f, n)
    BY <1>4
  <2>2. Listed(w, pre, k, post, g, n) <=> Listed(w, pre, k, post, f, n)
    BY <1>5
  <2>3. Listed(w, pre, k, post, g, n) = Listed(w, pre, k, post, f, n)
    <3> HIDE DEF g
    <3> QED BY ZenonT(30), <2>2 DEF Listed
  <2> HIDE DEF g
  <2> QED BY ZenonT(30), <2>1, <2>3
<1>7. Walks(w, pre, k, post, g, m)
  <2>1. g = [n \in 0 .. m |-> g[n]]
    BY ZenonT(30)
  <2> HIDE DEF g
  <2> QED BY ZenonT(30), <1>6, <2>1 DEF Walks
<1> HIDE DEF g
<1> QED BY ZenonT(30), <1>2, <1>7

(* Every tail of a list ends what the list is written as. *)
LEMMA ListEnds ==
    ASSUME NEW items, NEW l \in Nat, l = Len(items), \A i \in 1 .. l : items[i] \in Str
    PROVE  \A n \in 0 .. l : \E u \in Str : Joined(items) = Cat(u, Last(items)[n])
<1> DEFINE T == {j \in Nat : j <= l /\ ~ \E u \in Str : Joined(items) = Cat(u, Last(items)[l - j])}
<1>0. T = {}
  <2> SUFFICES ASSUME T # {} PROVE FALSE
    OBVIOUS
  <2>1. PICK j \in T : \A i \in T : j <= i
    <3>1. T \subseteq Nat
      BY ZenonT(30)
    <3> HIDE DEF T
    <3> QED BY ZenonT(30), <3>1, Least
  <2>2. j \in Nat /\ j <= l /\ ~ \E u \in Str : Joined(items) = Cat(u, Last(items)[l - j])
    BY ZenonT(30), <2>1
  <2>3. CASE j = 0
    <3>1. l - j = l /\ l \in 0 .. l
      BY SMTT(30), <2>3
    <3>2. Last(items)[l] \in Str
      BY ZenonT(30), <3>1, LastBytes
    <3>3. <<>> \in Str /\ Cat(<<>>, Last(items)[l]) = Last(items)[l]
      BY <3>2, Catenation
    <3> QED BY ZenonT(30), <2>2, <3>1, <3>3 DEF Joined
  <2>4. CASE j # 0
    <3>1. /\ j - 1 \in Nat /\ j - 1 <= l /\ ~(j <= j - 1)
          /\ l - (j - 1) \in 1 .. l /\ (l - (j - 1)) - 1 = l - j /\ l - (l - (j - 1)) + 1 = j
          /\ j \in 1 .. l /\ l - j \in 0 .. l
      BY SMTT(30), <2>2, <2>4
    <3>2. PICK u \in Str : Joined(items) = Cat(u, Last(items)[l - (j - 1)])
      BY ZenonT(30), <2>1, <3>1
    <3>3. PICK x \in Str, y \in Str : x = items[j] /\ y = Last(items)[l - j]
      BY ZenonT(30), <3>1, LastBytes
    <3>4. Last(items)[l - (j - 1)] = Cat(x, y)
      <4>1. PICK n \in 1 .. l : n = l - (j - 1) /\ n - 1 = l - j /\ l - n + 1 = j
        BY ZenonT(30), <3>1
      <4> QED BY ZenonT(30), <3>3, <4>1, Lasts DEF Cat
    <3>5. Cat(u, x) \in Str /\ Cat(Cat(u, x), y) = Cat(u, Cat(x, y))
      BY Catenation, Associative
    <3> QED BY ZenonT(30), <2>2, <3>2, <3>3, <3>4, <3>5
  <2> QED BY <2>3, <2>4
<1> SUFFICES ASSUME NEW n \in 0 .. l PROVE \E u \in Str : Joined(items) = Cat(u, Last(items)[n])
  OBVIOUS
<1>1. l - n \in Nat /\ l - n <= l /\ l - (l - n) = n
  BY SMTT(30)
<1> QED BY ZenonT(30), <1>0, <1>1

(* An item of a list, as the RFCs lay it out: pre bytes, a part behind its *)
(* length in k bytes, and post bytes.                                      *)
IsItem(x, pre, k, post) ==
    \E a, y, z \in Str : /\ Len(a) = pre /\ Len(z) = post
                         /\ y # <<>> /\ Fits(y, k)
                         /\ x = Cat(a, Cat(WithLen(y, k), z))

LEMMA ItemBytes ==
    ASSUME NEW k \in Width, NEW pre, NEW post, NEW x, IsItem(x, pre, k, post)
    PROVE  x \in Str /\ Len(x) # 0
<1>1. PICK a \in Str, y \in Str, z \in Str :
         Len(a) = pre /\ Len(z) = post /\ y # <<>> /\ Fits(y, k) /\ x = Cat(a, Cat(WithLen(y, k), z))
  BY ZenonT(30) DEF IsItem
<1>2. PICK v \in Str : v = WithLen(y, k) /\ Len(v) = k + Len(y)
  BY ZenonT(30), <1>1, WithLens
<1>3. Cat(v, z) \in Str /\ Len(Cat(v, z)) = Len(v) + Len(z)
  BY Catenation
<1>4. Cat(a, Cat(v, z)) \in Str /\ Len(Cat(a, Cat(v, z))) = Len(a) + Len(Cat(v, z))
  BY <1>3, Catenation
<1>5. Len(a) \in Nat /\ Len(z) \in Nat /\ Len(y) \in Nat /\ k > 0 /\ k \in Nat /\ Len(<<>>) = 0
  <2>1. Len(a) \in Nat /\ Len(z) \in Nat /\ Len(y) \in Nat /\ Len(<<>>) = 0
    BY Catenation
  <2>2. k > 0 /\ k \in Nat
    BY SMTT(30) DEF Width
  <2> QED BY <2>1, <2>2
<1>6. PICK p \in Nat, q \in Nat, r \in Nat : p = Len(a) /\ q = Len(z) /\ r = Len(y)
  BY ZenonT(30), <1>5
<1>7. Len(x) = p + (k + r + q) /\ x \in Str
  BY ZenonT(30), <1>1, <1>2, <1>3, <1>4, <1>6
<1>8. p + (k + r + q) # 0
  BY SMTT(30), <1>5
<1> QED BY ZenonT(30), <1>7, <1>8

(* Such an item at the front is an Entry. *)
Starting(w, pre, k, post, n, l, r) ==
    n <= l /\ Entry(w, pre, k, post, n) /\ After(w, pre, k, post, n) = Len(r)
LEMMA ItemEntry ==
    ASSUME NEW w \in Str, NEW pre \in Nat, NEW k \in Width, NEW post \in Nat,
           NEW x, IsItem(x, pre, k, post), NEW r \in Str, NEW u \in Str,
           NEW t \in Str, t = Cat(x, r), w = Cat(u, t), NEW n \in Nat, n = Len(t), NEW l, l = Len(w)
    PROVE  Starting(w, pre, k, post, n, l, r)
<1>1. PICK a \in Str, y \in Str, z \in Str :
         Len(a) = pre /\ Len(z) = post /\ y # <<>> /\ Fits(y, k) /\ x = Cat(a, Cat(WithLen(y, k), z))
  BY ZenonT(30) DEF IsItem
<1>2. PICK v \in Str : v = WithLen(y, k)
  BY ZenonT(30), <1>1, WithLens
<1>3. PICK m \in Nat : m = Len(u) /\ Len(w) = m + n
  <2>1. Len(u) \in Nat /\ Len(Cat(u, t)) = Len(u) + Len(t)
    BY Catenation
  <2> QED BY ZenonT(30), <2>1
<1>4. n <= Len(w) /\ Len(w) - n = m
  BY SMTT(30), <1>3
<1>5. Skip(w, Len(w) - n) = t
  <2>0. m \in Nat /\ m = Len(u)
    BY <1>3
  <2>1. SubSeq(Cat(u, t), m + 1, Len(Cat(u, t))) = t
    BY ZenonT(30), <2>0, Cut
  <2> QED BY ZenonT(30), <1>4, <2>1 DEF Skip
<1>6. PICK e \in Str : e = Cat(z, r) /\ Len(e) = post + Len(r)
  <2>1. Cat(z, r) \in Str /\ Len(Cat(z, r)) = Len(z) + Len(r)
    BY Catenation
  <2> QED BY ZenonT(30), <1>1, <2>1
<1>7. PICK q \in Str : q = Cat(v, e) /\ t = Cat(a, q)
  <2>1. Cat(v, z) \in Str /\ Cat(v, Cat(z, r)) \in Str
    BY Catenation
  <2>2. Cat(Cat(v, z), r) = Cat(v, Cat(z, r))
    BY SMTT(30), Associative
  <2>3. Cat(Cat(a, Cat(v, z)), r) = Cat(a, Cat(Cat(v, z), r))
    BY SMTT(30), <2>1, Associative
  <2> QED BY ZenonT(30), <1>1, <1>2, <1>6, <2>1, <2>2, <2>3
<1>8. Skip(t, pre) = q /\ Has(t, pre)
  <2>1. SubSeq(Cat(a, q), pre + 1, Len(Cat(a, q))) = q
    BY <1>1, Cut
  <2>2. Len(Cat(a, q)) = Len(a) + Len(q) /\ Len(q) \in Nat
    BY Catenation
  <2>3. PICK i \in Nat : Len(t) = pre + i
    BY ZenonT(30), <1>1, <1>7, <2>2
  <2>4. pre + i >= pre
    BY SMTT(30)
  <2> QED BY ZenonT(30), <1>7, <2>1, <2>3, <2>4 DEF Skip, Has
<1>9. Reads(q, k, y, e)
  BY ZenonT(30), <1>1, <1>2, <1>7, ReadWhole
<1>10. PICK i \in Nat : i = Len(r) /\ Len(e) = post + i /\ post + i >= post /\ (post + i) - post = i
  <2>1. Len(r) \in Nat
    BY Catenation
  <2>2. \A i \in Nat : post + i >= post /\ (post + i) - post = i
    BY SMTT(30)
  <2> QED BY ZenonT(30), <1>6, <2>1, <2>2
<1>11. Entry(w, pre, k, post, n)
  BY ZenonT(30), <1>1, <1>5, <1>8, <1>9, <1>10 DEF Entry, Reads, Empty, Has
<1>12. After(w, pre, k, post, n) = Len(r)
  BY ZenonT(30), <1>5, <1>8, <1>9, <1>10 DEF After, Reads
<1> QED BY ZenonT(30), <1>4, <1>11, <1>12 DEF Starting

(* A list of items is accepted, however long it is. *)
LEMMA ListAccepted ==
    ASSUME NEW items, NEW c \in Nat, c = Len(items),
           NEW pre \in Nat, NEW k \in Width, NEW post \in Nat,
           \A i \in 1 .. c : IsItem(items[i], pre, k, post)
    PROVE  Joined(items) \in Str /\ IsList(Joined(items), pre, k, post)
<1>1. \A i \in 1 .. c : items[i] \in Str
  BY ZenonT(30), ItemBytes
<1>2. \A n \in 0 .. c : Last(items)[n] \in Str
  BY ZenonT(30), <1>1, LastBytes
<1>3. PICK w \in Str, l \in Nat : w = Joined(items) /\ l = Len(w) /\ w = Last(items)[c]
  <2>1. c \in 0 .. c
    BY SMTT(30)
  <2>2. PICK w \in Str : w = Joined(items) /\ w = Last(items)[c]
    BY ZenonT(30), <1>2, <2>1 DEF Joined
  <2>3. Len(w) \in Nat
    BY Catenation
  <2> QED BY ZenonT(30), <2>2, <2>3
<1>4. PICK f : Walks(w, pre, k, post, f, l) /\ (Says(f, l) => IsList(w, pre, k, post))
  <2>1. PICK g : Walks(w, pre, k, post, g, l)
    BY ZenonT(30), <1>3, WalkExists
  <2> QED BY ZenonT(30), <1>3, <2>1, IsListBy
<1>5. \A n \in 0 .. l : Says(f, n) <=> Listed(w, pre, k, post, f, n)
  BY ZenonT(30), <1>4, WalkBy
<1> DEFINE T == {n \in Nat : n <= c /\ ~ Says(f, Len(Last(items)[n]))}
<1>6. T = {}
  <2> SUFFICES ASSUME T # {} PROVE FALSE
    OBVIOUS
  <2>1. PICK n \in T : \A i \in T : n <= i
    <3>1. T \subseteq Nat
      BY ZenonT(30)
    <3> HIDE DEF T
    <3> QED BY ZenonT(30), <3>1, Least
  <2>2. n \in Nat /\ n <= c /\ ~ Says(f, Len(Last(items)[n]))
    BY ZenonT(30), <2>1
  <2>3. CASE n = 0
    <3>1. Len(Last(items)[0]) = 0
      BY ZenonT(30), Lasts, Catenation
    <3>2. 0 \in 0 .. l
      BY SMTT(30)
    <3>3. Listed(w, pre, k, post, f, 0)
      BY ZenonT(30), ListedBy
    <3> QED BY ZenonT(30), <1>5, <2>2, <2>3, <3>1, <3>2, <3>3
  <2>4. CASE n # 0
    <3>1. /\ n - 1 \in Nat /\ n - 1 <= c /\ ~(n <= n - 1) /\ n - 1 \in 0 .. c
          /\ n \in 1 .. c /\ n \in 0 .. c /\ c - n + 1 \in 1 .. c
      BY SMTT(30), <2>2, <2>4
    <3>2. PICK t \in Str, r \in Str : t = Last(items)[n] /\ r = Last(items)[n - 1]
      BY ZenonT(30), <1>2, <3>1
    <3>3. PICK x : x = items[c - n + 1] /\ IsItem(x, pre, k, post)
      BY ZenonT(30), <3>1
    <3>4. t = Cat(x, r)
      BY ZenonT(30), <3>1, <3>2, <3>3, Lasts DEF Cat
    <3>5. PICK u \in Str : w = Cat(u, t)
      BY ZenonT(30), <1>1, <1>3, <3>1, <3>2, ListEnds
    <3>6. PICK m \in Nat : m = Len(t)
      BY Catenation
    <3>7. Starting(w, pre, k, post, m, l, r)
      BY ZenonT(30), <1>3, <3>3, <3>4, <3>5, <3>6, ItemEntry
    <3>8. Says(f, Len(r))
      BY ZenonT(30), <2>1, <3>1, <3>2
    <3>9. Listed(w, pre, k, post, f, m)
      BY ZenonT(30), <3>7, <3>8, ListedBy DEF Starting
    <3>10. m \in 0 .. l
      <4>1. m <= l
        BY ZenonT(30), <3>7 DEF Starting
      <4> QED BY SMTT(30), <4>1
    <3> QED BY ZenonT(30), <1>5, <2>2, <3>2, <3>6, <3>9, <3>10
  <2> QED BY <2>3, <2>4
<1>7. Says(f, l)
  <2>1. c <= c
    BY SMTT(30)
  <2> QED BY ZenonT(30), <1>3, <1>6, <2>1
<1> QED BY ZenonT(30), <1>3, <1>4, <1>7

(* A list that is not empty, behind its length, in front of y. *)
HoldsList(d, pre, k, post, y) ==
    /\ HasPrefixed(d, 2) /\ ~ Empty(Prefixed(d, 2)) /\ Rest(d, 2) = y
    /\ IsList(Prefixed(d, 2), pre, k, post)
LEMMA ListBehindLen ==
    ASSUME NEW items, NEW c \in Nat, c = Len(items), c > 0, Fits(Joined(items), 2),
           NEW pre \in Nat, NEW k \in Width, NEW post \in Nat,
           \A i \in 1 .. c : IsItem(items[i], pre, k, post), NEW y \in Str
    PROVE  HoldsList(Cat(WithLen(Joined(items), 2), y), pre, k, post, y)
<1>1. PICK w \in Str : w = Joined(items) /\ IsList(w, pre, k, post)
  BY ZenonT(30), ListAccepted
<1>2. Reads(Cat(WithLen(w, 2), y), 2, w, y)
  BY ZenonT(30), <1>1, Widths, ReadWhole
<1>3. w # <<>>
  <2>1. 1 \in 1 .. c /\ c \in 1 .. c /\ c - c + 1 = 1 /\ c - 1 \in 0 .. c
    BY SMTT(30)
  <2>2. \A i \in 1 .. c : items[i] \in Str
    BY ZenonT(30), ItemBytes
  <2>3. PICK x \in Str : x = items[1] /\ Len(x) # 0
    <3>1. IsItem(items[1], pre, k, post)
      BY ZenonT(30), <2>1
    <3>2. items[1] \in Str /\ Len(items[1]) # 0
      BY ZenonT(30), <3>1, ItemBytes
    <3> QED BY ZenonT(30), <3>2
  <2>4. PICK r \in Str : r = Last(items)[c - 1]
    BY ZenonT(30), <2>1, <2>2, LastBytes
  <2>5. w = Cat(x, r)
    BY ZenonT(30), <1>1, <2>1, <2>3, <2>4, Lasts DEF Cat, Joined
  <2>6. Len(Cat(x, r)) = Len(x) + Len(r) /\ Len(x) \in Nat /\ Len(r) \in Nat /\ Len(<<>>) = 0
    BY Catenation
  <2>7. Len(x) + Len(r) # 0
    BY SMTT(30), <2>3, <2>6
  <2> QED BY ZenonT(30), <2>5, <2>6, <2>7
<1> QED BY ZenonT(30), <1>1, <1>2, <1>3 DEF Reads, HoldsList, Empty

(* What the switch of unmarshal asks of the extensions that are lists of   *)
(* parts.                                                                  *)
LEMMA ListCases ==
    ASSUME NEW d, NEW last
    PROVE  /\ ExtensionOk(extensionALPN, d, last)
                 <=> IsOnlyNonEmpty(d, 2) /\ IsList(Prefixed(d, 2), 0, 1, 0)
           /\ ExtensionOk(extensionKeyShare, d, last)
                 <=> IsOnly(d, 2) /\ IsList(Prefixed(d, 2), 2, 2, 0)
           /\ ExtensionOk(extensionPreSharedKey, d, last) <=> PreSharedKeyOk(d, last)
  BY SMTT(30)
  DEF ExtensionOk, Uint16Lists, Flags, extensionStatusRequest, extensionSupportedCurves,
      extensionSupportedPoints, extensionSignatureAlgorithms, extensionALPN, extensionSCT,
      extensionExtendedMasterSecret, extensionPreSharedKey, extensionEarlyData,
      extensionSupportedVersions, extensionCookie, extensionPSKModes,
      extensionSignatureAlgorithmsCert, extensionKeyShare, extensionRenegotiationInfo

(* Application protocols, key shares and pre-shared keys are lists.  Laid  *)
(* out as RFC 7301 and RFC 8446 prescribe, with any number of items of any *)
(* length, they are accepted by unmarshal: a client that offers many of    *)
(* them does not lose its server name (the loops over alpn, keyShares,     *)
(* pskIdentities and pskBinders).                                          *)
THEOREM ListExtensionsAccepted ==
    ASSUME NEW items, Len(items) \in Nat, Len(items) > 0, Fits(Joined(items), 2),
           NEW binders, Len(binders) \in Nat, Len(binders) > 0, Fits(Joined(binders), 2),
           \A i \in 1 .. Len(binders) : IsItem(binders[i], 0, 1, 0)
    PROVE  LET All(pre, k, post) == \A i \in 1 .. Len(items) : IsItem(items[i], pre, k, post)
               list == WithLen(Joined(items), 2)
           IN  /\ All(0, 1, 0) => \A last \in BOOLEAN : ExtensionOk(extensionALPN, list, last)
               /\ All(2, 2, 0) => \A last \in BOOLEAN : ExtensionOk(extensionKeyShare, list, last)
               /\ All(0, 2, 4) =>
                     ExtensionOk(extensionPreSharedKey, list \o WithLen(Joined(binders), 2), TRUE)
<1>1. PICK c \in Nat : c = Len(items) /\ c > 0
  OBVIOUS
<1>2. PICK b \in Nat : b = Len(binders) /\ b > 0
  OBVIOUS
<1>3. <<>> \in Str /\ \A x \in Str : Cat(x, <<>>) = x
  BY Catenation
<1>4. 0 \in Nat /\ 2 \in Nat /\ 4 \in Nat /\ 1 \in Width /\ 2 \in Width
  BY SMTT(30) DEF Width
<1>5. ASSUME NEW v, NEW n \in Nat, n = Len(v), n > 0, Fits(Joined(v), 2),
             NEW pre \in Nat, NEW k \in Width, NEW post \in Nat, \A i \in 1 .. n : IsItem(v[i], pre, k, post)
      PROVE  HoldsList(WithLen(Joined(v), 2), pre, k, post, <<>>) /\ WithLen(Joined(v), 2) \in Str
  <2>1. HoldsList(Cat(WithLen(Joined(v), 2), <<>>), pre, k, post, <<>>)
    BY ZenonT(30), <1>3, <1>5, ListBehindLen
  <2>2. Joined(v) \in Str
    BY ZenonT(30), <1>5, ListAccepted
  <2>3. WithLen(Joined(v), 2) \in Str
    BY ZenonT(30), <1>4, <1>5, <2>2, WithLens
  <2> QED BY ZenonT(30), <1>3, <2>1, <2>3
<1> DEFINE list == WithLen(Joined(items), 2)
           All(pre, k, post) == \A i \in 1 .. Len(items) : IsItem(items[i], pre, k, post)
<1>6. ASSUME NEW pre \in Nat, NEW k \in Width, NEW post \in Nat, All(pre, k, post)
      PROVE  HoldsList(list, pre, k, post, <<>>)
  BY ZenonT(30), <1>1, <1>5, <1>6
<1>7. ASSUME NEW last \in BOOLEAN, All(0, 1, 0) PROVE ExtensionOk(extensionALPN, list, last)
  <2>1. HoldsList(list, 0, 1, 0, <<>>)
    BY ZenonT(30), <1>4, <1>6, <1>7
  <2> HIDE DEF list
  <2> QED BY ZenonT(30), <2>1, ListCases DEF HoldsList, IsOnlyNonEmpty, IsOnly, Empty
<1>8. ASSUME NEW last \in BOOLEAN, All(2, 2, 0) PROVE ExtensionOk(extensionKeyShare, list, last)
  <2>1. HoldsList(list, 2, 2, 0, <<>>)
    BY ZenonT(30), <1>4, <1>6, <1>8
  <2> HIDE DEF list
  <2> QED BY ZenonT(30), <2>1, ListCases DEF HoldsList, IsOnly, Empty
<1>9. ASSUME All(0, 2, 4)
      PROVE  ExtensionOk(extensionPreSharedKey, list \o WithLen(Joined(binders), 2), TRUE)
  <2>1. PICK y \in Str : y = WithLen(Joined(binders), 2) /\ HoldsList(y, 0, 1, 0, <<>>)
    BY ZenonT(30), <1>2, <1>4, <1>5
  <2>2. HoldsList(Cat(list, y), 0, 2, 4, y)
    BY ZenonT(30), <1>1, <1>4, <1>9, ListBehindLen
  <2>3. PICK d : d = Cat(list, y)
    OBVIOUS
  <2> HIDE DEF list
  <2>4. PreSharedKeyOk(d, TRUE)
    BY ZenonT(30), <2>1, <2>2, <2>3 DEF PreSharedKeyOk, HoldsList, IsOnlyNonEmpty, IsOnly, Empty
  <2>5. ExtensionOk(extensionPreSharedKey, d, TRUE)
    BY ZenonT(30), <2>4, ListCases
  <2> QED BY ZenonT(30), <2>1, <2>3, <2>5 DEF Cat
<1> QED BY ZenonT(30), <1>7, <1>8, <1>9

=============================================================================
