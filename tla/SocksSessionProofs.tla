------------------------- MODULE SocksSessionProofs -------------------------
(***************************************************************************)
(* Proofs about a SOCKS5 connection, for any clients, accounts, local      *)
(* addresses and ClientHellos: the name that ClientHello reads out of the  *)
(* relayed bytes, over the handshake of Socks5Proofs.                      *)
(***************************************************************************)
EXTENDS ClientHelloProofs

(* Which provers a leaf is given to, and for how long. *)
USE ZenonT(3), SMTT(30), ZenonT(30)

-----------------------------------------------------------------------------
(* The name. *)

(* The name is right for the client c when the bytes b were parsed. *)
Right(c, b, name) ==
    /\ name \in {<<>>, c.host}
    /\ b = c.data /\ IsTls(c) /\ c.wellFormed => name = c.host

(* The extensions before the i-th: their ids, and whether server_name was  *)
(* among them; whether a host name was among the names before the j-th.    *)
SeenIds(h, i) == {h.exts[j].id : j \in 1 .. (i - 1)}
HadNames(h, i) == \E j \in 1 .. (i - 1) : h.exts[j].id = 0
HadHost(h, j) == \E l \in 1 .. (j - 1) : h.names[l].type = 0

(* unmarshal is about to read the i-th extension. *)
AtExt(c, h, i, e, seen, name) ==
    /\ e = ExtTail(h, i) /\ seen = SeenIds(h, i)
    /\ ~ HadNames(h, i) => name = <<>>
    /\ HadNames(h, i) => name \in {<<>>, c.host} /\ (c.wellFormed => name = c.host)

(* It is about to read the j-th name of the i-th extension, which is the   *)
(* first server_name.                                                      *)
AtName(c, h, i, j, e, ns, seen, name) ==
    /\ h.exts[i].id = 0
    /\ e = ExtTail(h, i + 1) /\ seen = SeenIds(h, i + 1)
    /\ ns = NameTail(h, j)
    /\ ~ HadHost(h, j) => name = <<>>
    /\ HadHost(h, j) => name = c.host /\ name # <<>>

(* What is known of the sniffer's variables at each of its steps. *)
SniffAt(c, st, b, q, e, ns, seen, name) ==
    /\ st = "idle" => name = <<>> /\ seen = {}
    /\ st # "idle" => \E m \in 0 .. Len(c.data) : b = Pre(c.data, m)
    /\ st = "fixed" => IsTls(c) /\ q = Skip(b, 5) /\ Len(b) >= 5 /\ name = <<>> /\ seen = {}
    /\ st \in {"extensions", "names"} => IsTls(c) /\ b = c.data
    /\ st = "extensions" => \E i \in 1 .. Len(c.hello.exts) + 1 : AtExt(c, c.hello, i, e, seen, name)
    /\ st = "names" => \E i \in 1 .. Len(c.hello.exts), j \in 1 .. Len(c.hello.names) + 1 :
                          AtName(c, c.hello, i, j, e, ns, seen, name)
    /\ st \in {"text", "done"} => Right(c, b, name)

(* One more extension, one more name. *)
LEMMA MoreIds ==
    ASSUME NEW h, NEW i \in Nat, i > 0
    PROVE  /\ SeenIds(h, i + 1) = SeenIds(h, i) \cup {h.exts[i].id}
           /\ HadNames(h, i + 1) <=> HadNames(h, i) \/ h.exts[i].id = 0
           /\ HadHost(h, i + 1) <=> HadHost(h, i) \/ h.names[i].type = 0
           /\ HadNames(h, i) <=> 0 \in SeenIds(h, i)
<1>1. \A j : j \in 1 .. (i + 1) - 1 <=> j \in 1 .. (i - 1) \/ j = i
  BY SMTT(30)
<1> QED BY ZenonT(30), <1>1 DEF SeenIds, HadNames, HadHost

LEMMA NoIds == \A h : SeenIds(h, 1) = {} /\ ~ HadNames(h, 1) /\ ~ HadHost(h, 1)
<1>1. \A j : j \notin 1 .. (1 - 1)
  BY SMTT(30)
<1> QED BY ZenonT(30), <1>1 DEF SeenIds, HadNames, HadHost

(* The first one of its kind. *)
LEMMA Firsts ==
    ASSUME NEW h, NEW l \in Nat, l = Len(h.exts), NEW k \in Nat, k = Len(h.names)
    PROVE  /\ \A i \in 1 .. l : h.exts[i].id = 0 /\ ~ HadNames(h, i) => IsFirst(Ids(h), i, 0)
           /\ \A i \in 1 .. k : h.names[i].type = 0 /\ ~ HadHost(h, i) => IsFirst(Types(h), i, 0)
<1>1. \A n \in Nat : \A i \in 1 .. n : \A j \in 1 .. (i - 1) : j \in 1 .. n
  BY SMTT(30)
<1>2. (\A i \in 1 .. l : Ids(h)[i] = h.exts[i].id) /\ (\A i \in 1 .. k : Types(h)[i] = h.names[i].type)
  BY ZenonT(30) DEF Ids, Types
<1> QED BY ZenonT(30), <1>1, <1>2 DEF IsFirst, HadNames, HadHost

(* The steps of unmarshal.  Behind the fixed fields. *)
LEMMA AfterFixed ==
    ASSUME NEW c \in Clients, c.kind = "socks", NEW b, NEW q, NEW e, NEW ns, NEW seen, NEW name,
           SniffAt(c, "fixed", b, q, e, ns, seen, name)
    PROVE  /\ FixedOk(q) => SniffAt(c, "extensions", b, q, Prefixed(ExtsOf(q), 2), ns, seen, name)
           /\ ~ FixedOk(q) => Right(c, b, name)
<1>1. PICK h : h = c.hello
  OBVIOUS
<1>2. IsTls(c) /\ q = Skip(b, 5) /\ Len(b) >= 5 /\ name = <<>> /\ seen = {}
  BY ZenonT(30) DEF SniffAt
<1>3. PICK m \in 0 .. Len(c.data) : b = Pre(c.data, m)
  BY ZenonT(30), "fixed" # "idle" DEF SniffAt
<1>4. Hello(c, h) /\ (c.wellFormed => WellFormed(c)) /\ c.data \in Str
  BY ZenonT(30), <1>1, <1>2, HelloFields, ClientFields
<1>5. ASSUME FixedOk(q) PROVE SniffAt(c, "extensions", b, q, Prefixed(ExtsOf(q), 2), ns, seen, name)
  <2>1. m >= 5 /\ Len(c.data) \in Nat
    <3>1. Len(c.data) \in Nat
      BY <1>4, Catenation
    <3>2. m \in Nat /\ m <= Len(c.data)
      BY SMTT(30), <3>1
    <3>3. Len(b) = m
      BY ZenonT(30), <1>3, <1>4, <3>2, Pres
    <3> QED BY ZenonT(30), <1>2, <3>1, <3>3
  <2>2. m = Len(c.data) /\ Prefixed(ExtsOf(Skip(Pre(c.data, m), 5)), 2) = Joined(ExtList(h))
    BY ZenonT(30), <1>2, <1>3, <1>4, <1>5, <2>1, HelloCut
  <2>3. b = c.data
    BY ZenonT(30), <1>3, <1>4, <2>2, PreAll
  <2>4. Len(h.exts) \in Nat /\ \A i \in 1 .. Len(h.exts) : Ext(h.exts[i])
    BY ZenonT(30), <1>4 DEF Hello
  <2>5. ExtTail(h, 1) = Joined(ExtList(h))
    BY ZenonT(30), <2>4, ExtTails
  <2>6. AtExt(c, h, 1, Prefixed(ExtsOf(q), 2), seen, name)
    BY ZenonT(30), <1>2, <1>3, <2>2, <2>5, NoIds DEF AtExt
  <2>7. 1 \in 1 .. Len(h.exts) + 1
    BY SMTT(30), <2>4
  <2>8. /\ "extensions" # "idle" /\ "extensions" # "fixed" /\ "extensions" # "names"
        /\ "extensions" \notin {"text", "done"}
    OBVIOUS
  <2> QED BY ZenonT(30), <1>1, <1>2, <1>3, <2>3, <2>6, <2>7, <2>8 DEF SniffAt
<1>6. ASSUME ~ FixedOk(q) PROVE Right(c, b, name)
  <2>1. ~(b = c.data /\ c.wellFormed)
    <3> SUFFICES ASSUME b = c.data, c.wellFormed PROVE FALSE
      OBVIOUS
    <3>1. Len(h.suites) % 2 = 0
      BY ZenonT(30), <1>1, <1>4 DEF WellFormed
    <3> QED BY ZenonT(30), <1>2, <1>4, <1>6, <3>1, HelloWhole
  <2> QED BY ZenonT(30), <1>2, <2>1 DEF Right
<1> QED BY <1>5, <1>6

(* A TLS client c with its hello h. *)
Client(c, h) == h = c.hello /\ Hello(c, h) /\ IsTls(c) /\ (c.wellFormed => WellFormed(c))

(* What a well-formed hello is. *)
LEMMA WellFormedHello ==
    ASSUME NEW c, NEW h, Client(c, h), c.wellFormed
    PROVE  /\ \A i, j \in 1 .. Len(h.exts) : h.exts[i].id = h.exts[j].id => i = j
           /\ \A i \in 1 .. Len(h.exts) :
                 h.exts[i].id # 0 => ExtensionOk(h.exts[i].id, h.exts[i].data, i = Len(h.exts))
           /\ (\A i \in 1 .. Len(h.exts) : h.exts[i].id # 0) => c.host = <<>>
           /\ (\E i \in 1 .. Len(h.exts) : h.exts[i].id = 0) =>
                 /\ \E i \in 1 .. Len(h.names) : h.names[i].type = 0
                 /\ \A i \in 1 .. Len(h.names) : h.names[i].name # <<>>
<1>1. h = c.hello /\ WellFormed(c)
  BY ZenonT(30) DEF Client
<1>2. /\ \A i, j \in 1 .. Len(h.exts) : h.exts[i].id = h.exts[j].id => i = j
      /\ \A i \in 1 .. Len(h.exts) :
            h.exts[i].id # 0 => ExtensionOk(h.exts[i].id, h.exts[i].data, i = Len(h.exts))
  BY ZenonT(30), <1>1 DEF WellFormed, extensionServerName
<1>3. IF \E i \in 1 .. Len(h.exts) : h.exts[i].id = 0
      THEN /\ \E i \in 1 .. Len(h.names) : h.names[i].type = 0
           /\ \A i \in 1 .. Len(h.names) : h.names[i].name # <<>>
      ELSE c.host = <<>>
  BY ZenonT(30), <1>1 DEF WellFormed, extensionServerName
<1> QED BY ZenonT(30), <1>2, <1>3

(* Behind the last extension. *)
LEMMA AfterExtensions ==
    ASSUME NEW c, NEW h, Client(c, h), NEW e, NEW seen, NEW name,
           AtExt(c, h, Len(h.exts) + 1, e, seen, name)
    PROVE  Empty(e) /\ Right(c, c.data, name)
<1>1. PICK l \in Nat : l = Len(h.exts) /\ \A i \in 1 .. l : Ext(h.exts[i])
  BY ZenonT(30) DEF Client, Hello
<1>2. ExtTail(h, l + 1) = <<>>
  BY ZenonT(30), <1>1, ExtTails
<1>3. Empty(e)
  BY ZenonT(30), <1>1, <1>2 DEF AtExt, Empty
<1>4. (l + 1) - 1 = l
  BY SMTT(30)
<1>5. CASE HadNames(h, l + 1)
  BY ZenonT(30), <1>1, <1>3, <1>5 DEF AtExt, Right
<1>6. CASE ~ HadNames(h, l + 1)
  <2>1. name = <<>>
    BY ZenonT(30), <1>1, <1>6 DEF AtExt
  <2>2. \A i \in 1 .. l : h.exts[i].id # 0
    BY ZenonT(30), <1>4, <1>6 DEF HadNames
  <2>3. c.wellFormed => c.host = <<>>
    BY ZenonT(30), <1>1, <2>2, WellFormedHello
  <2> QED BY ZenonT(30), <1>3, <2>1, <2>3 DEF Right
<1> QED BY <1>5, <1>6

(* The i-th extension. *)
LEMMA AtExtension ==
    ASSUME NEW c, NEW h, Client(c, h), NEW i \in 1 .. Len(h.exts), NEW e, NEW seen, NEW name,
           AtExt(c, h, i, e, seen, name)
    PROVE  /\ ReadsExt(e, h.exts[i], ExtTail(h, i + 1)) /\ Ext(h.exts[i])
           /\ Empty(ExtTail(h, i + 1)) <=> i = Len(h.exts)
           /\ i + 1 \in 1 .. Len(h.exts) + 1
<1>1. PICK l \in Nat : l = Len(h.exts) /\ \A j \in 1 .. l : Ext(h.exts[j])
  BY ZenonT(30) DEF Client, Hello
<1>2. /\ ExtTail(h, l + 1) = <<>>
      /\ \A j \in 1 .. l : ReadsExt(ExtTail(h, j), h.exts[j], ExtTail(h, j + 1))
  BY ZenonT(30), <1>1, ExtTails
<1>3. i \in 1 .. l
  BY ZenonT(30), <1>1
<1>4. i + 1 \in 1 .. l + 1 /\ (i # l => i + 1 \in 1 .. l)
  BY SMTT(30), <1>3
<1>5. Empty(ExtTail(h, i + 1)) <=> i = l
  BY ZenonT(30), <1>2, <1>4 DEF ReadsExt, Empty
<1>6. e = ExtTail(h, i)
  BY ZenonT(30) DEF AtExt
<1> QED BY ZenonT(30), <1>1, <1>2, <1>3, <1>4, <1>5, <1>6

(* The first server_name extension holds the client's list of names. *)
LEMMA FirstServerName ==
    ASSUME NEW c, NEW h, Client(c, h), NEW i \in 1 .. Len(h.exts), h.exts[i].id = 0,
           ~ HadNames(h, i)
    PROVE  Reads(h.exts[i].data, 2, NameTail(h, 1), h.extra)
<1>1. Hello(c, h)
  BY ZenonT(30) DEF Client
<1>2. PICK l \in Nat, k \in Nat :
         /\ l = Len(h.exts) /\ k = Len(h.names)
         /\ \A j \in 1 .. l : IsFirst(Ids(h), j, 0) => h.exts[j].data = ServerNames(h)
         /\ \A j \in 1 .. k : Host(h.names[j])
  BY ZenonT(30), <1>1 DEF Hello
<1>3. IsFirst(Ids(h), i, 0)
  BY ZenonT(30), <1>2, Firsts
<1>4. PICK x \in Str : x = NameTail(h, 1) /\ x = Joined(NameList(h))
  <2>1. 1 \in 1 .. k + 1
    BY SMTT(30)
  <2>2. (\A j \in 1 .. k + 1 : NameTail(h, j) \in Str) /\ NameTail(h, 1) = Joined(NameList(h))
    BY ZenonT(30), <1>2, NameTails
  <2> QED BY ZenonT(30), <2>1, <2>2
<1>5. h.exts[i].data = ServerNames(h)
  BY ZenonT(30), <1>2, <1>3
<1>6. h.exts[i].data = Cat(WithLen(x, 2), h.extra)
  BY ZenonT(30), <1>4, <1>5 DEF ServerNames, Cat
<1>7. Fits(x, 2) /\ h.extra \in Str
  BY ZenonT(30), <1>1, <1>4 DEF Hello
<1>8. Reads(h.exts[i].data, 2, x, h.extra)
  BY ZenonT(30), <1>6, <1>7, Widths, ReadWhole
<1> QED BY ZenonT(30), <1>4, <1>8

(* server_name goes on with its names. *)
LEMMA ToNames ==
    ASSUME NEW c, NEW h, Client(c, h), NEW i \in 1 .. Len(h.exts), NEW e, NEW seen, NEW name,
           AtExt(c, h, i, e, seen, name), h.exts[i].id \notin seen, h.exts[i].id = 0
    PROVE  AtName(c, h, i, 1, ExtTail(h, i + 1), Prefixed(h.exts[i].data, 2),
                  seen \cup {h.exts[i].id}, name)
<1>1. seen = SeenIds(h, i) /\ (~ HadNames(h, i) => name = <<>>)
  BY ZenonT(30) DEF AtExt
<1>2. i \in Nat /\ i > 0
  <2>1. PICK l \in Nat : l = Len(h.exts)
    BY ZenonT(30) DEF Client, Hello
  <2>2. i \in 1 .. l
    BY ZenonT(30), <2>1
  <2> QED BY SMTT(30), <2>2
<1>3. (HadNames(h, i) <=> 0 \in SeenIds(h, i)) /\ SeenIds(h, i + 1) = SeenIds(h, i) \cup {h.exts[i].id}
  BY ZenonT(30), <1>2, MoreIds
<1>4. ~ HadNames(h, i)
  BY ZenonT(30), <1>1, <1>3
<1>5. Reads(h.exts[i].data, 2, NameTail(h, 1), h.extra)
  BY ZenonT(30), <1>4, FirstServerName
<1>6. ~ HadHost(h, 1)
  BY ZenonT(30), NoIds
<1> QED BY ZenonT(30), <1>1, <1>3, <1>4, <1>5, <1>6 DEF AtName, Reads

(* Another extension is passed over. *)
LEMMA ToNext ==
    ASSUME NEW c, NEW h, Client(c, h), NEW i \in 1 .. Len(h.exts), NEW e, NEW seen, NEW name,
           AtExt(c, h, i, e, seen, name), h.exts[i].id # 0
    PROVE  AtExt(c, h, i + 1, ExtTail(h, i + 1), seen \cup {h.exts[i].id}, name)
<1>1. i \in Nat /\ i > 0
  <2>1. PICK l \in Nat : l = Len(h.exts)
    BY ZenonT(30) DEF Client, Hello
  <2>2. i \in 1 .. l
    BY ZenonT(30), <2>1
  <2> QED BY SMTT(30), <2>2
<1>2. /\ SeenIds(h, i + 1) = SeenIds(h, i) \cup {h.exts[i].id}
      /\ HadNames(h, i + 1) <=> HadNames(h, i) \/ h.exts[i].id = 0
  BY ZenonT(30), <1>1, MoreIds
<1> QED BY ZenonT(30), <1>2 DEF AtExt

(* unmarshal stops at an extension only if the hello is malformed. *)
LEMMA AtStop ==
    ASSUME NEW c, NEW h, Client(c, h), NEW i \in 1 .. Len(h.exts), NEW e, NEW seen, NEW name,
           AtExt(c, h, i, e, seen, name),
           \/ h.exts[i].id \in seen
           \/ h.exts[i].id = 0 /\ ~ HasNames(h.exts[i].data)
           \/ h.exts[i].id # 0 /\ ~ ExtensionOk(h.exts[i].id, h.exts[i].data, Empty(ExtTail(h, i + 1)))
    PROVE  Right(c, c.data, name)
<1>1. name \in {<<>>, c.host}
  BY ZenonT(30) DEF AtExt
<1>2. PICK l \in Nat : l = Len(h.exts) /\ i \in 1 .. l
  BY ZenonT(30) DEF Client, Hello
<1>3. ASSUME c.wellFormed PROVE FALSE
  <2>1. \A j, n \in 1 .. l : h.exts[j].id = h.exts[n].id => j = n
    BY ZenonT(30), <1>2, <1>3, WellFormedHello
  <2>2. h.exts[i].id \notin seen
    <3>1. \A j \in 1 .. (i - 1) : j \in 1 .. l /\ j # i
      BY SMTT(30), <1>2
    <3> QED BY ZenonT(30), <1>2, <2>1, <3>1 DEF AtExt, SeenIds
  <2>3. CASE h.exts[i].id = 0
    <3>1. i \in Nat /\ i > 0
      BY SMTT(30), <1>2
    <3>2. HadNames(h, i) <=> 0 \in SeenIds(h, i)
      BY ZenonT(30), <3>1, MoreIds
    <3>3. ~ HadNames(h, i)
      BY ZenonT(30), <2>2, <2>3, <3>2 DEF AtExt
    <3>4. Reads(h.exts[i].data, 2, NameTail(h, 1), h.extra)
      BY ZenonT(30), <2>3, <3>3, FirstServerName
    <3>5. NameTail(h, 1) = <<>>
      BY ZenonT(30), <2>2, <2>3, <3>4 DEF Reads, HasNames, Empty
    <3>6. PICK k \in Nat : k = Len(h.names) /\ \A j \in 1 .. k : Host(h.names[j])
      BY ZenonT(30) DEF Client, Hello
    <3>7. PICK j \in 1 .. k : h.names[j].type = 0
      BY ZenonT(30), <1>2, <1>3, <2>3, <3>6, WellFormedHello
    <3>8. 1 \in 1 .. k
      BY SMTT(30), <3>6, <3>7
    <3>9. ReadsName(NameTail(h, 1), h.names[1], NameTail(h, 1 + 1))
      BY ZenonT(30), <3>6, <3>8, NameTails
    <3> QED BY ZenonT(30), <3>5, <3>9 DEF ReadsName, Empty
  <2>4. CASE h.exts[i].id # 0
    <3>1. ExtensionOk(h.exts[i].id, h.exts[i].data, i = Len(h.exts))
      BY ZenonT(30), <1>3, <2>4, WellFormedHello
    <3>2. Empty(ExtTail(h, i + 1)) <=> i = Len(h.exts)
      BY ZenonT(30), AtExtension
    <3>3. Empty(ExtTail(h, i + 1)) = (i = Len(h.exts))
      BY ZenonT(30), <3>2 DEF Empty
    <3> QED BY ZenonT(30), <2>2, <2>4, <3>1, <3>3
  <2> QED BY <2>3, <2>4
<1> QED BY ZenonT(30), <1>1, <1>3 DEF Right

(* At a server name: it is the client's host or nothing; a well-formed     *)
(* hello has a host name.                                                  *)
LEMMA NameSoFar ==
    ASSUME NEW c, NEW h, Client(c, h), NEW i \in 1 .. Len(h.exts), NEW j, NEW e, NEW ns, NEW seen, NEW name,
           AtName(c, h, i, j, e, ns, seen, name)
    PROVE  /\ name \in {<<>>, c.host}
           /\ c.wellFormed => /\ \E n \in 1 .. Len(h.names) : h.names[n].type = 0
                              /\ \A n \in 1 .. Len(h.names) : h.names[n].name # <<>>
<1>1. name \in {<<>>, c.host} /\ h.exts[i].id = 0
  BY ZenonT(30) DEF AtName
<1> QED BY ZenonT(30), <1>1, WellFormedHello

(* Behind the last name. *)
LEMMA AfterNames ==
    ASSUME NEW c, NEW h, Client(c, h), NEW i \in 1 .. Len(h.exts), NEW e, NEW ns, NEW seen, NEW name,
           AtName(c, h, i, Len(h.names) + 1, e, ns, seen, name)
    PROVE  Empty(ns) /\ AtExt(c, h, i + 1, e, seen, name) /\ Right(c, c.data, name)
<1>1. PICK l \in Nat, k \in Nat :
         l = Len(h.exts) /\ k = Len(h.names) /\ \A j \in 1 .. k : Host(h.names[j])
  BY ZenonT(30) DEF Client, Hello
<1>2. NameTail(h, k + 1) = <<>>
  BY ZenonT(30), <1>1, NameTails
<1>3. Empty(ns)
  BY ZenonT(30), <1>1, <1>2 DEF AtName, Empty
<1>4. name \in {<<>>, c.host} /\ (c.wellFormed => \E n \in 1 .. k : h.names[n].type = 0)
  BY ZenonT(30), <1>1, NameSoFar
<1>5. c.wellFormed => name = c.host
  <2>1. (k + 1) - 1 = k
    BY SMTT(30)
  <2>2. c.wellFormed => HadHost(h, k + 1)
    BY ZenonT(30), <1>4, <2>1 DEF HadHost
  <2> QED BY ZenonT(30), <1>1, <2>2 DEF AtName
<1>6. HadNames(h, i + 1)
  <2>1. i \in 1 .. l
    BY ZenonT(30), <1>1
  <2>2. i \in Nat /\ i > 0
    BY SMTT(30), <2>1
  <2>3. HadNames(h, i + 1) <=> HadNames(h, i) \/ h.exts[i].id = 0
    BY ZenonT(30), <2>2, MoreIds
  <2> QED BY ZenonT(30), <2>3 DEF AtName
<1>7. AtExt(c, h, i + 1, e, seen, name)
  BY ZenonT(30), <1>4, <1>5, <1>6 DEF AtName, AtExt
<1> QED BY ZenonT(30), <1>3, <1>4, <1>5, <1>7 DEF Right

(* The j-th name. *)
LEMMA AtServerName ==
    ASSUME NEW c, NEW h, Client(c, h), NEW i, NEW j \in 1 .. Len(h.names), NEW e, NEW ns, NEW seen, NEW name,
           AtName(c, h, i, j, e, ns, seen, name)
    PROVE  /\ ReadsName(ns, h.names[j], NameTail(h, j + 1)) /\ j + 1 \in 1 .. Len(h.names) + 1
           /\ j \in Nat /\ j > 0
<1>1. PICK k \in Nat : k = Len(h.names) /\ \A n \in 1 .. k : Host(h.names[n])
  BY ZenonT(30) DEF Client, Hello
<1>2. j \in 1 .. k
  BY ZenonT(30), <1>1
<1>3. j \in Nat /\ j > 0 /\ j + 1 \in 1 .. k + 1
  BY SMTT(30), <1>2
<1>4. ReadsName(NameTail(h, j), h.names[j], NameTail(h, j + 1))
  BY ZenonT(30), <1>1, <1>2, NameTails
<1> QED BY ZenonT(30), <1>1, <1>3, <1>4 DEF AtName

(* unmarshal stops at a name only if it has the host, or if the hello is   *)
(* malformed.                                                              *)
LEMMA AtNameStop ==
    ASSUME NEW c, NEW h, Client(c, h), NEW i \in 1 .. Len(h.exts), NEW j \in 1 .. Len(h.names),
           NEW e, NEW ns, NEW seen, NEW name, AtName(c, h, i, j, e, ns, seen, name),
           ~ HasName(ns) \/ name # <<>>
    PROVE  Right(c, c.data, name)
<1>1. /\ name \in {<<>>, c.host}
      /\ c.wellFormed => \A n \in 1 .. Len(h.names) : h.names[n].name # <<>>
  BY ZenonT(30), NameSoFar
<1>2. ReadsName(ns, h.names[j], NameTail(h, j + 1))
  BY ZenonT(30), AtServerName
<1>3. ~ HasName(ns) => ~ c.wellFormed
  BY ZenonT(30), <1>1, <1>2 DEF ReadsName, Reads, HasName, Empty
<1> QED BY ZenonT(30), <1>1, <1>3 DEF Right

(* The first host name is the client's host. *)
LEMMA NameStored ==
    ASSUME NEW c, NEW h, Client(c, h), NEW i \in 1 .. Len(h.exts), NEW j \in 1 .. Len(h.names),
           NEW e, NEW ns, NEW seen, NEW name, AtName(c, h, i, j, e, ns, seen, name),
           HasName(ns), Number(ns, 1) = 0, name = <<>>
    PROVE  /\ Right(c, c.data, Prefixed(Skip(ns, 1), 2))
           /\ AtName(c, h, i, j + 1, e, Rest(Skip(ns, 1), 2), seen, Prefixed(Skip(ns, 1), 2))
<1>1. ReadsName(ns, h.names[j], NameTail(h, j + 1)) /\ j \in Nat /\ j > 0
  BY ZenonT(30), AtServerName
<1>2. PICK x : x = h.names[j].name
  OBVIOUS
<1>3. x # <<>> /\ h.names[j].type = 0 /\ Prefixed(Skip(ns, 1), 2) = x /\ Rest(Skip(ns, 1), 2) = NameTail(h, j + 1)
  BY ZenonT(30), <1>1, <1>2 DEF ReadsName, Reads, HasName, Empty
<1>4. ~ HadHost(h, j)
  BY ZenonT(30) DEF AtName
<1>5. x = c.host
  <2>1. PICK l \in Nat, k \in Nat :
           /\ l = Len(h.exts) /\ k = Len(h.names)
           /\ \A n \in 1 .. k : IsFirst(Types(h), n, 0) => c.host = h.names[n].name
    BY ZenonT(30) DEF Client, Hello
  <2>2. IsFirst(Types(h), j, 0)
    BY ZenonT(30), <1>3, <1>4, <2>1, Firsts
  <2> QED BY ZenonT(30), <1>2, <2>1, <2>2
<1>6. HadHost(h, j + 1)
  BY ZenonT(30), <1>1, <1>3, MoreIds
<1> QED BY ZenonT(30), <1>3, <1>5, <1>6 DEF AtName, Right

(* A name of another type is passed over. *)
LEMMA NamePassed ==
    ASSUME NEW c, NEW h, Client(c, h), NEW i \in 1 .. Len(h.exts), NEW j \in 1 .. Len(h.names),
           NEW e, NEW ns, NEW seen, NEW name, AtName(c, h, i, j, e, ns, seen, name), Number(ns, 1) # 0
    PROVE  AtName(c, h, i, j + 1, e, Rest(Skip(ns, 1), 2), seen, name)
<1>1. ReadsName(ns, h.names[j], NameTail(h, j + 1)) /\ j \in Nat /\ j > 0
  BY ZenonT(30), AtServerName
<1>2. h.names[j].type # 0 /\ Rest(Skip(ns, 1), 2) = NameTail(h, j + 1)
  BY ZenonT(30), <1>1 DEF ReadsName, Reads
<1>3. HadHost(h, j + 1) <=> HadHost(h, j) \/ h.names[j].type = 0
  BY ZenonT(30), <1>1, MoreIds
<1> QED BY ZenonT(30), <1>2, <1>3 DEF AtName

-----------------------------------------------------------------------------
(* The connection. *)

(* Where in the client's hello the sniffer stands, once there is one.      *)
SniffInv ==
    /\ step # "idle" => stage = "relay"
    /\ SniffAt(client, step, buf, s, extensions, names, seenExts, ServerName)

(* What the client has sent behind its request when the target answers. *)
LEMMA SentUpto ==
    ASSUME NEW q \in Str, NEW x \in Str, NEW r \in Nat, NEW t \in Nat, t <= Len(q),
           Len(q) = r + Len(x), \A i \in 1 .. Len(x) : q[r + i] = x[i]
    PROVE  \E m \in 0 .. Len(x) : SubSeq(q, r + 1, t) = Pre(x, m)
<1>1. PICK l \in Nat : l = Len(x) /\ Len(q) = r + l /\ t <= r + l /\ \A i \in 1 .. l : q[r + i] = x[i]
  <2>1. Len(x) \in Nat
    BY Catenation
  <2> QED BY ZenonT(30), <2>1
<1>2. CASE t < r
  <2>1. SubSeq(q, r + 1, t) = <<>>
    <3>1. r + 1 \in Int /\ t \in Int /\ t < r + 1
      BY SMTT(30), <1>2
    <3> QED BY <3>1, SubSeqEmpty
  <2>2. SubSeq(x, 1, 0) = <<>>
    <3>1. 1 \in Int /\ 0 \in Int /\ 0 < 1
      BY SMTT(30)
    <3> QED BY <3>1, SubSeqEmpty
  <2>3. 0 \in 0 .. l
    BY SMTT(30)
  <2> QED BY ZenonT(30), <1>1, <2>1, <2>2, <2>3 DEF Pre
<1>3. CASE ~(t < r)
  <2>1. t - r \in Nat /\ t = r + (t - r) /\ t - r <= l /\ t - r \in 0 .. l /\ r + (t - r) <= r + l
    BY SMTT(30), <1>1, <1>3
  <2>2. PICK m \in Nat : t = r + m /\ m <= l /\ m \in 0 .. l /\ r + m <= Len(q)
    BY ZenonT(30), <1>1, <2>1
  <2>3. PICK w \in Str : w = SubSeq(q, r + 1, r + m) /\ Len(w) = m /\ \A i \in 1 .. m : w[i] = q[r + i]
    <3>1. /\ SubSeq(q, r + 1, r + m) \in Str /\ Len(SubSeq(q, r + 1, r + m)) = m
          /\ \A i \in 1 .. m : SubSeq(q, r + 1, r + m)[i] = q[r + i]
      BY ZenonT(30), <2>2, Slices
    <3> QED BY ZenonT(30), <3>1
  <2>4. PICK v \in Str : v = Pre(x, m) /\ Len(v) = m /\ \A i \in 1 .. m : v[i] = x[i]
    BY ZenonT(30), <1>1, <2>2, Pres
  <2>5. \A i \in 1 .. m : i \in 1 .. l
    BY SMTT(30), <2>2
  <2>6. \A i \in 1 .. m : w[i] = v[i]
    BY ZenonT(30), <1>1, <2>3, <2>4, <2>5
  <2>7. w = v
    BY ZenonT(30), <2>3, <2>4, <2>6, Same
  <2> QED BY ZenonT(30), <1>1, <2>2, <2>3, <2>4, <2>7
<1> QED BY <1>2, <1>3

(* A relayed client is in step with the handler. *)
LEMMA Relayed ==
    ASSUME HInv, CutInv, stage = "relay"
    PROVE  /\ client \in Clients /\ client.kind = "socks"
           /\ read \in Nat /\ Left(client, read, client.data)
           /\ sent \in Nat /\ sent <= Len(Stream[client])
<1>1. whole
  BY ZenonT(30) DEF CutInv, OutOfStep, Astray
<1>2. client \in Clients /\ client.kind = "socks" /\ InStep(client)
  BY <1>1, SocksAssumption DEF HInv, Silent
<1>3. PICK c \in Clients : c = client
  BY <1>2
<1>4. Left(c, read, c.data) /\ read \in Nat
  BY SMTT(30), <1>2, <1>3 DEF InStep, At
<1> QED BY ZenonT(30), <1>2, <1>3, <1>4 DEF CutInv

LEMMA SniffInit == Init => SniffInv
<1> SUFFICES ASSUME Init PROVE SniffInv
  OBVIOUS
<1>1. step = "idle" /\ ServerName = <<>> /\ seenExts = {}
  BY ZenonT(30) DEF Init, InitHello
<1>2. /\ "idle" # "fixed" /\ "idle" # "extensions" /\ "idle" # "names"
      /\ "idle" \notin {"text", "done"} /\ "idle" \notin {"extensions", "names"}
  OBVIOUS
<1> QED BY ZenonT(30), <1>1, <1>2 DEF SniffInv, SniffAt

LEMMA SniffHandshake ==
    ASSUME SniffInv, Handshake
    PROVE  SniffInv'
<1>1. step' = "idle" /\ ServerName' = <<>> /\ seenExts' = {}
  BY ZenonT(30) DEF SniffInv, SniffAt, Handshake, helloVars
<1>2. /\ "idle" # "fixed" /\ "idle" # "extensions" /\ "idle" # "names"
      /\ "idle" \notin {"text", "done"} /\ "idle" \notin {"extensions", "names"}
  OBVIOUS
<1> QED BY ZenonT(30), <1>1, <1>2 DEF SniffInv, SniffAt

(* The sniffer starts (the parsing goroutine). *)
LEMMA SniffAnswer ==
    ASSUME SniffInv, HInv, CutInv, Answer
    PROVE  SniffInv'
<1>1. step = "idle" /\ stage = "relay" /\ ServerName = <<>> /\ seenExts = {}
  BY ZenonT(30) DEF SniffInv, SniffAt, Answer, Receive
<1>2. PICK c \in Clients : c = client /\ c.kind = "socks"
  BY ZenonT(30), <1>1, Relayed
<1>3. c.data \in Str /\ Stream[c] \in Str
  BY ZenonT(30), <1>2, ClientFields, Streams
<1>4. PICK b : b = SubSeq(Stream[c], read + 1, sent)
  OBVIOUS
<1>5. PICK m \in 0 .. Len(c.data) : b = Pre(c.data, m)
  <2>1. read \in Nat /\ Left(c, read, c.data) /\ sent \in Nat /\ sent <= Len(Stream[c])
    BY ZenonT(30), <1>1, <1>2, Relayed
  <2>2. Len(Stream[c]) = read + Len(c.data) /\ \A i \in 1 .. Len(c.data) : Stream[c][read + i] = c.data[i]
    BY ZenonT(30), <2>1 DEF Left
  <2> QED BY ZenonT(30), <1>3, <1>4, <2>1, <2>2, SentUpto
<1>6. /\ client' = c /\ stage' = "relay" /\ buf' = b /\ s' = Skip(b, 5)
      /\ ServerName' = <<>> /\ seenExts' = {}
      /\ step' = IF b = <<>> THEN "done"
                 ELSE IF b[1] # 22 THEN "text"
                 ELSE IF Len(b) < 5 THEN "panic" ELSE "fixed"
  BY ZenonT(30), <1>1, <1>2, <1>4 DEF Answer, Receive, vars5
<1>7. b # <<>> => c.data # <<>> /\ b[1] = c.data[1]
  <2> SUFFICES ASSUME b # <<>> PROVE c.data # <<>> /\ b[1] = c.data[1]
    OBVIOUS
  <2>1. PICK l \in Nat : l = Len(c.data)
    BY <1>3, Catenation
  <2>2. m \in 0 .. l
    BY ZenonT(30), <2>1
  <2>3. m \in Nat /\ m <= l
    BY SMTT(30), <2>2
  <2>4. b \in Str /\ Len(b) = m /\ \A i \in 1 .. m : b[i] = c.data[i]
    BY ZenonT(30), <1>3, <1>5, <2>1, <2>3, Pres
  <2>5. m # 0
    BY <2>4, EmptySeq DEF Str
  <2>6. 1 \in 1 .. m /\ l # 0
    BY SMTT(30), <2>3, <2>5
  <2>7. Len(<<>>) = 0
    BY Catenation
  <2> QED BY ZenonT(30), <2>1, <2>4, <2>6, <2>7
<1>8. b = <<>> \/ b[1] # 22 => Right(c, b, <<>>)
  BY ZenonT(30), <1>7 DEF Right, IsTls
<1>9. ASSUME b # <<>>, ~(b[1] # 22) PROVE IsTls(c)
  BY ZenonT(30), <1>7, <1>9 DEF IsTls
<1>10. SniffAt(c, step', b, Skip(b, 5), extensions', names', {}, <<>>)
  <2>1. CASE b = <<>> \/ b[1] # 22
    <3>1. step' \in {"done", "text"}
      BY ZenonT(30), <1>6, <2>1
    <3>2. /\ step' \notin {"idle", "fixed", "extensions", "names"}
      BY SMTT(30), <3>1
    <3> QED BY ZenonT(30), <1>5, <1>8, <2>1, <3>2 DEF SniffAt
  <2>2. CASE b # <<>> /\ ~(b[1] # 22) /\ Len(b) < 5
    <3>1. step' = "panic"
      BY ZenonT(30), <1>6, <2>2
    <3>2. step' \notin {"idle", "fixed", "extensions", "names", "text", "done"}
      BY SMTT(30), <3>1
    <3> QED BY ZenonT(30), <1>5, <3>2 DEF SniffAt
  <2>3. CASE b # <<>> /\ ~(b[1] # 22) /\ ~(Len(b) < 5)
    <3>1. step' = "fixed"
      BY ZenonT(30), <1>6, <2>3
    <3>2. step' \notin {"idle", "extensions", "names", "text", "done"}
      BY SMTT(30), <3>1
    <3>3. Len(b) >= 5
      <4>1. Len(c.data) \in Nat
        BY <1>3, Catenation
      <4>2. m \in Nat /\ m <= Len(c.data)
        BY SMTT(30), <4>1
      <4>3. Len(b) = m
        BY ZenonT(30), <1>3, <1>5, <4>2, Pres
      <4>4. ~(m < 5)
        BY ZenonT(30), <2>3, <4>3
      <4>5. m >= 5
        BY SMTT(30), <4>2, <4>4
      <4> QED BY ZenonT(30), <4>3, <4>5
    <3>4. IsTls(c)
      BY ZenonT(30), <1>9, <2>3
    <3> QED BY ZenonT(30), <1>5, <3>1, <3>2, <3>3, <3>4 DEF SniffAt
  <2> QED BY ZenonT(30), <2>1, <2>2, <2>3
<1> QED BY ZenonT(30), <1>6, <1>10 DEF SniffInv

(* The sniffer is done, or about to read plain text, with a right name. *)
Ended(st) == st \in {"text", "done"}
LEMMA Settled ==
    ASSUME NEW c, NEW st, NEW b, NEW q, NEW e, NEW ns, NEW seen, NEW name,
           Ended(st), NEW m \in 0 .. Len(c.data), b = Pre(c.data, m), Right(c, b, name)
    PROVE  SniffAt(c, st, b, q, e, ns, seen, name)
<1>1. st \notin {"idle", "fixed", "extensions", "names"}
  BY SMTT(30) DEF Ended
<1> QED BY ZenonT(30), <1>1 DEF SniffAt

LEMMA SniffFixed ==
    ASSUME NEW c \in Clients, c.kind = "socks", client = c, SniffInv, Fixed, UNCHANGED vars5
    PROVE  SniffInv'
<1>1. step = "fixed" /\ stage = "relay" /\ SniffAt(c, "fixed", buf, s, extensions, names, seenExts, ServerName)
  BY ZenonT(30), "fixed" # "idle" DEF SniffInv, Fixed
<1>2. /\ client' = c /\ stage' = "relay"
      /\ buf' = buf /\ s' = s /\ names' = names /\ seenExts' = seenExts /\ ServerName' = ServerName
  BY ZenonT(30), <1>1 DEF Fixed, vars5
<1>3. IF FixedOk(s) THEN step' = "extensions" /\ extensions' = Prefixed(ExtsOf(s), 2)
                    ELSE Ended(step')
  BY ZenonT(30) DEF Fixed, FixedOk, ExtsOf, CompOf, SuitesOf, SidOf, Unmarshalled, Ended
<1>4. /\ FixedOk(s) => SniffAt(c, "extensions", buf, s, Prefixed(ExtsOf(s), 2), names, seenExts, ServerName)
      /\ ~ FixedOk(s) => Right(c, buf, ServerName)
  BY ZenonT(30), <1>1, AfterFixed
<1>5. PICK m \in 0 .. Len(c.data) : buf = Pre(c.data, m)
  BY ZenonT(30), <1>1, "fixed" # "idle" DEF SniffAt
<1>6. SniffAt(c, step', buf, s, extensions', names, seenExts, ServerName)
  <2>1. CASE FixedOk(s)
    BY ZenonT(30), <1>3, <1>4, <2>1
  <2>2. CASE ~ FixedOk(s)
    BY ZenonT(30), <1>3, <1>4, <1>5, <2>2, Settled
  <2> QED BY <2>1, <2>2
<1> QED BY ZenonT(30), <1>2, <1>6 DEF SniffInv

(* The loop over the extensions. *)
LEMMA SniffExtension ==
    ASSUME NEW c \in Clients, c.kind = "socks", client = c, SniffInv, Extension, UNCHANGED vars5
    PROVE  SniffInv'
<1>1. /\ step = "extensions" /\ stage = "relay"
      /\ SniffAt(c, "extensions", buf, s, extensions, names, seenExts, ServerName)
  BY ZenonT(30), "extensions" # "idle" DEF SniffInv, Extension
<1>2. /\ client' = c /\ stage' = "relay"
      /\ buf' = buf /\ s' = s /\ ServerName' = ServerName
  BY ZenonT(30), <1>1 DEF Extension, vars5
<1>3. PICK h : h = c.hello
  OBVIOUS
<1>4. /\ IsTls(c) /\ buf = c.data
      /\ \E j \in 1 .. Len(h.exts) + 1 : AtExt(c, h, j, extensions, seenExts, ServerName)
  BY ZenonT(30), <1>1, <1>3 DEF SniffAt
<1>5. Client(c, h)
  BY ZenonT(30), <1>3, <1>4, HelloFields DEF Client
<1>6. PICK m \in 0 .. Len(c.data) : buf = Pre(c.data, m)
  BY ZenonT(30), <1>1, "extensions" # "idle" DEF SniffAt
<1>7. PICK i \in 1 .. Len(h.exts) + 1 : AtExt(c, h, i, extensions, seenExts, ServerName)
  BY ZenonT(30), <1>4
<1>8. SniffAt(c, step', buf, s, extensions', names', seenExts', ServerName)
  <2>1. CASE i = Len(h.exts) + 1
    <3>1. Empty(extensions) /\ Right(c, c.data, ServerName)
      BY ZenonT(30), <1>5, <1>7, <2>1, AfterExtensions
    <3>2. Ended(step')
      BY ZenonT(30), <3>1 DEF Extension, Unmarshalled, Ended
    <3> QED BY ZenonT(30), <1>4, <1>6, <3>1, <3>2, Settled
  <2>2. CASE i # Len(h.exts) + 1
    <3>1. i \in 1 .. Len(h.exts)
      <4>1. PICK l \in Nat : l = Len(h.exts)
        BY ZenonT(30), <1>5 DEF Client, Hello
      <4>2. i \in 1 .. l + 1 /\ i # l + 1
        BY ZenonT(30), <2>2, <4>1
      <4>3. i \in 1 .. l
        BY SMTT(30), <4>2
      <4> QED BY ZenonT(30), <4>1, <4>3
    <3>2. PICK x, y : x = h.exts[i] /\ y = ExtTail(h, i + 1)
      OBVIOUS
    <3>3. ReadsExt(extensions, x, y) /\ i + 1 \in 1 .. Len(h.exts) + 1
      BY ZenonT(30), <1>5, <1>7, <3>1, <3>2, AtExtension
    <3>4. /\ ~ Empty(extensions) /\ Has(extensions, 2) /\ HasPrefixed(Skip(extensions, 2), 2)
          /\ Number(extensions, 2) = x.id /\ Prefixed(Skip(extensions, 2), 2) = x.data
          /\ Rest(Skip(extensions, 2), 2) = y
      BY ZenonT(30), <3>3 DEF ReadsExt, Reads
    <3>5. /\ extensions' = y /\ seenExts' = seenExts \cup {x.id}
          /\ \/ /\ x.id \notin seenExts /\ x.id = 0
                /\ names' = Prefixed(x.data, 2) /\ step' = "names"
             \/ /\ x.id # 0 /\ step' = step /\ names' = names
             \/ /\ \/ x.id \in seenExts
                   \/ x.id = 0 /\ ~ HasNames(x.data)
                   \/ x.id # 0 /\ ~ ExtensionOk(x.id, x.data, Empty(y))
                /\ Ended(step')
      BY ZenonT(30), <3>4 DEF Extension, Unmarshalled, Ended, extensionServerName
    <3>6. CASE /\ x.id \notin seenExts /\ x.id = 0
               /\ names' = Prefixed(x.data, 2) /\ step' = "names"
      <4>1. AtName(c, h, i, 1, y, names', seenExts', ServerName)
        BY ZenonT(30), <1>5, <1>7, <3>1, <3>2, <3>5, <3>6, ToNames
      <4>2. 1 \in 1 .. Len(h.names) + 1
        <5>1. Len(h.names) \in Nat
          BY ZenonT(30), <1>5 DEF Client, Hello
        <5> QED BY SMTT(30), <5>1
      <4>3. step' \notin {"idle", "fixed", "extensions", "text", "done"}
        BY SMTT(30), <3>6
      <4> QED BY ZenonT(30), <1>3, <1>4, <1>6, <3>1, <3>5, <4>1, <4>2, <4>3 DEF SniffAt
    <3>7. CASE x.id # 0 /\ step' = step /\ names' = names
      <4>1. AtExt(c, h, i + 1, y, seenExts', ServerName)
        BY ZenonT(30), <1>5, <1>7, <3>1, <3>2, <3>5, <3>7, ToNext
      <4>2. step' \notin {"idle", "fixed", "names", "text", "done"}
        BY SMTT(30), <1>1, <3>7
      <4> QED BY ZenonT(30), <1>3, <1>4, <1>6, <3>3, <3>5, <4>1, <4>2 DEF SniffAt
    <3>8. CASE /\ \/ x.id \in seenExts
                  \/ x.id = 0 /\ ~ HasNames(x.data)
                  \/ x.id # 0 /\ ~ ExtensionOk(x.id, x.data, Empty(y))
               /\ Ended(step')
      <4>1. Right(c, c.data, ServerName)
        BY ZenonT(30), <1>5, <1>7, <3>1, <3>2, <3>8, AtStop
      <4> QED BY ZenonT(30), <1>4, <1>6, <3>8, <4>1, Settled
    <3> QED BY ZenonT(30), <3>5, <3>6, <3>7, <3>8
  <2> QED BY <2>1, <2>2
<1> QED BY ZenonT(30), <1>2, <1>8 DEF SniffInv

(* The loop over the server names. *)
LEMMA SniffName ==
    ASSUME NEW c \in Clients, c.kind = "socks", client = c, SniffInv, Name, UNCHANGED vars5
    PROVE  SniffInv'
<1>1. /\ step = "names" /\ stage = "relay"
      /\ SniffAt(c, "names", buf, s, extensions, names, seenExts, ServerName)
  BY ZenonT(30), "names" # "idle" DEF SniffInv, Name
<1>2. /\ client' = c /\ stage' = "relay"
      /\ buf' = buf /\ s' = s /\ extensions' = extensions /\ seenExts' = seenExts
  BY ZenonT(30), <1>1 DEF Name, vars5
<1>3. PICK h : h = c.hello
  OBVIOUS
<1>4. /\ IsTls(c) /\ buf = c.data
      /\ \E n \in 1 .. Len(h.exts), k \in 1 .. Len(h.names) + 1 :
            AtName(c, h, n, k, extensions, names, seenExts, ServerName)
  BY ZenonT(30), <1>1, <1>3 DEF SniffAt
<1>5. Client(c, h)
  BY ZenonT(30), <1>3, <1>4, HelloFields DEF Client
<1>6. PICK m \in 0 .. Len(c.data) : buf = Pre(c.data, m)
  BY ZenonT(30), <1>1, "names" # "idle" DEF SniffAt
<1>7. PICK i \in 1 .. Len(h.exts), j \in 1 .. Len(h.names) + 1 :
         AtName(c, h, i, j, extensions, names, seenExts, ServerName)
  BY ZenonT(30), <1>4
<1>8. ASSUME NEW name, Ended(step'), ServerName' = name, Right(c, c.data, name)
      PROVE  SniffAt(c, step', buf, s, extensions, names', seenExts, ServerName')
  BY ZenonT(30), <1>4, <1>6, <1>8, Settled
<1>9. SniffAt(c, step', buf, s, extensions, names', seenExts, ServerName')
  <2>1. CASE j = Len(h.names) + 1
    <3>1. /\ Empty(names) /\ AtExt(c, h, i + 1, extensions, seenExts, ServerName)
          /\ Right(c, c.data, ServerName)
      BY ZenonT(30), <1>5, <1>7, <2>1, AfterNames
    <3>2. ServerName' = ServerName /\ (step' = "extensions" \/ Ended(step'))
      BY ZenonT(30), <3>1 DEF Name, Unmarshalled, Ended
    <3>3. CASE step' = "extensions"
      <4>1. step' \notin {"idle", "fixed", "names", "text", "done"}
        BY SMTT(30), <3>3
      <4>2. i + 1 \in 1 .. Len(h.exts) + 1
        <5>1. PICK l \in Nat : l = Len(h.exts)
          BY ZenonT(30), <1>5 DEF Client, Hello
        <5>2. i \in 1 .. l
          BY ZenonT(30), <5>1
        <5>3. i + 1 \in 1 .. l + 1
          BY SMTT(30), <5>2
        <5> QED BY ZenonT(30), <5>1, <5>3
      <4> QED BY ZenonT(30), <1>3, <1>4, <1>6, <3>1, <3>2, <4>1, <4>2 DEF SniffAt
    <3>4. CASE Ended(step')
      BY ZenonT(30), <1>8, <3>1, <3>2, <3>4
    <3> QED BY <3>2, <3>3, <3>4
  <2>2. CASE j # Len(h.names) + 1
    <3>1. j \in 1 .. Len(h.names)
      <4>1. PICK k \in Nat : k = Len(h.names)
        BY ZenonT(30), <1>5 DEF Client, Hello
      <4>2. j \in 1 .. k + 1 /\ j # k + 1
        BY ZenonT(30), <2>2, <4>1
      <4>3. j \in 1 .. k
        BY SMTT(30), <4>2
      <4> QED BY ZenonT(30), <4>1, <4>3
    <3>2. ReadsName(names, h.names[j], NameTail(h, j + 1)) /\ j + 1 \in 1 .. Len(h.names) + 1
      BY ZenonT(30), <1>5, <1>7, <3>1, AtServerName
    <3>3. ~ Empty(names)
      BY ZenonT(30), <3>2 DEF ReadsName
    <3>4. PICK name, rest : name = Prefixed(Skip(names, 1), 2) /\ rest = Rest(Skip(names, 1), 2)
      OBVIOUS
    <3>5. ASSUME NEW sn, ServerName' = sn, names' = rest, step' = "names",
                 AtName(c, h, i, j + 1, extensions, rest, seenExts, sn)
          PROVE  SniffAt(c, step', buf, s, extensions, names', seenExts, ServerName')
      <4>1. step' \notin {"idle", "fixed", "extensions", "text", "done"}
        BY SMTT(30), <3>5
      <4> QED BY ZenonT(30), <1>3, <1>4, <1>6, <3>2, <3>5, <4>1 DEF SniffAt
    <3>6. CASE ~ HasName(names) \/ (Number(names, 1) = 0 /\ ServerName # <<>>)
      <4>1. ServerName' = ServerName /\ Ended(step')
        BY ZenonT(30), <3>3, <3>6 DEF Name, Unmarshalled, Ended
      <4>2. Right(c, c.data, ServerName)
        BY ZenonT(30), <1>5, <1>7, <3>1, <3>6, AtNameStop
      <4> QED BY ZenonT(30), <1>8, <4>1, <4>2
    <3>7. CASE HasName(names) /\ Number(names, 1) = 0 /\ ServerName = <<>>
      <4>1. ServerName' = name /\ names' = rest /\ (step' = step \/ Ended(step'))
        BY ZenonT(30), <3>3, <3>4, <3>7 DEF Name, Unmarshalled, Ended
      <4>2. Right(c, c.data, name) /\ AtName(c, h, i, j + 1, extensions, rest, seenExts, name)
        BY ZenonT(30), <1>5, <1>7, <3>1, <3>4, <3>7, NameStored
      <4>3. CASE Ended(step')
        BY ZenonT(30), <1>8, <4>1, <4>2, <4>3
      <4>4. CASE step' = step
        BY ZenonT(30), <1>1, <3>5, <4>1, <4>2, <4>4
      <4> QED BY <4>1, <4>3, <4>4
    <3>8. CASE HasName(names) /\ Number(names, 1) # 0
      <4>1. ServerName' = ServerName /\ names' = rest /\ step' = step
        BY ZenonT(30), <3>3, <3>4, <3>8 DEF Name
      <4>2. AtName(c, h, i, j + 1, extensions, rest, seenExts, ServerName)
        BY ZenonT(30), <1>5, <1>7, <3>1, <3>4, <3>8, NamePassed
      <4> QED BY ZenonT(30), <1>1, <3>5, <4>1, <4>2
    <3> QED BY ZenonT(30), <3>6, <3>7, <3>8
  <2> QED BY <2>1, <2>2
<1> QED BY ZenonT(30), <1>2, <1>9 DEF SniffInv

(* Plain text does not touch the name. *)
LEMMA SniffPlain ==
    ASSUME NEW c \in Clients, client = c, SniffInv, PlainText, UNCHANGED vars5
    PROVE  SniffInv'
<1>1. /\ step = "text" /\ stage = "relay"
      /\ SniffAt(c, "text", buf, s, extensions, names, seenExts, ServerName)
  BY ZenonT(30), "text" # "idle" DEF SniffInv, PlainText
<1>2. /\ client' = c /\ stage' = "relay" /\ step' = "done" /\ buf' = buf /\ s' = s
      /\ extensions' = extensions /\ names' = names /\ seenExts' = seenExts /\ ServerName' = ServerName
  BY ZenonT(30), <1>1 DEF PlainText, vars5
<1>3. PICK m \in 0 .. Len(c.data) : buf = Pre(c.data, m)
  BY ZenonT(30), <1>1, "text" # "idle" DEF SniffAt
<1>4. Right(c, buf, ServerName) /\ Ended("done")
  BY ZenonT(30), <1>1 DEF SniffAt, Ended
<1>5. SniffAt(c, "done", buf, s, extensions, names, seenExts, ServerName)
  BY ZenonT(30), <1>3, <1>4, Settled
<1> QED BY ZenonT(30), <1>2, <1>5 DEF SniffInv

LEMMA SniffNext ==
    ASSUME HInv, CutInv, SniffInv, [Next]_vars
    PROVE  SniffInv'
<1>1. CASE Handshake
  BY <1>1, SniffHandshake
<1>2. CASE Answer
  BY <1>2, SniffAnswer
<1>3. CASE NextHello /\ UNCHANGED vars5
  <2>1. step # "idle"
    <3>1. step \in {"fixed", "extensions", "names", "text"}
      BY ZenonT(30), <1>3 DEF NextHello, Fixed, Extension, Name, PlainText
    <3> QED BY SMTT(30), <3>1
  <2>2. PICK c \in Clients : c = client /\ c.kind = "socks"
    BY ZenonT(30), <2>1, Relayed DEF SniffInv
  <2> QED BY ZenonT(30), <1>3, <2>2, SniffFixed, SniffExtension, SniffName, SniffPlain DEF NextHello
<1>4. CASE UNCHANGED vars
  BY ZenonT(30), <1>4 DEF vars, vars5, helloVars, SniffInv
<1> QED BY <1>1, <1>2, <1>3, <1>4 DEF Next

(* A name that was read is reported: the text is not searched then. *)
ReportInv ==
    /\ step = "text" => ServerName = <<>>
    /\ step = "done" => domain = ServerName \/ ServerName = <<>>

LEMMA ReportNext ==
    ASSUME SniffInv, ReportInv, [Next]_vars
    PROVE  ReportInv'
<1>1. (step \in {"idle", "fixed"} => ServerName = <<>>) /\ "fixed" \in {"idle", "fixed"} /\ "idle" \in {"idle", "fixed"}
  BY ZenonT(30) DEF SniffInv, SniffAt
<1>2. ASSUME NEW name, Unmarshalled(name), ServerName' = name PROVE ReportInv'
  BY ZenonT(30), <1>2, "text" # "done" DEF Unmarshalled, ReportInv
<1>3. ASSUME step' \in {"idle", "panic", "fixed", "extensions", "names"} PROVE ReportInv'
  <2>1. step' # "text" /\ step' # "done"
    BY SMTT(30), <1>3
  <2> QED BY ZenonT(30), <2>1 DEF ReportInv
<1>4. CASE Handshake
  BY ZenonT(30), <1>3, <1>4 DEF Handshake, helloVars
<1>5. CASE Answer
  <2>1. ServerName' = <<>>
    BY ZenonT(30), <1>1, <1>5 DEF Answer, Receive
  <2> QED BY ZenonT(30), <2>1 DEF ReportInv
<1>6. CASE Fixed
  <2>1. ServerName = <<>> /\ ServerName' = ServerName /\ (step' = "extensions" \/ Unmarshalled(<<>>))
    BY ZenonT(30), <1>1, <1>6 DEF Fixed
  <2> QED BY ZenonT(30), <1>2, <1>3, <2>1
<1>7. CASE Extension
  <2>1. ServerName' = ServerName /\ (step' \in {"extensions", "names"} \/ Unmarshalled(ServerName))
    BY ZenonT(30), <1>7 DEF Extension
  <2> QED BY ZenonT(30), <1>2, <1>3, <2>1
<1>8. CASE Name
  <2>1. \/ step' \in {"extensions", "names"}
        \/ \E name : Unmarshalled(name) /\ ServerName' = name
    <3>1. CASE Empty(names) \/ ~ HasName(names) \/ (Number(names, 1) = 0 /\ ServerName # <<>>)
      BY ZenonT(30), <1>8, <3>1 DEF Name
    <3>2. CASE ~(Empty(names) \/ ~ HasName(names) \/ (Number(names, 1) = 0 /\ ServerName # <<>>))
      BY ZenonT(30), <1>8, <3>2 DEF Name
    <3> QED BY <3>1, <3>2
  <2> QED BY ZenonT(30), <1>2, <1>3, <2>1
<1>9. CASE PlainText
  <2>1. ServerName' = <<>>
    BY ZenonT(30), <1>9 DEF PlainText, ReportInv
  <2> QED BY ZenonT(30), <2>1 DEF ReportInv
<1>10. CASE UNCHANGED vars
  BY ZenonT(30), <1>10 DEF vars, helloVars, ReportInv
<1> QED BY ZenonT(30), <1>4, <1>5, <1>6, <1>7, <1>8, <1>9, <1>10 DEF Next, NextHello

(* A session shakes hands as Socks5 does. *)
LEMMA SessionShakesHands == Spec => Spec5
<1>1. Init => Init5
  BY DEF Init
<1>2. [Next]_vars => [Next5]_vars5
  BY ZenonT(30) DEF Next, Handshake, Answer, vars, vars5
<1> QED BY PTL, <1>1, <1>2 DEF Spec, Spec5

(* The name read out of a ClientHello is the one the client put there or   *)
(* none, wherever the buffer ends and whichever extensions stand around    *)
(* it; a complete, well-formed hello gives its name, and the connection is *)
(* reported under it (UnmarshalByByte, unmarshal). As in ServedAlways no   *)
(* stream spells an account behind a first Read that was not its greeting. *)
THEOREM NameAlwaysExact ==
    ASSUME Unambiguous
    PROVE  Spec => []NameIsExact
<1>1. CutInv /\ HInv /\ [Next5]_vars5 => CutInv'
  BY CutNext
<1>2. Spec5 => [](HInv /\ CutInv)
  BY PTL, <1>1, CutInit, HandshakeInvariant DEF Spec5
<1>3. HInv /\ CutInv /\ SniffInv /\ [Next]_vars => SniffInv'
  BY SniffNext
<1>4. SniffInv /\ ReportInv /\ [Next]_vars => ReportInv'
  BY ReportNext
<1>5. Init => ReportInv
  <2>1. Init => step = "idle"
    BY DEF Init, InitHello
  <2> QED BY SMTT(30), <2>1 DEF ReportInv
<1>6. SniffInv /\ ReportInv => NameIsExact
  BY ZenonT(30) DEF SniffInv, SniffAt, ReportInv, Right, NameIsExact
<1> QED BY PTL, <1>2, <1>3, <1>4, <1>5, <1>6, SniffInit, SessionShakesHands DEF Spec

=============================================================================
