---------------------------- MODULE Socks5Proofs ----------------------------
(***************************************************************************)
(* Proofs about the handshake of Socks5, for any clients, accounts and     *)
(* local addresses: a client that is heard in step is served as it asked   *)
(* (InStep), and one that is not is refused or cut off (OutOfStep).        *)
(***************************************************************************)
EXTENDS Socks5, SequenceTheorems, TLAPS

(* Which provers a leaf is given to, and for how long. *)
USE ZenonT(3), SMTT(30), ZenonT(30)

-----------------------------------------------------------------------------
(* The handshake.  The proofs about it do not look into strings of bytes:  *)
(* they use what Catenation says of Str and Cat.                           *)
Str == Seq(Byte)
Cat(q, t) == q \o t

(* What is left of a SOCKS5 client's stream when the handler is about to   *)
(* read the field that gives the definition its name.                      *)
AtPort(c)    == Cat(PortBytes(c.dest.port), c.data)
AtAddr(c)    == Cat(c.dest.addr, AtPort(c))
AtLen(c)     == Cat(<<Len(c.dest.addr)>>, AtAddr(c))
AtType(c)    == Cat(<<c.dest.type>>, IF c.dest.type = fqdnAddress THEN AtLen(c) ELSE AtAddr(c))
AtRequest(c) == Cat(<<socks5Version, 1, 0>>, AtType(c))
AtPass(c)    == Cat(c.pwd, AtRequest(c))
AtPassLen(c) == Cat(<<Len(c.pwd)>>, AtPass(c))
AtUser(c)    == Cat(c.user, AtPassLen(c))
AtHeader(c)  == Cat(<<UserAuthVersion, Len(c.user)>>, AtUser(c))

(* x is what is left of the stream of c behind its first r bytes. *)
Left(c, r, x) ==
    /\ Len(Stream[c]) = r + Len(x)
    /\ \A i \in 1 .. Len(x) : Stream[c][r + i] = x[i]

Parsed(u, p, d, n) == [user |-> u, pwd |-> p, dest |-> d, need |-> n]
At(st, u, p, d, n, x) == stage = st => got = Parsed(u, p, d, n) /\ Left(client, read, x)

(* The handler is in step with the client c: it has parsed what c meant    *)
(* and its next read starts where the next field starts; it turned c away  *)
(* only with a reason.                                                     *)
InStep(c) ==
    LET u == c.user
        p == c.pwd
        a == Len(c.dest.addr)
        ip == c.dest.type \in {ipv4Address, ipv6Address}
        fqdn == c.dest.type = fqdnAddress
    IN  /\ read \in Nat
        /\ \A st \in {"select", "header"} : At(st, <<>>, <<>>, NoAddr, 0, AtHeader(c))
        /\ At("user", <<>>, <<>>, NoAddr, Len(u), AtUser(c))
        /\ At("passLen", u, <<>>, NoAddr, Len(u), AtPassLen(c))
        /\ At("pass", u, <<>>, NoAddr, Len(p), AtPass(c))
        /\ \A st \in {"valid", "request"} : At(st, u, p, NoAddr, Len(p), AtRequest(c))
        /\ At("addrType", u, p, NoAddr, Len(p), AtType(c))
        /\ At("fqdnLen", u, p, NoAddr, Len(p), AtLen(c))
        /\ \A st \in {"ip", "fqdn"} : At(st, u, p, NoAddr, a, AtAddr(c))
        /\ At("port", u, p, [Meant(c.dest) EXCEPT !.port = 0], a, AtPort(c))
        /\ \A st \in {"dial", "relay"} : At(st, u, p, Meant(c.dest), a, c.data)
        /\ stage = "ip" => ip
        /\ stage \in {"fqdnLen", "fqdn"} => fqdn
        /\ stage = "port" => ip \/ fqdn
        /\ stage \notin {"first", "http"}
        /\ stage = "misread" => <<u, p>> \notin Accounts \/ ~(ip \/ fqdn)

(* A short HTTP request, taken for a greeting: nothing follows it. *)
Silent == stage \in {"select", "header", "closed"} /\ sent = Len(client.head) /\ read = sent

(* What the client has been told so far. *)
Asked == <<socks5Version, UserPassAuth>>
Granted == <<UserAuthVersion, AuthSuccess>>
Bound(b) ==
    <<socks5Version, SuccessReply, 0>> \o
        AddrBytes([type |-> ipv4Address, addr |-> To4(b.ip), port |-> b.port])
Told ==
    /\ stage \in {"first", "select"} => out = <<>>
    /\ stage \in {"header", "user", "passLen", "pass", "valid"} => out = <<Asked>>
    /\ stage \in {"request", "addrType", "fqdnLen", "fqdn", "ip", "port", "dial"} => out = <<Asked, Granted>>
    /\ stage = "relay" => out = <<Asked, Granted, Bound(bind)>>

(* The inductive invariant of the handshake. Nothing is claimed of a       *)
(* client whose greeting was cut or glued to what follows, except what it  *)
(* was told.                                                               *)
HInv ==
    /\ client \in Clients
    /\ stage = "first" => ~whole /\ got = Parsed(<<>>, <<>>, NoAddr, 0)
    /\ stage = "http" => client.kind = "http"
    /\ whole /\ client.kind = "socks" => InStep(client)
    /\ whole /\ client.kind = "http" => Silent
    /\ Told

-----------------------------------------------------------------------------
(* Strings of bytes under concatenation. *)
LEMMA Catenation ==
    /\ \A q, t \in Str : Cat(q, t) \in Str /\ Len(Cat(q, t)) = Len(q) + Len(t)
    /\ \A q, t, u \in Str : Cat(Cat(q, t), u) = Cat(q, Cat(t, u))
    /\ \A q \in Str : Cat(<<>>, q) = q /\ Cat(q, <<>>) = q
    /\ <<>> \in Str /\ Len(<<>>) = 0 /\ \A q \in Str : Len(q) \in Nat
  BY ConcatProperties, ConcatAssociative, ConcatEmptySeq DEF Str, Cat

(* Messages of one, two and three bytes. *)
LEMMA Short ==
    /\ \A x \in Byte : <<x>> \in Str /\ Len(<<x>>) = 1
    /\ \A x, y \in Byte : <<x, y>> \in Str /\ Len(<<x, y>>) = 2
    /\ \A x, y, z \in Byte : <<x, y, z>> \in Str /\ Len(<<x, y, z>>) = 3
  BY SMTT(30) DEF Str

LEMMA Small == 0 \in Byte /\ 1 \in Byte /\ 5 \in Byte
  BY SMTT(30) DEF Byte

LEMMA Associative == \A q, t, u \in Str : Cat(Cat(q, t), u) = Cat(q, Cat(t, u))
  BY Catenation

(* Strings of bytes are equal when their bytes are. *)
LEMMA Same ==
    ASSUME NEW x \in Str, NEW y \in Str, Len(x) = Len(y), \A i \in 1 .. Len(x) : x[i] = y[i]
    PROVE  x = y
  BY SeqEqual DEF Str

(* A slice of a string. *)
LEMMA Slices ==
    ASSUME NEW q \in Str, NEW a \in Nat, NEW n \in Nat, a + n <= Len(q)
    PROVE  /\ SubSeq(q, a + 1, a + n) \in Str /\ Len(SubSeq(q, a + 1, a + n)) = n
           /\ \A i \in 1 .. n : SubSeq(q, a + 1, a + n)[i] = q[a + i]
<1>1. Len(q) \in Nat /\ \A i \in 1 .. Len(q) : q[i] \in Byte
  BY LenProperties, ElementOfSeq DEF Str
<1>2. PICK k \in Int, l \in Int : k = a + 1 /\ l = a + n /\ \A i \in k .. l : q[i] \in Byte
  BY SMTT(30), <1>1
<1>3. PICK z : z = SubSeq(q, k, l)
  OBVIOUS
<1>4. /\ z \in Seq(Byte) /\ Len(z) = IF k <= l THEN l - k + 1 ELSE 0
      /\ \A i \in 1 .. l - k + 1 : z[i] = q[k + i - 1]
  <2>1. /\ SubSeq(q, k, l) \in Seq(Byte) /\ Len(SubSeq(q, k, l)) = IF k <= l THEN l - k + 1 ELSE 0
        /\ \A i \in 1 .. l - k + 1 : SubSeq(q, k, l)[i] = q[k + i - 1]
    BY SMTT(30), <1>2, SubSeqProperties
  <2> QED BY ZenonT(30), <1>3, <2>1
<1>5. l - k + 1 = n /\ (~(k <= l) => n = 0) /\ \A i \in 1 .. n : k + i - 1 = a + i
  BY SMTT(30), <1>2
<1>6. /\ z \in Seq(Byte) /\ Len(z) = n /\ \A i \in 1 .. n : z[i] = q[a + i]
  BY ZenonT(30), <1>4, <1>5
<1> QED BY ZenonT(30), <1>2, <1>3, <1>6 DEF Str

(* The two halves of a concatenation. *)
LEMMA Halves ==
    ASSUME NEW x \in Str, NEW y \in Str
    PROVE  /\ \A i \in 1 .. Len(x) : Cat(x, y)[i] = x[i]
           /\ \A i \in 1 .. Len(y) : Cat(x, y)[Len(x) + i] = y[i]
<1>1. /\ Len(x) \in Nat /\ Len(y) \in Nat
      /\ \A i \in 1 .. Len(x) + Len(y) : (x \o y)[i] = IF i <= Len(x) THEN x[i] ELSE y[i - Len(x)]
  BY ZenonT(30), ConcatProperties, LenProperties DEF Str
<1>2. PICK m \in Nat, n \in Nat : m = Len(x) /\ n = Len(y)
  BY <1>1
<1>3. PICK z : z = x \o y
  OBVIOUS
<1>4. \A i \in 1 .. m + n : z[i] = IF i <= m THEN x[i] ELSE y[i - m]
  BY ZenonT(30), <1>1, <1>2, <1>3
<1>5. \A i \in 1 .. m : z[i] = x[i]
  BY SMTT(30), <1>4
<1>6. ASSUME NEW i \in 1 .. n PROVE z[m + i] = y[i]
  <2>1. m + i \in 1 .. m + n /\ ~(m + i <= m) /\ (m + i) - m = i
    BY SMTT(30)
  <2> QED BY ZenonT(30), <1>4, <2>1
<1> QED BY ZenonT(30), <1>2, <1>3, <1>5, <1>6 DEF Cat

(* Reading x off the front of x y. *)
LEMMA Cut ==
    ASSUME NEW x \in Str, NEW y \in Str, NEW a \in Nat, a = Len(x)
    PROVE  /\ SubSeq(Cat(x, y), 1, a) = x
           /\ SubSeq(Cat(x, y), a + 1, Len(Cat(x, y))) = y
<1>0. Cat(x, y) \in Str /\ Len(x) \in Nat /\ Len(y) \in Nat /\ Len(Cat(x, y)) = Len(x) + Len(y)
  BY Catenation
<1>1. PICK z \in Str, m \in Nat, n \in Nat : z = Cat(x, y) /\ m = Len(x) /\ n = Len(y) /\ Len(z) = m + n
  BY ZenonT(30), <1>0
<1>2. (\A i \in 1 .. m : z[i] = x[i]) /\ (\A i \in 1 .. n : z[m + i] = y[i])
  BY ZenonT(30), <1>1, Halves
<1>3. /\ SubSeq(z, 0 + 1, 0 + m) \in Str /\ Len(SubSeq(z, 0 + 1, 0 + m)) = m
      /\ \A i \in 1 .. m : SubSeq(z, 0 + 1, 0 + m)[i] = z[0 + i]
  <2>1. 0 + m <= Len(z) /\ 0 \in Nat
    BY SMTT(30), <1>1
  <2> QED BY ZenonT(30), <2>1, Slices
<1>4. SubSeq(z, 0 + 1, 0 + m) = x
  <2>1. \A i \in 1 .. m : SubSeq(z, 0 + 1, 0 + m)[i] = x[i]
    <3>1. \A i \in 1 .. m : 0 + i = i
      BY SMTT(30)
    <3> QED BY ZenonT(30), <1>2, <1>3, <3>1
  <2> QED BY ZenonT(30), <1>1, <1>3, <2>1, Same
<1>5. 0 + 1 = 1 /\ 0 + m = m
  BY SMTT(30)
<1>6. /\ SubSeq(z, m + 1, m + n) \in Str /\ Len(SubSeq(z, m + 1, m + n)) = n
      /\ \A i \in 1 .. n : SubSeq(z, m + 1, m + n)[i] = z[m + i]
  <2>1. m + n <= Len(z)
    BY SMTT(30), <1>1
  <2> QED BY ZenonT(30), <2>1, Slices
<1>7. SubSeq(z, m + 1, m + n) = y
  <2>1. PICK w \in Str : w = SubSeq(z, m + 1, m + n) /\ Len(w) = n /\ \A i \in 1 .. n : w[i] = z[m + i]
    BY ZenonT(30), <1>6
  <2>2. \A i \in 1 .. n : w[i] = y[i]
    BY ZenonT(30), <1>2, <2>1
  <2> QED BY ZenonT(30), <1>1, <2>1, <2>2, Same
<1> QED BY ZenonT(30), <1>1, <1>4, <1>5, <1>7

(* Two adjacent slices. *)
Meet(q, a, m, n) ==
    Cat(SubSeq(q, a + 1, a + m), SubSeq(q, a + m + 1, a + m + n)) = SubSeq(q, a + 1, a + m + n)
LEMMA Adjacent ==
    ASSUME NEW q \in Str, NEW a \in Nat, NEW m \in Nat, NEW n \in Nat, a + m + n <= Len(q)
    PROVE  Meet(q, a, m, n)
<1>1. a + m \in Nat /\ m + n \in Nat /\ a + m <= Len(q) /\ a + m + n = a + (m + n)
  BY SMTT(30), Catenation
<1>2. PICK x \in Str : /\ x = SubSeq(q, a + 1, a + m) /\ Len(x) = m
                       /\ \A i \in 1 .. m : x[i] = q[a + i]
  BY ZenonT(30), <1>1, Slices
<1>3. PICK y \in Str : /\ y = SubSeq(q, a + m + 1, a + m + n) /\ Len(y) = n
                       /\ \A i \in 1 .. n : y[i] = q[a + m + i]
  BY ZenonT(30), <1>1, Slices
<1>4. PICK z \in Str : /\ z = SubSeq(q, a + 1, a + m + n) /\ Len(z) = m + n
                       /\ \A i \in 1 .. m + n : z[i] = q[a + i]
  BY ZenonT(30), <1>1, Slices
<1>5. Cat(x, y) \in Str /\ Len(Cat(x, y)) = m + n
  <2>1. Cat(x, y) \in Str /\ Len(Cat(x, y)) = Len(x) + Len(y)
    BY Catenation
  <2> QED BY ZenonT(30), <1>2, <1>3, <2>1
<1>6. (\A i \in 1 .. m : Cat(x, y)[i] = x[i]) /\ (\A i \in 1 .. n : Cat(x, y)[m + i] = y[i])
  <2>1. /\ \A i \in 1 .. Len(x) : Cat(x, y)[i] = x[i]
        /\ \A i \in 1 .. Len(y) : Cat(x, y)[Len(x) + i] = y[i]
    BY ZenonT(30), Halves
  <2> QED BY ZenonT(30), <1>2, <1>3, <2>1
<1>7. ASSUME NEW i \in 1 .. m + n PROVE Cat(x, y)[i] = z[i]
  <2>1. CASE i \in 1 .. m
    BY ZenonT(30), <1>2, <1>4, <1>6, <2>1
  <2>2. CASE i - m \in 1 .. n
    <3>1. PICK j \in 1 .. n : i = m + j /\ a + m + j = a + i
      BY SMTT(30), <2>2
    <3> QED BY ZenonT(30), <1>3, <1>4, <1>6, <3>1
  <2> QED BY SMTT(30), <2>1, <2>2
<1>8. Cat(x, y) = z
  BY ZenonT(30), <1>4, <1>5, <1>7, Same
<1> QED BY ZenonT(30), <1>2, <1>3, <1>4, <1>8 DEF Meet

(* A message of four fields and what follows it, field by field. *)
LEMMA Regroup ==
    ASSUME NEW q \in Str, NEW t \in Str, NEW u \in Str, NEW v \in Str, NEW w \in Str
    PROVE  Cat(Cat(Cat(Cat(q, t), u), v), w) = Cat(q, Cat(t, Cat(u, Cat(v, w))))
<1>1. Cat(q, t) \in Str /\ Cat(Cat(q, t), u) \in Str /\ Cat(v, w) \in Str /\ Cat(u, Cat(v, w)) \in Str
  BY Catenation
<1>2. Cat(Cat(Cat(Cat(q, t), u), v), w) = Cat(Cat(Cat(q, t), u), Cat(v, w))
  BY <1>1, Associative
<1>3. Cat(Cat(Cat(q, t), u), Cat(v, w)) = Cat(Cat(q, t), Cat(u, Cat(v, w)))
  BY <1>1, Associative
<1>4. Cat(Cat(q, t), Cat(u, Cat(v, w))) = Cat(q, Cat(t, Cat(u, Cat(v, w))))
  BY <1>1, Associative
<1> QED BY <1>2, <1>3, <1>4

LEMMA PortBounds == \A p \in Port : p \in Nat /\ p < 65536
  BY SMTT(30) DEF Port

(* A port survives being written as two bytes and read back (ReadAddrSpec, *)
(* SendReply).                                                             *)
LEMMA Ports ==
    \A p \in Port : /\ PortBytes(p) \in Str /\ Len(PortBytes(p)) = 2
                    /\ PortOf(PortBytes(p)) = p /\ uint16(p) = p
<1> SUFFICES ASSUME NEW p \in Port
             PROVE  /\ PortBytes(p) \in Str /\ Len(PortBytes(p)) = 2
                    /\ PortOf(PortBytes(p)) = p /\ uint16(p) = p
  OBVIOUS
<1>1. uint16(p) = p
  BY SMTT(30), PortBounds DEF uint16
<1>2. p % 256 \in Byte /\ p \div 256 \in Byte
  BY Z3T(30), PortBounds DEF Byte
<1>3. p % 256 = p - 256 * (p \div 256)
  BY SMTT(30), PortBounds
<1>4. PICK q \in Byte, r \in Byte : PortBytes(p) = <<q, r>> /\ q = p \div 256 /\ r = p % 256
  BY SMTT(30), <1>2 DEF PortBytes
<1>5. q * 256 + r = p
  BY SMTT(30), <1>3, <1>4, PortBounds DEF Byte
<1>6. PortOf(<<q, r>>) = p
  BY SMTT(30), <1>5 DEF PortOf
<1> QED BY <1>1, <1>4, <1>6, Short

(* The fields of a SOCKS5 client. *)
LEMMA ClientFields ==
    ASSUME NEW c \in Clients, c.kind = "socks"
    PROVE  /\ c.methods \in Str /\ c.user \in Str /\ c.pwd \in Str
           /\ c.dest.addr \in Str /\ c.data \in Str
           /\ Len(c.methods) \in Byte /\ Len(c.user) \in Byte
           /\ Len(c.pwd) \in Byte /\ Len(c.dest.addr) \in Byte
           /\ c.dest.type \in Byte /\ c.dest.port \in Port
           /\ c.dest.type = ipv4Address => Len(c.dest.addr) = 4
           /\ c.dest.type = ipv6Address => Len(c.dest.addr) = 16
  BY ZenonT(30), SocksAssumption DEF Str

(* What is left of a stream is a string of bytes. *)
LEMMA Tails ==
    ASSUME NEW c \in Clients, c.kind = "socks"
    PROVE  /\ AtPort(c) \in Str /\ AtAddr(c) \in Str /\ AtLen(c) \in Str
           /\ AtType(c) \in Str /\ AtRequest(c) \in Str /\ AtPass(c) \in Str
           /\ AtPassLen(c) \in Str /\ AtUser(c) \in Str /\ AtHeader(c) \in Str
<1>1. \A q, t \in Str : Cat(q, t) \in Str
  BY Catenation
<1>2. AtPort(c) \in Str
  BY <1>1, Ports, ClientFields DEF AtPort
<1>3. AtAddr(c) \in Str
  BY <1>1, <1>2, ClientFields DEF AtAddr
<1>4. AtLen(c) \in Str
  BY <1>1, <1>3, Short, ClientFields DEF AtLen
<1>5. AtType(c) \in Str
  BY <1>1, <1>3, <1>4, Short, ClientFields DEF AtType
<1>6. AtRequest(c) \in Str
  BY <1>1, <1>5, Short, Small DEF AtRequest, socks5Version
<1>7. AtPass(c) \in Str
  BY <1>1, <1>6, ClientFields DEF AtPass
<1>8. AtPassLen(c) \in Str
  BY <1>1, <1>7, Short, ClientFields DEF AtPassLen
<1>9. AtUser(c) \in Str
  BY <1>1, <1>8, ClientFields DEF AtUser
<1>10. AtHeader(c) \in Str
  BY <1>1, <1>9, Short, Small, ClientFields DEF AtHeader, UserAuthVersion
<1> QED BY <1>2, <1>3, <1>4, <1>5, <1>6, <1>7, <1>8, <1>9, <1>10

(* The stream of a SOCKS5 client, field by field. *)
LEMMA Layout ==
    ASSUME NEW c \in Clients, c.kind = "socks"
    PROVE  \E g \in Str, m \in Str, r \in Str :
              /\ Messages(c) = <<g, m, r, c.data>>
              /\ Stream[c] = Cat(Cat(Cat(g, m), r), c.data)
              /\ Stream[c] = Cat(g, AtHeader(c))
<1> DEFINE e == <<socks5Version, Len(c.methods)>>
           l == IF c.dest.type = fqdnAddress THEN <<Len(c.dest.addr)>> ELSE <<>>
           b == PortBytes(c.dest.port)
           t == <<c.dest.type>>
           a == Cat(Cat(Cat(t, l), c.dest.addr), b)
           g == Cat(e, c.methods)
           h == <<UserAuthVersion, Len(c.user)>>
           k == <<Len(c.pwd)>>
           m == Cat(Cat(Cat(h, c.user), k), c.pwd)
           v == <<socks5Version, 1, 0>>
           r == Cat(v, a)
<1>1. l \in Str /\ b \in Str /\ t \in Str
  BY Short, ClientFields, Ports, Catenation
<1>2. h \in Str /\ k \in Str /\ v \in Str /\ e \in Str
  BY Short, Small, ClientFields DEF socks5Version, UserAuthVersion
<1>3. a = AddrBytes(c.dest)
  BY ZenonT(30) DEF AddrBytes, Cat
<1>4. Messages(c) = <<g, m, r, c.data>>
  BY ZenonT(30), <1>3, "socks" # "http" DEF Messages, AccountBytes, Cat
<1>5. /\ l = IF c.dest.type = fqdnAddress THEN <<Len(c.dest.addr)>> ELSE <<>>
      /\ AtType(c) = Cat(t, IF c.dest.type = fqdnAddress THEN AtLen(c) ELSE AtAddr(c))
      /\ AtPort(c) = Cat(b, c.data)
      /\ AtRequest(c) = Cat(v, AtType(c))
      /\ AtPassLen(c) = Cat(k, AtPass(c))
      /\ AtHeader(c) = Cat(h, AtUser(c))
  BY ZenonT(30) DEF AtType, AtPort, AtRequest, AtPassLen, AtHeader
<1> HIDE DEF e, l, b, t, h, k, v
<1>6. c.methods \in Str /\ c.user \in Str /\ c.pwd \in Str /\ c.dest.addr \in Str /\ c.data \in Str
  BY ClientFields
<1>7. a \in Str /\ m \in Str /\ g \in Str
  BY <1>1, <1>2, <1>6, Catenation
<1>8. AtType(c) = Cat(a, c.data)
  <2>1. Cat(a, c.data) = Cat(t, Cat(l, Cat(c.dest.addr, Cat(b, c.data))))
    <3>1. ASSUME NEW x \in Str, NEW y \in Str
          PROVE  Cat(Cat(Cat(Cat(t, l), x), b), y) = Cat(t, Cat(l, Cat(x, Cat(b, y))))
      BY <1>1, Regroup
    <3> QED BY <1>6, <3>1
  <2>2. Cat(a, c.data) = Cat(t, Cat(l, AtAddr(c)))
    BY ZenonT(30), <1>5, <2>1 DEF AtAddr
  <2>3. Cat(l, AtAddr(c)) = IF c.dest.type = fqdnAddress THEN AtLen(c) ELSE AtAddr(c)
    BY <1>5, Tails, Catenation DEF AtLen
  <2> QED BY <1>5, <2>2, <2>3
<1> HIDE DEF a, g
<1>9. r \in Str
  BY <1>2, <1>7, Catenation
<1>10. AtRequest(c) = Cat(r, c.data)
  BY <1>2, <1>5, <1>6, <1>7, <1>8, Associative
<1>11. AtHeader(c) = Cat(m, Cat(r, c.data))
  <2>1. AtRequest(c) \in Str
    BY Tails
  <2>2. Cat(m, AtRequest(c)) = Cat(h, Cat(c.user, Cat(k, Cat(c.pwd, AtRequest(c)))))
    <3>1. ASSUME NEW x \in Str, NEW y \in Str, NEW z \in Str
          PROVE  Cat(Cat(Cat(Cat(h, x), k), y), z) = Cat(h, Cat(x, Cat(k, Cat(y, z))))
      BY <1>2, Regroup
    <3> QED BY <1>6, <2>1, <3>1
  <2> QED BY ZenonT(30), <1>5, <1>10, <2>2 DEF AtUser, AtPass
<1> HIDE DEF m, r
<1>12. Stream[c] = Cat(Cat(Cat(g, m), r), c.data)
  <2>1. Stream[c] = Cat(Cat(Cat(Messages(c)[1], Messages(c)[2]), Messages(c)[3]), Messages(c)[4])
    BY ZenonT(30) DEF Stream, Cat
  <2>2. Messages(c)[1] = g /\ Messages(c)[2] = m /\ Messages(c)[3] = r /\ Messages(c)[4] = c.data
    BY SMTT(30), <1>4
  <2> QED BY ZenonT(30), <2>1, <2>2
<1>13. Cat(Cat(Cat(g, m), r), c.data) = Cat(g, Cat(m, Cat(r, c.data)))
  <2>1. Cat(g, m) \in Str /\ Cat(r, c.data) \in Str
    BY <1>6, <1>7, <1>9, Catenation
  <2>2. Cat(Cat(Cat(g, m), r), c.data) = Cat(Cat(g, m), Cat(r, c.data))
    BY <1>6, <1>9, <2>1, Associative
  <2>3. Cat(Cat(g, m), Cat(r, c.data)) = Cat(g, Cat(m, Cat(r, c.data)))
    BY <1>7, <2>1, Associative
  <2> QED BY <2>2, <2>3
<1> QED BY ZenonT(30), <1>4, <1>7, <1>9, <1>11, <1>12, <1>13

(* Reading b when b is next. *)
LEMMA Taken ==
    ASSUME NEW c \in Clients, Stream[c] \in Str, NEW r \in Nat, NEW b \in Str, NEW y \in Str,
           Left(c, r, Cat(b, y))
    PROVE  SubSeq(Stream[c], r + 1, r + Len(b)) = b /\ Left(c, r + Len(b), y)
<1> DEFINE q == Stream[c]
           n == Len(b)
<1>1. /\ q \in Seq(Byte) /\ b \in Seq(Byte) /\ y \in Seq(Byte) /\ n \in Nat /\ Len(y) \in Nat
      /\ Len(q) = r + (n + Len(y))
      /\ \A i \in 1 .. (n + Len(y)) : q[r + i] = (b \o y)[i]
  BY ConcatProperties, LenProperties DEF Left, Cat, Str
<1> HIDE DEF q
<1>2. \A i \in 1 .. n : q[r + i] = b[i]
  BY SMTT(30), <1>1
<1>3. \A i \in 1 .. Len(y) : q[r + n + i] = y[i]
  <2> SUFFICES ASSUME NEW i \in 1 .. Len(y) PROVE q[r + n + i] = y[i]
    OBVIOUS
  <2>1. n + i \in 1 .. (n + Len(y)) /\ r + (n + i) = r + n + i
    BY SMTT(30), <1>1
  <2>2. (b \o y)[n + i] = y[i]
    BY SMTT(30), <1>1, ConcatProperties
  <2> QED BY <1>1, <2>1, <2>2
<1>4. SubSeq(q, r + 1, r + n) \in Seq(Byte) /\ Len(SubSeq(q, r + 1, r + n)) = n
  BY SMTT(30), <1>1, SubSeqProperties
<1>5. \A i \in 1 .. n : SubSeq(q, r + 1, r + n)[i] = q[r + i]
  BY SMTT(30), <1>1, SubSeqProperties
<1>6. SubSeq(q, r + 1, r + n) = b
  BY SMTT(30), <1>1, <1>2, <1>4, <1>5, SeqEqual
<1> QED BY <1>1, <1>3, <1>6 DEF q, Left

-----------------------------------------------------------------------------
LEMMA Streams == \A c \in Clients : c.kind = "socks" => Stream[c] \in Str
<1> SUFFICES ASSUME NEW c \in Clients, c.kind = "socks" PROVE Stream[c] \in Str
  OBVIOUS
<1>1. PICK g \in Str : Stream[c] = Cat(g, AtHeader(c))
  BY ZenonT(30), Layout
<1>2. AtHeader(c) \in Str
  BY Tails
<1> QED BY <1>1, <1>2, Catenation

(* A read of b, which is next, leaves y. *)
LEMMA TakeStep ==
    ASSUME NEW c \in Clients, c.kind = "socks", client = c, read \in Nat,
           NEW b \in Str, NEW y \in Str, NEW x, x = Cat(b, y), Left(c, read, x), Take(Len(b))
    PROVE  Bytes(Len(b)) = b /\ read' \in Nat /\ Left(c, read', y)
<1>1. SubSeq(Stream[c], read + 1, read + Len(b)) = b /\ Left(c, read + Len(b), y)
  BY ZenonT(30), Streams, Taken
<1>2. Len(b) \in Nat
  BY Catenation
<1> QED BY <1>1, <1>2 DEF Bytes, Take

(* The version and the length of the user name (GetUserPassword). *)
LEMMA StepHeader ==
    ASSUME NEW c \in Clients, c.kind = "socks", client = c, InStep(c), ReadHeader
    PROVE  InStep(c)'
<1> DEFINE b == <<UserAuthVersion, Len(c.user)>>
<1>1. b \in Str /\ Len(b) = 2 /\ b[1] = UserAuthVersion /\ b[2] = Len(c.user) /\ AtUser(c) \in Str
  BY Short, Small, ClientFields, Tails DEF UserAuthVersion
<1>2. read \in Nat /\ got = Parsed(<<>>, <<>>, NoAddr, 0) /\ Left(c, read, AtHeader(c)) /\ Take(2)
  BY DEF InStep, At, ReadHeader
<1>3. AtHeader(c) = Cat(b, AtUser(c))
  BY ZenonT(30) DEF AtHeader
<1> HIDE DEF b
<1>4. Bytes(2) = b /\ read' \in Nat /\ Left(c, read', AtUser(c))
  BY ZenonT(30), <1>1, <1>2, <1>3, TakeStep
<1>5. got' = [got EXCEPT !.need = Len(c.user)] /\ stage' = "user" /\ client' = c
  BY ZenonT(30), <1>1, <1>4 DEF ReadHeader
<1>6. got' = Parsed(<<>>, <<>>, NoAddr, Len(c.user))
  BY SMTT(30), <1>2, <1>5 DEF Parsed
<1> QED BY SMTT(30), <1>4, <1>5, <1>6 DEF InStep, At

(* The user name (GetUserPassword). *)
LEMMA StepUser ==
    ASSUME NEW c \in Clients, c.kind = "socks", client = c, InStep(c), ReadUser
    PROVE  InStep(c)'
<1>1. c.user \in Str /\ AtPassLen(c) \in Str
  BY ClientFields, Tails
<1>2. read \in Nat /\ got = Parsed(<<>>, <<>>, NoAddr, Len(c.user)) /\ Left(c, read, AtUser(c)) /\ Take(got.need)
  BY DEF InStep, At, ReadUser
<1>3. AtUser(c) = Cat(c.user, AtPassLen(c)) /\ got.need = Len(c.user)
  BY SMTT(30), <1>2 DEF AtUser, Parsed
<1>4. Bytes(got.need) = c.user /\ read' \in Nat /\ Left(c, read', AtPassLen(c))
  BY ZenonT(30), <1>1, <1>2, <1>3, TakeStep
<1>5. got' = [got EXCEPT !.user = c.user] /\ stage' = "passLen" /\ client' = c
  BY ZenonT(30), <1>4 DEF ReadUser
<1>6. got' = Parsed(c.user, <<>>, NoAddr, Len(c.user))
  BY SMTT(30), <1>2, <1>5 DEF Parsed
<1> QED BY SMTT(30), <1>4, <1>5, <1>6 DEF InStep, At

(* The length of the password (GetUserPassword). *)
LEMMA StepPassLen ==
    ASSUME NEW c \in Clients, c.kind = "socks", client = c, InStep(c), ReadPassLen
    PROVE  InStep(c)'
<1> DEFINE b == <<Len(c.pwd)>>
<1>1. b \in Str /\ Len(b) = 1 /\ b[1] = Len(c.pwd) /\ AtPass(c) \in Str
  BY Short, ClientFields, Tails
<1>2. read \in Nat /\ got = Parsed(c.user, <<>>, NoAddr, Len(c.user)) /\ Left(c, read, AtPassLen(c)) /\ Take(1)
  BY DEF InStep, At, ReadPassLen
<1>3. AtPassLen(c) = Cat(b, AtPass(c))
  BY ZenonT(30) DEF AtPassLen
<1> HIDE DEF b
<1>4. Bytes(1) = b /\ read' \in Nat /\ Left(c, read', AtPass(c))
  BY ZenonT(30), <1>1, <1>2, <1>3, TakeStep
<1>5. got' = [got EXCEPT !.need = Len(c.pwd)] /\ stage' = "pass" /\ client' = c
  BY ZenonT(30), <1>1, <1>4 DEF ReadPassLen
<1>6. got' = Parsed(c.user, <<>>, NoAddr, Len(c.pwd))
  BY SMTT(30), <1>2, <1>5 DEF Parsed
<1> QED BY SMTT(30), <1>4, <1>5, <1>6 DEF InStep, At

(* The password (GetUserPassword). *)
LEMMA StepPass ==
    ASSUME NEW c \in Clients, c.kind = "socks", client = c, InStep(c), ReadPass
    PROVE  InStep(c)'
<1>1. c.pwd \in Str /\ AtRequest(c) \in Str
  BY ClientFields, Tails
<1>2. read \in Nat /\ got = Parsed(c.user, <<>>, NoAddr, Len(c.pwd)) /\ Left(c, read, AtPass(c)) /\ Take(got.need)
  BY DEF InStep, At, ReadPass
<1>3. AtPass(c) = Cat(c.pwd, AtRequest(c)) /\ got.need = Len(c.pwd)
  BY SMTT(30), <1>2 DEF AtPass, Parsed
<1>4. Bytes(got.need) = c.pwd /\ read' \in Nat /\ Left(c, read', AtRequest(c))
  BY ZenonT(30), <1>1, <1>2, <1>3, TakeStep
<1>5. got' = [got EXCEPT !.pwd = c.pwd] /\ stage' = "valid" /\ client' = c
  BY ZenonT(30), <1>4 DEF ReadPass
<1>6. got' = Parsed(c.user, c.pwd, NoAddr, Len(c.pwd))
  BY SMTT(30), <1>2, <1>5 DEF Parsed
<1> QED BY SMTT(30), <1>4, <1>5, <1>6 DEF InStep, At

(* auth.Valid and the answer to it (socksTcpConn). *)
LEMMA StepValid ==
    ASSUME NEW c \in Clients, c.kind = "socks", client = c, InStep(c), Valid
    PROVE  InStep(c)'
<1>1. read \in Nat /\ got = Parsed(c.user, c.pwd, NoAddr, Len(c.pwd)) /\ Left(c, read, AtRequest(c))
  BY DEF InStep, At, Valid
<1>2. got' = got /\ read' = read /\ client' = c
  BY DEF Valid, Refuse
<1>3. got.user = c.user /\ got.pwd = c.pwd
  BY SMTT(30), <1>1 DEF Parsed
<1>4. stage' = "closed" \/ stage' = "request" \/ (stage' = "misread" /\ <<got.user, got.pwd>> \notin Accounts)
  BY ZenonT(30) DEF Valid, Refuse
<1> QED BY SMTT(30), <1>1, <1>2, <1>3, <1>4 DEF InStep, At

(* Version, command and reserved byte (ReadDestAddr). *)
LEMMA StepDestAddr ==
    ASSUME NEW c \in Clients, c.kind = "socks", client = c, InStep(c), ReadDestAddr
    PROVE  InStep(c)'
<1> DEFINE b == <<socks5Version, 1, 0>>
<1>1. b \in Str /\ Len(b) = 3 /\ b[1] = socks5Version /\ AtType(c) \in Str
  BY Short, Small, Tails DEF socks5Version
<1>2. read \in Nat /\ got = Parsed(c.user, c.pwd, NoAddr, Len(c.pwd)) /\ Left(c, read, AtRequest(c)) /\ Take(3)
  BY DEF InStep, At, ReadDestAddr
<1>3. AtRequest(c) = Cat(b, AtType(c))
  BY ZenonT(30) DEF AtRequest
<1> HIDE DEF b
<1>4. Bytes(3) = b /\ read' \in Nat /\ Left(c, read', AtType(c))
  BY ZenonT(30), <1>1, <1>2, <1>3, TakeStep
<1>5. got' = got /\ stage' = "addrType" /\ client' = c
  BY ZenonT(30), <1>1, <1>4 DEF ReadDestAddr
<1> QED BY SMTT(30), <1>2, <1>4, <1>5 DEF InStep, At

(* The address type (ReadAddrSpec). *)
LEMMA StepAddrType ==
    ASSUME NEW c \in Clients, c.kind = "socks", client = c, InStep(c), ReadAddrType
    PROVE  InStep(c)'
<1> DEFINE b == <<c.dest.type>>
           y == IF c.dest.type = fqdnAddress THEN AtLen(c) ELSE AtAddr(c)
<1>1. b \in Str /\ Len(b) = 1 /\ b[1] = c.dest.type /\ y \in Str
  BY Short, ClientFields, Tails
<1>2. read \in Nat /\ got = Parsed(c.user, c.pwd, NoAddr, Len(c.pwd)) /\ Left(c, read, AtType(c)) /\ Take(1)
  BY DEF InStep, At, ReadAddrType
<1>3. AtType(c) = Cat(b, y)
  BY ZenonT(30) DEF AtType
<1> HIDE DEF b, y
<1>4. Bytes(1) = b /\ read' \in Nat /\ Left(c, read', y)
  BY ZenonT(30), <1>1, <1>2, <1>3, TakeStep
<1>5. Bytes(1)[1] = c.dest.type /\ client' = c
  BY ZenonT(30), <1>1, <1>4 DEF ReadAddrType
<1>6. CASE c.dest.type \in {ipv4Address, ipv6Address}
  <2>1. AddrLen[c.dest.type] = Len(c.dest.addr)
    BY <1>6, ClientFields DEF AddrLen, ipv4Address, ipv6Address
  <2>2. got' = [got EXCEPT !.need = Len(c.dest.addr)] /\ stage' = "ip"
    BY <1>5, <1>6, <2>1 DEF ReadAddrType, ipv4Address, ipv6Address, fqdnAddress
  <2>3. got' = Parsed(c.user, c.pwd, NoAddr, Len(c.dest.addr))
    BY SMTT(30), <1>2, <2>2 DEF Parsed
  <2>4. Left(c, read', AtAddr(c))
    BY <1>4, <1>6 DEF y, ipv4Address, ipv6Address, fqdnAddress
  <2> QED BY SMTT(30), <1>4, <1>5, <1>6, <2>2, <2>3, <2>4 DEF InStep, At
<1>7. CASE c.dest.type = fqdnAddress
  <2>1. got' = got /\ stage' = "fqdnLen"
    BY <1>5, <1>7 DEF ReadAddrType, ipv4Address, ipv6Address, fqdnAddress
  <2>2. Left(c, read', AtLen(c))
    BY <1>4, <1>7 DEF y
  <2> QED BY SMTT(30), <1>2, <1>4, <1>5, <1>7, <2>1, <2>2 DEF InStep, At
<1>8. CASE c.dest.type \notin {ipv4Address, ipv6Address, fqdnAddress}
  <2>1. stage' = "misread"
    BY <1>5, <1>8 DEF ReadAddrType
  <2> QED BY SMTT(30), <1>4, <1>5, <1>8, <2>1 DEF InStep, At
<1> QED BY <1>6, <1>7, <1>8

(* The length of a name (ReadAddrSpec). *)
LEMMA StepFqdnLen ==
    ASSUME NEW c \in Clients, c.kind = "socks", client = c, InStep(c), ReadFqdnLen
    PROVE  InStep(c)'
<1> DEFINE b == <<Len(c.dest.addr)>>
<1>1. b \in Str /\ Len(b) = 1 /\ b[1] = Len(c.dest.addr) /\ AtAddr(c) \in Str
  BY Short, ClientFields, Tails
<1>2. /\ read \in Nat /\ got = Parsed(c.user, c.pwd, NoAddr, Len(c.pwd)) /\ Left(c, read, AtLen(c)) /\ Take(1)
      /\ c.dest.type = fqdnAddress
  BY DEF InStep, At, ReadFqdnLen
<1>3. AtLen(c) = Cat(b, AtAddr(c))
  BY ZenonT(30) DEF AtLen
<1> HIDE DEF b
<1>4. Bytes(1) = b /\ read' \in Nat /\ Left(c, read', AtAddr(c))
  BY ZenonT(30), <1>1, <1>2, <1>3, TakeStep
<1>5. got' = [got EXCEPT !.need = Len(c.dest.addr)] /\ stage' = "fqdn" /\ client' = c
  BY ZenonT(30), <1>1, <1>4 DEF ReadFqdnLen
<1>6. got' = Parsed(c.user, c.pwd, NoAddr, Len(c.dest.addr))
  BY SMTT(30), <1>2, <1>5 DEF Parsed
<1> QED BY SMTT(30), <1>2, <1>4, <1>5, <1>6 DEF InStep, At

(* The address (ReadAddrSpec). *)
LEMMA StepAddr ==
    ASSUME NEW c \in Clients, c.kind = "socks", client = c, InStep(c), ReadAddr
    PROVE  InStep(c)'
<1>1. c.dest.addr \in Str /\ AtPort(c) \in Str
  BY ClientFields, Tails
<1>2. /\ read \in Nat /\ got = Parsed(c.user, c.pwd, NoAddr, Len(c.dest.addr))
      /\ Left(c, read, AtAddr(c)) /\ Take(got.need) /\ stage \in {"ip", "fqdn"}
      /\ stage = "ip" => c.dest.type \in {ipv4Address, ipv6Address}
      /\ stage = "fqdn" => c.dest.type = fqdnAddress
  BY DEF InStep, At, ReadAddr
<1>3. AtAddr(c) = Cat(c.dest.addr, AtPort(c)) /\ got.need = Len(c.dest.addr)
  BY SMTT(30), <1>2 DEF AtAddr, Parsed
<1>4. Bytes(got.need) = c.dest.addr /\ read' \in Nat /\ Left(c, read', AtPort(c))
  BY ZenonT(30), <1>1, <1>2, <1>3, TakeStep
<1>5. /\ got' = IF stage = "ip" THEN [got EXCEPT !.dest.ip = c.dest.addr] ELSE [got EXCEPT !.dest.fqdn = c.dest.addr]
      /\ stage' = "port" /\ client' = c
  BY ZenonT(30), <1>4 DEF ReadAddr
<1>6. [Meant(c.dest) EXCEPT !.port = 0] =
         IF stage = "ip" THEN [NoAddr EXCEPT !.ip = c.dest.addr] ELSE [NoAddr EXCEPT !.fqdn = c.dest.addr]
  BY SMTT(30), <1>2 DEF Meant, NoAddr, ipv4Address, ipv6Address, fqdnAddress
<1>7. got' = Parsed(c.user, c.pwd, [Meant(c.dest) EXCEPT !.port = 0], Len(c.dest.addr))
  BY SMTT(30), <1>2, <1>5, <1>6 DEF Parsed, NoAddr
<1> QED BY SMTT(30), <1>2, <1>4, <1>5, <1>7 DEF InStep, At

(* The port (ReadAddrSpec). *)
LEMMA StepPort ==
    ASSUME NEW c \in Clients, c.kind = "socks", client = c, InStep(c), ReadPort
    PROVE  InStep(c)'
<1> DEFINE b == PortBytes(c.dest.port)
           d == Meant(c.dest)
<1>1. b \in Str /\ Len(b) = 2 /\ PortOf(b) = c.dest.port /\ c.data \in Str
  BY Ports, ClientFields
<1>2. /\ read \in Nat /\ got = Parsed(c.user, c.pwd, [d EXCEPT !.port = 0], Len(c.dest.addr))
      /\ Left(c, read, AtPort(c)) /\ Take(2)
  BY DEF InStep, At, ReadPort
<1>3. AtPort(c) = Cat(b, c.data)
  BY ZenonT(30) DEF AtPort
<1> HIDE DEF b
<1>4. Bytes(2) = b /\ read' \in Nat /\ Left(c, read', c.data)
  BY ZenonT(30), <1>1, <1>2, <1>3, TakeStep
<1>5. got' = [got EXCEPT !.dest.port = c.dest.port] /\ stage' = "dial" /\ client' = c
  BY ZenonT(30), <1>1, <1>4 DEF ReadPort
<1>6. got' = Parsed(c.user, c.pwd, d, Len(c.dest.addr))
  <2>1. \E f, i : d = [fqdn |-> f, ip |-> i, port |-> c.dest.port]
    BY ZenonT(30) DEF Meant
  <2>2. PICK f, i : d = [fqdn |-> f, ip |-> i, port |-> c.dest.port]
    BY ZenonT(30), <2>1
  <2> HIDE DEF d
  <2>3. [d EXCEPT !.port = 0] = [fqdn |-> f, ip |-> i, port |-> 0]
    BY SMTT(30), <2>2
  <2>4. got = Parsed(c.user, c.pwd, [fqdn |-> f, ip |-> i, port |-> 0], Len(c.dest.addr))
    BY ZenonT(30), <1>2, <2>3
  <2>5. got' = Parsed(c.user, c.pwd, [fqdn |-> f, ip |-> i, port |-> c.dest.port], Len(c.dest.addr))
    BY SMTT(30), <1>5, <2>4 DEF Parsed
  <2> QED BY ZenonT(30), <2>2, <2>5
<1> QED BY SMTT(30), <1>4, <1>5, <1>6 DEF InStep, At

(* The steps that read nothing. *)
LEMMA StepAside ==
    ASSUME NEW c \in Clients, c.kind = "socks", client = c, InStep(c),
           Arrive \/ Select \/ Dial \/ GiveUp \/ UNCHANGED vars5
    PROVE  InStep(c)'
<1>1. read' = read /\ got' = got /\ client' = c
  BY DEF Arrive, Select, Dial, GiveUp, vars5
<1>2. \/ stage' = stage \/ stage' = "closed"
      \/ (stage = "select" /\ stage' = "header") \/ (stage = "dial" /\ stage' = "relay")
  BY DEF Arrive, Select, Dial, GiveUp, vars5
<1>3. CASE stage' = stage
  BY <1>1, <1>3 DEF InStep, At
<1>4. CASE stage' = "closed"
  BY SMTT(30), <1>1, <1>4 DEF InStep, At
<1>5. CASE stage = "select" /\ stage' = "header"
  BY SMTT(30), <1>1, <1>5 DEF InStep, At
<1>6. CASE stage = "dial" /\ stage' = "relay"
  BY SMTT(30), <1>1, <1>6 DEF InStep, At
<1> QED BY <1>2, <1>3, <1>4, <1>5, <1>6

(* The first Read returned the greeting. *)
LEMMA StepFirst ==
    ASSUME NEW c \in Clients, c.kind = "socks", client = c,
           FirstRead, whole', got = Parsed(<<>>, <<>>, NoAddr, 0)
    PROVE  InStep(c)'
<1>1. PICK g \in Str, m \in Str, r \in Str :
         Messages(c) = <<g, m, r, c.data>> /\ Stream[c] = Cat(g, AtHeader(c))
  BY ZenonT(30), Layout
<1>2. Len(g) \in Nat /\ AtHeader(c) \in Str /\ Stream[c] \in Str
  BY Catenation, Tails, Streams
<1>3. Upto[c][1] = Len(g)
  BY SMTT(30), <1>1 DEF Upto
<1>4. read' = Len(g) /\ stage' = "select" /\ got' = got /\ client' = c
  BY <1>3 DEF FirstRead
<1>5. Left(c, 0, Stream[c])
  BY SMTT(30), <1>2 DEF Left, Str
<1>6. Left(c, 0 + Len(g), AtHeader(c))
  BY ZenonT(30), <1>1, <1>2, <1>5, Taken, 0 \in Nat
<1>7. Left(c, read', AtHeader(c))
  BY SMTT(30), <1>2, <1>4, <1>6
<1> QED BY SMTT(30), <1>2, <1>4, <1>7 DEF InStep, At

(* A client of HTTP has nothing to send after its head. *)
LEMMA HeadOnly ==
    ASSUME NEW c \in Clients, c.kind = "http"
    PROVE  /\ Len(c.head) \in Nat /\ Stream[c] \in Str /\ Len(Stream[c]) = Len(c.head)
           /\ \A i \in 1 .. 4 : Upto[c][i] = Len(c.head)
<1>1. c.head \in Str
  BY ZenonT(30), SocksAssumption DEF Str
<1>2. Messages(c) = <<c.head, <<>>, <<>>, <<>>>>
  BY ZenonT(30) DEF Messages
<1>3. /\ Messages(c)[1] = c.head /\ Messages(c)[2] = <<>>
      /\ Messages(c)[3] = <<>> /\ Messages(c)[4] = <<>>
  BY SMTT(30), <1>2
<1>4. Cat(c.head, <<>>) = c.head /\ Len(c.head) \in Nat
  BY <1>1, Catenation
<1>5. Stream[c] = c.head
  BY ZenonT(30), <1>3, <1>4 DEF Stream, Cat
<1>6. Upto[c] = <<Len(c.head), Len(c.head), Len(c.head), Len(c.head)>>
  BY ZenonT(30), <1>3, <1>4, <1>5 DEF Upto, Cat
<1>7. \A i \in 1 .. 4 : Upto[c][i] = Len(c.head)
  BY SMTT(30), <1>4, <1>6
<1> QED BY <1>1, <1>4, <1>5, <1>7

(* A client of HTTP whose short request was taken for a greeting is asked  *)
(* for an account and hears nothing else until the deadline.               *)
LEMMA StepHttp ==
    ASSUME client \in Clients, client.kind = "http", [Next5]_vars5,
           (whole /\ Silent) \/ (stage = "first" /\ ~whole), whole'
    PROVE  Silent'
<1>1. Len(client.head) \in Nat /\ \A i \in 1 .. 4 : Upto[client][i] = Len(client.head)
  BY HeadOnly
<1>2. client' = client
  BY DEF Next5, Arrive, FirstRead, Select, ReadHeader, ReadUser, ReadPassLen, ReadPass, Valid, ReadDestAddr,
         ReadAddrType, ReadFqdnLen, ReadAddr, ReadPort, Dial, GiveUp, vars5
<1>3. CASE stage = "first" /\ ~whole
  <2>1. FirstRead
    BY <1>3 DEF Next5, Arrive, Select, ReadHeader, ReadUser, ReadPassLen, ReadPass, Valid, ReadDestAddr,
         ReadAddrType, ReadFqdnLen, ReadAddr, ReadPort, Dial, GiveUp, vars5
  <2>2. sent = Len(client.head) /\ stage' = "select" /\ read' = sent /\ sent' = sent
    <3>1. sent = Upto[client][1] /\ sent <= MaxGreeting
      BY ZenonT(30), <2>1 DEF FirstRead
    <3> QED BY <1>1, <2>1, <3>1 DEF FirstRead
  <2> QED BY <1>2, <2>2 DEF Silent
<1>4. CASE whole /\ Silent
  <2>1. ~Arrive
    <3>1. (IF client.eager THEN 4 ELSE Invited) \in 1 .. 4
      BY SMTT(30) DEF Invited
    <3>2. Upto[client][IF client.eager THEN 4 ELSE Invited] = sent
      BY <1>1, <1>4, <3>1 DEF Silent
    <3> QED BY SMTT(30), <1>1, <1>4, <3>2 DEF Arrive, Silent
  <2>2. ~ReadHeader
    BY SMTT(30), <1>1, <1>4 DEF ReadHeader, Take, Readable, Silent
  <2>3. Select \/ GiveUp \/ UNCHANGED vars5
    BY ZenonT(30), <1>4, <2>1, <2>2 DEF Next5, FirstRead, ReadUser, ReadPassLen, ReadPass, Valid, ReadDestAddr,
         ReadAddrType, ReadFqdnLen, ReadAddr, ReadPort, Dial, Silent
  <2>4. read' = read /\ sent' = sent /\ (stage' = stage \/ stage' = "header" \/ stage' = "closed")
    BY <2>3 DEF Select, GiveUp, vars5
  <2> QED BY <1>2, <1>4, <2>4 DEF Silent
<1> QED BY <1>3, <1>4

-----------------------------------------------------------------------------
(* What the client is told. *)
LEMMA Reply ==
    ASSUME NEW b, b.fqdn = <<>>, b.ip \in Str, b.port \in Port, To4(b.ip) # <<>>
    PROVE  SendReply(SuccessReply, b) = Bound(b)
<1> DEFINE h == <<socks5Version, SuccessReply, 0>>
           t == <<ipv4Address>>
           i == To4(b.ip)
           q == PortBytes(b.port)
<1>1. h \in Str /\ t \in Str
  BY Short, Small DEF socks5Version, SuccessReply, ipv4Address
<1>2. i \in Str
  BY SMTT(30) DEF To4, Str
<1>3. q \in Str /\ uint16(b.port) = b.port
  BY Ports
<1>4. SendReply(SuccessReply, b) = Cat(Cat(h, Cat(t, i)), q)
  BY ZenonT(30), <1>3 DEF SendReply, Cat
<1>5. AddrBytes([type |-> ipv4Address, addr |-> i, port |-> b.port]) = Cat(Cat(Cat(t, <<>>), i), q)
  BY SMTT(30) DEF AddrBytes, Cat, ipv4Address, fqdnAddress
<1> HIDE DEF h, t, i, q
<1>6. Cat(t, <<>>) = t /\ Cat(t, i) \in Str
  BY <1>1, <1>2, Catenation
<1>7. Cat(Cat(h, Cat(t, i)), q) = Cat(h, Cat(Cat(t, i), q))
  BY <1>1, <1>3, <1>6, Associative
<1> QED BY ZenonT(30), <1>4, <1>5, <1>6, <1>7 DEF Bound, Cat, h, i

(* nil, which stands for an IPv6 exit, is an IPv4 address. *)
LEMMA ReplyNil ==
    /\ nil.fqdn = <<>> /\ nil.ip \in Str /\ nil.port \in Port /\ To4(nil.ip) # <<>>
  BY SMTT(30) DEF nil, Str, Byte, Port, To4

(* Append, spelled out for the three messages a client is sent. *)
LEMMA Appended1 == \A x : Append(<<>>, x) = <<x>>
  BY SMTT(30)

LEMMA Appended2 ==
    ASSUME NEW x, NEW y
    PROVE  Append(<<x>>, y) = <<x, y>>
<1> DEFINE S == {x, y}
<1>1. x \in S /\ y \in S
  OBVIOUS
<1> HIDE DEF S
<1>2. <<x>> \in Seq(S) /\ Len(<<x>>) = 1 /\ <<x>>[1] = x
  BY SMTT(30), <1>1
<1>3. <<x, y>> \in Seq(S) /\ Len(<<x, y>>) = 2 /\ <<x, y>>[1] = x /\ <<x, y>>[2] = y
  BY SMTT(30), <1>1
<1>4. PICK q \in Seq(S) : q = <<x>> /\ Len(q) = 1 /\ q[1] = x
  BY ZenonT(30), <1>2
<1>5. PICK t \in Seq(S) : t = <<x, y>> /\ Len(t) = 2 /\ t[1] = x /\ t[2] = y
  BY ZenonT(30), <1>3
<1>6. Append(q, y) \in Seq(S) /\ Len(Append(q, y)) = 2 /\ Append(q, y)[1] = x /\ Append(q, y)[2] = y
  BY SMTT(30), <1>1, <1>4, AppendProperties
<1>7. \A i \in 1 .. 2 : i = 1 \/ i = 2
  BY SMTT(30)
<1>8. Append(q, y) = t
  BY <1>5, <1>6, <1>7, SeqEqual
<1> QED BY ZenonT(30), <1>4, <1>5, <1>8

LEMMA Appended3 ==
    ASSUME NEW x, NEW y, NEW z
    PROVE  Append(<<x, y>>, z) = <<x, y, z>>
<1> DEFINE S == {x, y, z}
<1>1. x \in S /\ y \in S /\ z \in S
  OBVIOUS
<1> HIDE DEF S
<1>2. <<x, y>> \in Seq(S) /\ Len(<<x, y>>) = 2 /\ <<x, y>>[1] = x /\ <<x, y>>[2] = y
  BY SMTT(30), <1>1
<1>3. <<x, y, z>> \in Seq(S) /\ Len(<<x, y, z>>) = 3 /\ <<x, y, z>>[1] = x /\ <<x, y, z>>[2] = y /\ <<x, y, z>>[3] = z
  BY SMTT(30), <1>1
<1>4. PICK q \in Seq(S) : q = <<x, y>> /\ Len(q) = 2 /\ q[1] = x /\ q[2] = y
  BY ZenonT(30), <1>2
<1>5. PICK t \in Seq(S) : t = <<x, y, z>> /\ Len(t) = 3 /\ t[1] = x /\ t[2] = y /\ t[3] = z
  BY ZenonT(30), <1>3
<1>6. /\ Append(q, z) \in Seq(S) /\ Len(Append(q, z)) = 3
      /\ Append(q, z)[1] = x /\ Append(q, z)[2] = y /\ Append(q, z)[3] = z
  BY SMTT(30), <1>1, <1>4, AppendProperties
<1>7. \A i \in 1 .. 3 : i = 1 \/ i = 2 \/ i = 3
  BY SMTT(30)
<1>8. Append(q, z) = t
  BY <1>5, <1>6, <1>7, SeqEqual
<1> QED BY ZenonT(30), <1>4, <1>5, <1>8

(* Each message is written at its stage and at no other. *)
LEMMA ToldStep ==
    ASSUME Told, [Next5]_vars5
    PROVE  Told'
<1>1. /\ \A x : Append(<<>>, x) = <<x>>
      /\ \A x, y : Append(<<x>>, y) = <<x, y>>
      /\ \A x, y, z : Append(<<x, y>>, z) = <<x, y, z>>
  BY Appended1, Appended2, Appended3
<1>2. CASE Arrive \/ UNCHANGED vars5
  <2>1. stage' = stage /\ out' = out /\ bind' = bind
    BY <1>2 DEF Arrive, vars5
  <2> QED BY <2>1 DEF Told
<1>3. CASE FirstRead
  BY SMTT(30), <1>3 DEF Told, FirstRead
<1>4. CASE Select
  <2>1. out' = Append(<<>>, Asked) /\ stage' = "header"
    BY <1>4 DEF Select, Told, Send, Asked
  <2> QED BY SMTT(30), <1>1, <2>1 DEF Told
<1>5. CASE ReadHeader
  BY SMTT(30), <1>5 DEF Told, ReadHeader, Refuse
<1>6. CASE ReadUser \/ ReadPassLen \/ ReadPass \/ ReadDestAddr \/ ReadFqdnLen \/ ReadAddr \/ ReadPort
  BY SMTT(30), <1>6 DEF Told, ReadUser, ReadPassLen, ReadPass, ReadDestAddr, ReadFqdnLen, ReadAddr, ReadPort
<1>7. CASE Valid
  <2>1. out = <<Asked>> /\ stage' \in {"misread", "closed", "request"}
    BY <1>7 DEF Valid, Refuse, Told
  <2>2. stage' = "request" => out' = Append(out, Granted)
    BY <1>7 DEF Valid, Refuse, Send, Granted
  <2> QED BY SMTT(30), <1>1, <2>1, <2>2 DEF Told
<1>8. CASE ReadAddrType
  BY SMTT(30), <1>8 DEF Told, ReadAddrType
<1>9. CASE Dial
  <2>1. out = <<Asked, Granted>> /\ stage' \in {"relay", "closed"}
    BY <1>9 DEF Dial, Told
  <2>2. ASSUME stage' = "relay"
        PROVE  out' = Append(out, Bound(bind'))
    <3>1. bind' = nil \/ (bind' \in Binds /\ To4(bind'.ip) # <<>>)
      BY <1>9, <2>2 DEF Dial
    <3>2. bind'.fqdn = <<>> /\ bind'.ip \in Str /\ bind'.port \in Port /\ To4(bind'.ip) # <<>>
      BY <3>1, ReplyNil, SocksAssumption DEF Str
    <3>3. out' = Append(out, SendReply(SuccessReply, bind'))
      BY <1>9, <2>2 DEF Dial, Send
    <3> QED BY <3>2, <3>3, Reply
  <2> QED BY SMTT(30), <1>1, <2>1, <2>2 DEF Told
<1>10. CASE GiveUp
  BY SMTT(30), <1>10 DEF Told, GiveUp
<1> QED BY ZenonT(30), <1>2, <1>3, <1>4, <1>5, <1>6, <1>7, <1>8, <1>9, <1>10 DEF Next5

-----------------------------------------------------------------------------
(* HInv holds when a connection is accepted. *)
LEMMA HandshakeInit == Init5 => HInv
  BY SMTT(30) DEF Init5, HInv, Told, Parsed, Silent, InStep

(* Every step of the client, of the network and of the handler keeps HInv. *)
LEMMA HandshakeNext ==
    ASSUME HInv, [Next5]_vars5
    PROVE  HInv'
<1>1. client \in Clients /\ client' = client
  BY DEF HInv, Next5, Arrive, FirstRead, Select, ReadHeader, ReadUser, ReadPassLen, ReadPass, Valid,
         ReadDestAddr, ReadAddrType, ReadFqdnLen, ReadAddr, ReadPort, Dial, GiveUp, vars5
<1>2. CASE FirstRead
  <2>1. stage = "first" /\ ~whole /\ got = Parsed(<<>>, <<>>, NoAddr, 0) /\ stage' # "first"
    BY <1>2 DEF FirstRead, HInv
  <2>2. whole' /\ client.kind = "socks" => InStep(client)'
    BY <1>1, <1>2, <2>1, StepFirst
  <2>3. whole' /\ client.kind = "http" => Silent'
    BY <1>1, <2>1, StepHttp
  <2>4. stage' = "http" => client.kind = "http"
    BY <1>2 DEF FirstRead
  <2>5. Told'
    BY ToldStep DEF HInv
  <2> QED BY <1>1, <2>1, <2>2, <2>3, <2>4, <2>5 DEF HInv
<1>3. CASE ~FirstRead
  <2>1. whole' = whole
    BY <1>3 DEF Next5, Arrive, Select, ReadHeader, ReadUser, ReadPassLen, ReadPass, Valid,
         ReadDestAddr, ReadAddrType, ReadFqdnLen, ReadAddr, ReadPort, Dial, GiveUp, vars5
  <2>2. (stage' = "first" => stage = "first" /\ got' = got) /\ (stage' = "http" => stage = "http")
    BY <1>3 DEF Next5, Arrive, Select, ReadHeader, ReadUser, ReadPassLen, ReadPass, Valid, Refuse,
         ReadDestAddr, ReadAddrType, ReadFqdnLen, ReadAddr, ReadPort, Dial, GiveUp, vars5
  <2>3. whole' /\ client.kind = "socks" => InStep(client)'
    <3> SUFFICES ASSUME NEW c \in Clients, c = client, c.kind = "socks", InStep(c)
                 PROVE  InStep(c)'
      BY <1>1, <2>1 DEF HInv
    <3> QED BY ZenonT(30), <1>3, StepHeader, StepUser, StepPassLen, StepPass, StepValid, StepDestAddr, StepAddrType,
               StepFqdnLen, StepAddr, StepPort, StepAside DEF Next5
  <2>4. whole' /\ client.kind = "http" => Silent'
    BY <1>1, <2>1, StepHttp DEF HInv
  <2>5. Told'
    BY ToldStep DEF HInv
  <2> QED BY <1>1, <2>1, <2>2, <2>3, <2>4, <2>5 DEF HInv
<1> QED BY <1>2, <1>3

(* HInv is invariant: the reads stay in step however the bytes arrive. *)
LEMMA HandshakeInvariant == Spec5 => []HInv
  BY PTL, HandshakeInit, HandshakeNext DEF Spec5

(* A client whose greeting came alone in the first Read is turned away as  *)
(* malformed or unknown only when its account or its address type is,      *)
(* whatever the clients, the accounts and the way the bytes arrive         *)
(* (handlerTcpConn, GetUserPassword, ReadDestAddr).                        *)
THEOREM InStepForGood == Spec5 => []MisreadWithReason
<1>1. HInv => MisreadWithReason
  BY SocksAssumption DEF HInv, InStep, MisreadWithReason
<1> QED BY PTL, <1>1, HandshakeInvariant

(* Such a client is relayed only for the account and to the destination it *)
(* sent, from the first byte behind its request, after it was told the     *)
(* address the target connection is bound to; and nobody but an HTTP       *)
(* client reaches the HTTP handler (socksTcpConn, ReadDestAddr,            *)
(* SendReply).                                                             *)
THEOREM ServedInStep == Spec5 => [](whole \/ stage # "relay" => ServedAsAsked)
<1>1. HInv => (whole \/ stage # "relay" => ServedAsAsked)
  <2> SUFFICES ASSUME HInv, stage = "relay", whole
               PROVE  ServedAsAsked
    BY DEF HInv, ServedAsAsked
  <2>1. client \in Clients /\ client.kind = "socks" /\ InStep(client)
    BY SocksAssumption DEF HInv, Silent
  <2>2. PICK c \in Clients : c = client
    BY <2>1
  <2>3. got = Parsed(c.user, c.pwd, Meant(c.dest), Len(c.dest.addr)) /\ Left(c, read, c.data) /\ read \in Nat
    BY SMTT(30), <2>1, <2>2 DEF InStep, At
  <2>4. got.user = c.user /\ got.pwd = c.pwd /\ got.dest = Meant(c.dest)
    BY SMTT(30), <2>3 DEF Parsed
  <2>5. read = Upto[c][3]
    <3>1. PICK g \in Str, m \in Str, r \in Str :
             Messages(c) = <<g, m, r, c.data>> /\ Stream[c] = Cat(Cat(Cat(g, m), r), c.data)
      BY ZenonT(30), <2>1, <2>2, Layout
    <3>2. Upto[c][3] = Len(Cat(Cat(g, m), r))
      BY SMTT(30), <3>1 DEF Upto, Cat
    <3>3. PICK d \in Str : d = Cat(Cat(g, m), r)
      BY Catenation
    <3>4. c.data \in Str
      BY <2>1, <2>2, ClientFields
    <3>5. Len(Cat(d, c.data)) = Len(d) + Len(c.data) /\ Len(d) \in Nat /\ Len(c.data) \in Nat
      BY <3>4, Catenation
    <3>6. Len(Cat(d, c.data)) = read + Len(c.data)
      BY <2>3, <3>1, <3>3 DEF Left
    <3> QED BY SMTT(30), <2>3, <3>2, <3>3, <3>5, <3>6
  <2>6. out = <<Asked, Granted, Bound(bind)>>
    BY DEF HInv, Told
  <2> QED BY <2>1, <2>2, <2>4, <2>5, <2>6 DEF ServedAsAsked, Asked, Granted, Bound
<1> QED BY PTL, <1>1, HandshakeInvariant

-----------------------------------------------------------------------------
(* A client whose first Read did not return its greeting.                  *)

(* The bytes of c from the k + 1st to the r-th are x. *)
Piece(c, k, r, x) ==
    r <= Len(Stream[c]) /\ r = k + Len(x) /\ SubSeq(Stream[c], k + 1, r) = x

(* An authentication message up to its user name, and up to the length of  *)
(* its password.                                                           *)
UptoUser(u) == Cat(<<UserAuthVersion, Len(u)>>, u)
UptoLen(u, n) == Cat(UptoUser(u), <<n>>)

(* The handler takes the bytes of c behind the k-th for an authentication  *)
(* message; it is at stage st, has parsed g and read r bytes.              *)
StrayAt(c, k, st, g, r, u, p, n) ==
    /\ g = Parsed(u, p, NoAddr, n) /\ Len(u) \in Byte
    /\ st \in {"select", "header"} => r = k
    /\ st = "user" => Piece(c, k, r, <<UserAuthVersion, n>>)
    /\ st = "passLen" => Piece(c, k, r, UptoUser(u))
    /\ st = "pass" => Piece(c, k, r, UptoLen(u, n))
    /\ st = "valid" => Piece(c, k, r, AccountBytes(u, p))

(* It does so and has not got over that message. *)
Astray(c, k) ==
    /\ read \in Nat /\ read <= sent
    /\ stage \in {"select", "header", "user", "passLen", "pass", "valid", "misread", "closed"}
    /\ \E u \in Str, p \in Str, n \in Byte : StrayAt(c, k, stage, got, read, u, p, n)

OutOfStep(c) == \E k \in 1 .. MaxGreeting : k # Upto[c][1] /\ Astray(c, k)

(* The inductive invariant that covers these clients. *)
CutInv ==
    /\ sent \in Nat /\ sent <= Len(Stream[client])
    /\ stage = "first" => read = 0
    /\ ~whole => stage \in {"first", "http", "closed"} \/ OutOfStep(client)

(* Every message ends within the stream. *)
LEMMA Lengths ==
    ASSUME NEW c \in Clients
    PROVE  /\ Stream[c] \in Str
           /\ \A i \in 1 .. 4 : Upto[c][i] \in Nat /\ Upto[c][i] <= Len(Stream[c])
<1>1. CASE c.kind = "http"
  BY <1>1, HeadOnly
<1>2. CASE c.kind = "socks"
  <2>1. PICK g \in Str, m \in Str, r \in Str :
           Messages(c) = <<g, m, r, c.data>> /\ Stream[c] = Cat(Cat(Cat(g, m), r), c.data)
    BY ZenonT(30), <1>2, Layout
  <2>2. Upto[c] = <<Len(g), Len(Cat(g, m)), Len(Cat(Cat(g, m), r)), Len(Stream[c])>>
    <3>1. Messages(c)[1] = g /\ Messages(c)[2] = m /\ Messages(c)[3] = r
      BY SMTT(30), <2>1
    <3> QED BY ZenonT(30), <3>1 DEF Upto, Cat
  <2>3. c.data \in Str /\ Stream[c] \in Str
    BY <1>2, ClientFields, Streams
  <2>4. PICK d \in Str, e \in Str : d = Cat(g, m) /\ e = Cat(d, r)
    BY Catenation
  <2>5. /\ Len(g) \in Nat /\ Len(m) \in Nat /\ Len(r) \in Nat /\ Len(c.data) \in Nat
        /\ Len(d) = Len(g) + Len(m) /\ Len(e) = Len(d) + Len(r) /\ Len(Stream[c]) = Len(e) + Len(c.data)
    BY <2>1, <2>3, <2>4, Catenation
  <2>6. Upto[c] = <<Len(g), Len(d), Len(e), Len(Stream[c])>>
    BY ZenonT(30), <2>2, <2>4
  <2>7. /\ Upto[c][1] = Len(g) /\ Upto[c][2] = Len(d)
        /\ Upto[c][3] = Len(e) /\ Upto[c][4] = Len(Stream[c])
    BY SMTT(30), <2>6
  <2>8. \A i \in 1 .. 4 : i = 1 \/ i = 2 \/ i = 3 \/ i = 4
    BY SMTT(30)
  <2>9. /\ Len(g) \in Nat /\ Len(g) <= Len(Stream[c]) /\ Len(d) \in Nat /\ Len(d) <= Len(Stream[c])
        /\ Len(e) \in Nat /\ Len(e) <= Len(Stream[c]) /\ Len(Stream[c]) \in Nat /\ Len(Stream[c]) <= Len(Stream[c])
    <3>1. PICK i \in Nat, j \in Nat, k \in Nat, l \in Nat :
             i = Len(g) /\ j = Len(m) /\ k = Len(r) /\ l = Len(c.data)
      BY <2>5
    <3>2. Len(g) = i /\ Len(d) = i + j /\ Len(e) = i + j + k /\ Len(Stream[c]) = i + j + k + l
      BY ZenonT(30), <2>5, <3>1
    <3>3. \A n \in {i, i + j, i + j + k, i + j + k + l} : n \in Nat /\ n <= i + j + k + l
      BY SMTT(30)
    <3> QED BY ZenonT(30), <3>2, <3>3
  <2>10. \A i \in 1 .. 4 : Upto[c][i] \in Nat /\ Upto[c][i] <= Len(Stream[c])
    BY ZenonT(30), <2>7, <2>8, <2>9
  <2> QED BY <2>3, <2>10
<1> QED BY <1>1, <1>2, SocksAssumption

(* A read makes a piece longer. *)
LEMMA Grown ==
    ASSUME NEW c \in Clients, NEW k \in Nat, NEW r \in Nat, NEW n \in Nat, NEW x \in Str,
           Piece(c, k, r, x), r + n <= Len(Stream[c])
    PROVE  \E b \in Str : /\ b = SubSeq(Stream[c], r + 1, r + n) /\ Len(b) = n
                          /\ Piece(c, k, r + n, Cat(x, b))
<1>1. PICK q \in Str, m \in Nat : /\ q = Stream[c] /\ m = Len(x) /\ r = k + m
                                  /\ SubSeq(q, k + 1, k + m) = x
  BY Lengths, Catenation DEF Piece
<1>2. k + m + n <= Len(q) /\ r + n = k + (m + n) /\ r + n = k + m + n
  BY SMTT(30), <1>1
<1>3. PICK b \in Str : b = SubSeq(q, r + 1, r + n) /\ Len(b) = n
  <2>1. r + n <= Len(q)
    BY ZenonT(30), <1>1
  <2> QED BY ZenonT(30), <2>1, Slices
<1>4. Cat(x, b) = SubSeq(q, k + 1, r + n)
  <2>0. Meet(q, k, m, n)
    BY ZenonT(30), <1>2, Adjacent
  <2>1. Cat(SubSeq(q, k + 1, k + m), SubSeq(q, k + m + 1, k + m + n)) = SubSeq(q, k + 1, k + m + n)
    BY ZenonT(30), <2>0 DEF Meet
  <2> QED BY ZenonT(30), <1>1, <1>2, <1>3, <2>1
<1>5. Len(Cat(x, b)) = m + n
  <2>1. Len(Cat(x, b)) = Len(x) + Len(b)
    BY Catenation
  <2> QED BY ZenonT(30), <1>1, <1>3, <2>1
<1> QED BY ZenonT(30), <1>1, <1>2, <1>3, <1>4, <1>5 DEF Piece

LEMMA Bytewise ==
    /\ \A b \in Str : Len(b) = 1 => b = <<b[1]>> /\ b[1] \in Byte
    /\ \A b \in Str : Len(b) = 2 => b = <<b[1], b[2]>> /\ b[1] \in Byte /\ b[2] \in Byte
<1>1. ASSUME NEW b \in Str, Len(b) = 1 PROVE b = <<b[1]>> /\ b[1] \in Byte
  BY SMTT(30), <1>1 DEF Str
<1>2. ASSUME NEW b \in Str, Len(b) = 2 PROVE b = <<b[1], b[2]>> /\ b[1] \in Byte /\ b[2] \in Byte
  BY SMTT(30), <1>2 DEF Str
<1> QED BY <1>1, <1>2

LEMMA ByteBounds == \A n \in Byte : n \in Nat
  BY SMTT(30) DEF Byte

(* A read behind a piece. *)
LEMMA ReadOn ==
    ASSUME NEW c \in Clients, client = c, NEW k \in Nat, NEW n \in Nat, NEW x \in Str,
           read \in Nat, sent \in Nat, sent <= Len(Stream[c]), Piece(c, k, read, x), Take(n)
    PROVE  \E b \in Str : /\ Bytes(n) = b /\ Len(b) = n /\ read' \in Nat /\ read' <= sent
                          /\ Piece(c, k, read', Cat(x, b))
<1>1. PICK l \in Nat : l = Len(Stream[c])
  BY Lengths, Catenation
<1>2. sent - read >= n /\ read' = read + n /\ sent <= l
  BY <1>1 DEF Take, Readable
<1>3. read + n \in Nat /\ read + n <= sent /\ read + n <= l
  BY SMTT(30), <1>2
<1>4. PICK b \in Str : b = SubSeq(Stream[c], read + 1, read + n) /\ Len(b) = n /\ Piece(c, k, read + n, Cat(x, b))
  BY ZenonT(30), <1>1, <1>3, Grown
<1> QED BY ZenonT(30), <1>2, <1>3, <1>4 DEF Bytes

LEMMA StrayHeader ==
    ASSUME NEW c \in Clients, client = c, NEW k \in Nat, sent \in Nat, sent <= Len(Stream[c]),
           Astray(c, k), ReadHeader
    PROVE  Astray(c, k)'
<1>1. PICK u \in Str, p \in Str, n \in Byte : StrayAt(c, k, "header", got, read, u, p, n)
  BY DEF Astray, ReadHeader
<1>2. read = k /\ read \in Nat /\ Take(2) /\ got = Parsed(u, p, NoAddr, n) /\ Len(u) \in Byte
  BY <1>1 DEF Astray, StrayAt, ReadHeader
<1>3. Piece(c, k, read, <<>>)
  <2>1. SubSeq(Stream[c], k + 1, k) = <<>> /\ k = k + 0
    BY SMTT(30), SubSeqEmpty
  <2>2. read <= Len(Stream[c])
    <3>1. PICK l \in Nat : l = Len(Stream[c])
      BY Lengths, Catenation
    <3> QED BY SMTT(30), <1>2, <3>1 DEF Astray
  <2> QED BY ZenonT(30), <1>2, <2>1, <2>2, Catenation DEF Piece
<1>4. PICK b \in Str : /\ Bytes(2) = b /\ Len(b) = 2 /\ read' \in Nat /\ read' <= sent
                       /\ Piece(c, k, read', Cat(<<>>, b))
  <2>1. <<>> \in Str /\ 2 \in Nat
    BY Catenation
  <2> QED BY ZenonT(30), <1>2, <1>3, <2>1, ReadOn
<1>5. b = <<b[1], b[2]>> /\ b[2] \in Byte /\ Cat(<<>>, b) = b
  BY <1>4, Bytewise, Catenation
<1>6. sent' = sent
  BY DEF ReadHeader
<1>7. CASE b[1] # UserAuthVersion
  <2>1. stage' = "misread" /\ got' = got
    BY <1>4, <1>7 DEF ReadHeader, Refuse
  <2>2. StrayAt(c, k, stage', got', read', u, p, n)
    BY SMTT(30), <1>2, <2>1 DEF StrayAt
  <2> QED BY ZenonT(30), <1>4, <1>6, <2>1, <2>2 DEF Astray
<1>8. CASE b[1] = UserAuthVersion
  <2>1. stage' = "user" /\ got' = [got EXCEPT !.need = b[2]]
    BY <1>4, <1>8 DEF ReadHeader
  <2>2. got' = Parsed(u, p, NoAddr, b[2])
    BY SMTT(30), <1>2, <2>1 DEF Parsed
  <2>3. Piece(c, k, read', <<UserAuthVersion, b[2]>>)
    BY ZenonT(30), <1>4, <1>5, <1>8
  <2>4. StrayAt(c, k, stage', got', read', u, p, b[2])
    BY SMTT(30), <1>2, <2>1, <2>2, <2>3 DEF StrayAt
  <2> QED BY ZenonT(30), <1>4, <1>5, <1>6, <2>1, <2>4 DEF Astray
<1> QED BY <1>7, <1>8

LEMMA StrayUser ==
    ASSUME NEW c \in Clients, client = c, NEW k \in Nat, sent \in Nat, sent <= Len(Stream[c]),
           Astray(c, k), ReadUser
    PROVE  Astray(c, k)'
<1>1. PICK u \in Str, p \in Str, n \in Byte : StrayAt(c, k, "user", got, read, u, p, n)
  BY DEF Astray, ReadUser
<1>2. /\ Piece(c, k, read, <<UserAuthVersion, n>>) /\ read \in Nat /\ Take(got.need)
      /\ got = Parsed(u, p, NoAddr, n)
  BY <1>1 DEF Astray, StrayAt, ReadUser
<1>3. got.need = n /\ n \in Nat
  BY SMTT(30), <1>2, ByteBounds DEF Parsed
<1>4. <<UserAuthVersion, n>> \in Str
  BY Short, Small DEF UserAuthVersion
<1>5. PICK b \in Str : /\ Bytes(n) = b /\ Len(b) = n /\ read' \in Nat /\ read' <= sent
                       /\ Piece(c, k, read', Cat(<<UserAuthVersion, n>>, b))
  BY ZenonT(30), <1>2, <1>3, <1>4, ReadOn
<1>6. sent' = sent /\ stage' = "passLen" /\ got' = [got EXCEPT !.user = b]
  BY ZenonT(30), <1>3, <1>5 DEF ReadUser
<1>7. got' = Parsed(b, p, NoAddr, n)
  BY SMTT(30), <1>2, <1>6 DEF Parsed
<1>8. Piece(c, k, read', UptoUser(b))
  BY ZenonT(30), <1>5 DEF UptoUser
<1>9. StrayAt(c, k, stage', got', read', b, p, n)
  BY SMTT(30), <1>5, <1>6, <1>7, <1>8 DEF StrayAt
<1> QED BY ZenonT(30), <1>5, <1>6, <1>9 DEF Astray

LEMMA StrayPassLen ==
    ASSUME NEW c \in Clients, client = c, NEW k \in Nat, sent \in Nat, sent <= Len(Stream[c]),
           Astray(c, k), ReadPassLen
    PROVE  Astray(c, k)'
<1>1. PICK u \in Str, p \in Str, n \in Byte : StrayAt(c, k, "passLen", got, read, u, p, n)
  BY DEF Astray, ReadPassLen
<1>2. /\ Piece(c, k, read, UptoUser(u)) /\ read \in Nat /\ Take(1)
      /\ got = Parsed(u, p, NoAddr, n) /\ Len(u) \in Byte
  BY <1>1 DEF Astray, StrayAt, ReadPassLen
<1>3. UptoUser(u) \in Str /\ 1 \in Nat
  BY <1>2, Short, Small, Catenation DEF UptoUser, UserAuthVersion
<1>4. PICK b \in Str : /\ Bytes(1) = b /\ Len(b) = 1 /\ read' \in Nat /\ read' <= sent
                       /\ Piece(c, k, read', Cat(UptoUser(u), b))
  BY ZenonT(30), <1>2, <1>3, ReadOn
<1>5. b = <<b[1]>> /\ b[1] \in Byte
  BY <1>4, Bytewise
<1>6. sent' = sent /\ stage' = "pass" /\ got' = [got EXCEPT !.need = b[1]]
  BY ZenonT(30), <1>4 DEF ReadPassLen
<1>7. got' = Parsed(u, p, NoAddr, b[1])
  BY SMTT(30), <1>2, <1>6 DEF Parsed
<1>8. Piece(c, k, read', UptoLen(u, b[1]))
  BY ZenonT(30), <1>4, <1>5 DEF UptoLen
<1>9. StrayAt(c, k, stage', got', read', u, p, b[1])
  BY SMTT(30), <1>2, <1>6, <1>7, <1>8 DEF StrayAt
<1> QED BY ZenonT(30), <1>4, <1>5, <1>6, <1>9 DEF Astray

LEMMA StrayPass ==
    ASSUME NEW c \in Clients, client = c, NEW k \in Nat, sent \in Nat, sent <= Len(Stream[c]),
           Astray(c, k), ReadPass
    PROVE  Astray(c, k)'
<1>1. PICK u \in Str, p \in Str, n \in Byte : StrayAt(c, k, "pass", got, read, u, p, n)
  BY DEF Astray, ReadPass
<1>2. /\ Piece(c, k, read, UptoLen(u, n)) /\ read \in Nat /\ Take(got.need)
      /\ got = Parsed(u, p, NoAddr, n) /\ Len(u) \in Byte
  BY <1>1 DEF Astray, StrayAt, ReadPass
<1>3. got.need = n /\ n \in Nat
  BY SMTT(30), <1>2, ByteBounds DEF Parsed
<1>4. UptoLen(u, n) \in Str
  <2>1. UptoUser(u) \in Str /\ <<n>> \in Str
    BY <1>2, Short, Small, Catenation DEF UptoUser, UserAuthVersion
  <2> QED BY <2>1, Catenation DEF UptoLen
<1>5. PICK b \in Str : /\ Bytes(n) = b /\ Len(b) = n /\ read' \in Nat /\ read' <= sent
                       /\ Piece(c, k, read', Cat(UptoLen(u, n), b))
  BY ZenonT(30), <1>2, <1>3, <1>4, ReadOn
<1>6. sent' = sent /\ stage' = "valid" /\ got' = [got EXCEPT !.pwd = b]
  BY ZenonT(30), <1>3, <1>5 DEF ReadPass
<1>7. got' = Parsed(u, b, NoAddr, n)
  BY SMTT(30), <1>2, <1>6 DEF Parsed
<1>8. Piece(c, k, read', AccountBytes(u, b))
  BY ZenonT(30), <1>5 DEF UptoLen, UptoUser, AccountBytes, Cat
<1>9. StrayAt(c, k, stage', got', read', u, b, n)
  BY SMTT(30), <1>2, <1>6, <1>7, <1>8 DEF StrayAt
<1> QED BY ZenonT(30), <1>5, <1>6, <1>9 DEF Astray

(* auth.Valid stops it, unless the bytes spell an account. *)
LEMMA StrayValid ==
    ASSUME NEW c \in Clients, client = c, NEW k \in Nat, ~Spells(c, k), Astray(c, k), Valid
    PROVE  Astray(c, k)'
<1>1. PICK u \in Str, p \in Str, n \in Byte : StrayAt(c, k, "valid", got, read, u, p, n)
  BY DEF Astray, Valid
<1>2. /\ Piece(c, k, read, AccountBytes(u, p)) /\ got = Parsed(u, p, NoAddr, n) /\ Len(u) \in Byte
  BY <1>1 DEF Astray, StrayAt, Valid
<1>3. got.user = u /\ got.pwd = p
  BY SMTT(30), <1>2 DEF Parsed
<1>4. <<u, p>> \notin Accounts
  <2> SUFFICES ASSUME <<u, p>> \in Accounts PROVE Spells(c, k)
    OBVIOUS
  <2>1. <<u, p>>[1] = u /\ <<u, p>>[2] = p
    BY SMTT(30)
  <2> QED BY ZenonT(30), <1>2, <2>1 DEF Spells, Piece
<1>5. /\ stage' = "misread" /\ got' = got /\ read' = read /\ sent' = sent
  BY <1>3, <1>4 DEF Valid, Refuse
<1>6. StrayAt(c, k, stage', got', read', u, p, n)
  BY SMTT(30), <1>2, <1>5 DEF StrayAt
<1> QED BY ZenonT(30), <1>5, <1>6 DEF Astray

(* The steps that read nothing. *)
LEMMA StrayAside ==
    ASSUME NEW c \in Clients, client = c, NEW k \in Nat, sent \in Nat, sent' \in Nat, sent <= sent',
           Astray(c, k), Arrive \/ Select \/ GiveUp \/ UNCHANGED vars5
    PROVE  Astray(c, k)'
<1>1. PICK u \in Str, p \in Str, n \in Byte : StrayAt(c, k, stage, got, read, u, p, n)
  BY DEF Astray
<1>2. read' = read /\ got' = got
  BY DEF Arrive, Select, GiveUp, vars5
<1>3. read' \in Nat /\ read' <= sent'
  BY SMTT(30), <1>2 DEF Astray
<1>4. stage' = stage \/ stage' = "closed" \/ (stage = "select" /\ stage' = "header")
  BY DEF Arrive, Select, GiveUp, vars5
<1>5. StrayAt(c, k, stage', got', read', u, p, n)
  BY SMTT(30), <1>1, <1>2, <1>4 DEF StrayAt
<1>6. stage' \in {"select", "header", "user", "passLen", "pass", "valid", "misread", "closed"}
  BY <1>4 DEF Astray
<1> QED BY ZenonT(30), <1>3, <1>5, <1>6 DEF Astray

LEMMA CutInit == Init5 => CutInv
<1> SUFFICES ASSUME Init5 PROVE CutInv
  OBVIOUS
<1>1. client \in Clients /\ sent = 0 /\ stage = "first" /\ read = 0
  BY DEF Init5
<1>2. Len(Stream[client]) \in Nat
  BY <1>1, Lengths, Catenation
<1> QED BY SMTT(30), <1>1, <1>2 DEF CutInv

(* When no other part of a stream can be taken for an account, a client    *)
(* whose greeting was cut or glued to what follows gets no further than    *)
(* the authentication.                                                     *)
LEMMA CutNext ==
    ASSUME Unambiguous, HInv, CutInv, [Next5]_vars5
    PROVE  CutInv'
<1>1. PICK c \in Clients : client = c /\ client' = c
  BY DEF HInv, Next5, Arrive, FirstRead, Select, ReadHeader, ReadUser, ReadPassLen, ReadPass, Valid,
         ReadDestAddr, ReadAddrType, ReadFqdnLen, ReadAddr, ReadPort, Dial, GiveUp, vars5
<1>2. sent \in Nat /\ sent <= Len(Stream[c]) /\ Len(Stream[c]) \in Nat
  BY <1>1, Lengths, Catenation DEF CutInv
<1>3. sent' \in Nat /\ sent <= sent' /\ sent' <= Len(Stream[c])
  <2>1. CASE Arrive
    <3>1. PICK i \in 1 .. 4 : sent' \in (sent + 1) .. Upto[c][i]
      BY <1>1, <2>1 DEF Arrive, Invited
    <3>2. Upto[c][i] \in Nat /\ Upto[c][i] <= Len(Stream[c])
      BY Lengths
    <3> QED BY SMTT(30), <1>2, <3>1, <3>2
  <2>2. CASE ~Arrive
    <3>1. sent' = sent
      BY <2>2 DEF Next5, FirstRead, Select, ReadHeader, ReadUser, ReadPassLen, ReadPass, Valid,
         ReadDestAddr, ReadAddrType, ReadFqdnLen, ReadAddr, ReadPort, Dial, GiveUp, vars5
    <3> QED BY SMTT(30), <1>2, <3>1
  <2> QED BY <2>1, <2>2
<1>4. CASE FirstRead
  <2>1. read' = sent /\ got' = got /\ got = Parsed(<<>>, <<>>, NoAddr, 0) /\ sent' = sent /\ stage' # "first"
    BY <1>4 DEF FirstRead, HInv
  <2>2. sent >= 1
    BY SMTT(30), <1>2, <1>4 DEF FirstRead, CutInv, Readable
  <2>3. CASE ~whole' /\ stage' \notin {"http", "closed"}
    <3>1. stage' = "select" /\ sent <= MaxGreeting /\ sent # Upto[c][1]
      BY <1>1, <1>4, <2>3 DEF FirstRead
    <3>2. PICK k \in 1 .. MaxGreeting : k = sent
      BY SMTT(30), <1>2, <2>2, <3>1, SocksAssumption
    <3>3. StrayAt(c, k, stage', got', read', <<>>, <<>>, 0)
      BY SMTT(30), <2>1, <3>1, <3>2, Catenation, Small DEF StrayAt
    <3>4. <<>> \in Str /\ 0 \in Byte /\ read' \in Nat /\ read' <= sent'
      BY <1>3, <2>1, Catenation, Small
    <3>5. Astray(c, k)'
      BY ZenonT(30), <3>1, <3>3, <3>4 DEF Astray
    <3> QED BY <1>1, <1>3, <2>1, <3>1, <3>2, <3>5 DEF CutInv, OutOfStep
  <2> QED BY <1>1, <1>3, <2>1, <2>3 DEF CutInv, OutOfStep
<1>5. CASE ~FirstRead
  <2>1. whole' = whole /\ (stage' = "first" => stage = "first" /\ read' = read)
    BY <1>5 DEF Next5, Refuse, Arrive, Select, ReadHeader, ReadUser, ReadPassLen, ReadPass, Valid,
         ReadDestAddr, ReadAddrType, ReadFqdnLen, ReadAddr, ReadPort, Dial, GiveUp, vars5
  <2>2. CASE whole
    BY <1>1, <1>3, <2>1, <2>2 DEF CutInv, OutOfStep
  <2>3. CASE stage \in {"first", "http", "closed"}
    <3>1. stage' \in {"first", "http", "closed"}
      BY <1>5, <2>3 DEF Next5, Arrive, Select, ReadHeader, ReadUser, ReadPassLen, ReadPass, Valid,
         ReadDestAddr, ReadAddrType, ReadFqdnLen, ReadAddr, ReadPort, Dial, GiveUp, vars5
    <3> QED BY <1>1, <1>3, <2>1, <3>1 DEF CutInv, OutOfStep
  <2>4. CASE OutOfStep(c)
    <3>1. PICK k \in 1 .. MaxGreeting : k # Upto[c][1] /\ Astray(c, k)
      BY <2>4 DEF OutOfStep
    <3>2. k \in Nat /\ ~Spells(c, k)
      BY <3>1 DEF Unambiguous
    <3>3. ~ReadDestAddr /\ ~ReadAddrType /\ ~ReadFqdnLen /\ ~ReadAddr /\ ~ReadPort /\ ~Dial
      BY <3>1 DEF Astray, ReadDestAddr, ReadAddrType, ReadFqdnLen, ReadAddr, ReadPort, Dial
    <3>4. ReadHeader => Astray(c, k)'
      BY ZenonT(30), <1>1, <1>2, <3>1, <3>2, StrayHeader
    <3>5. ReadUser => Astray(c, k)'
      BY ZenonT(30), <1>1, <1>2, <3>1, <3>2, StrayUser
    <3>6. ReadPassLen => Astray(c, k)'
      BY ZenonT(30), <1>1, <1>2, <3>1, <3>2, StrayPassLen
    <3>7. ReadPass => Astray(c, k)'
      BY ZenonT(30), <1>1, <1>2, <3>1, <3>2, StrayPass
    <3>8. Valid => Astray(c, k)'
      BY ZenonT(30), <1>1, <3>1, <3>2, StrayValid
    <3>9. Arrive \/ Select \/ GiveUp \/ UNCHANGED vars5 => Astray(c, k)'
      BY ZenonT(30), <1>1, <1>2, <1>3, <3>1, <3>2, StrayAside
    <3>10. Astray(c, k)'
      BY ZenonT(30), <1>5, <3>3, <3>4, <3>5, <3>6, <3>7, <3>8, <3>9 DEF Next5
    <3> QED BY <1>1, <1>3, <2>1, <3>1, <3>10 DEF CutInv, OutOfStep
  <2> QED BY <1>1, <2>2, <2>3, <2>4 DEF CutInv
<1> QED BY <1>4, <1>5

(* However the bytes of a client arrive, also when its greeting is cut or  *)
(* glued to what follows: it is relayed only for the account and to the    *)
(* destination it sent, from the first byte behind its request, after it   *)
(* was told the address the target connection is bound to. This holds as   *)
(* long as no stream spells an account behind a first Read that was not    *)
(* its greeting (handlerTcpConn, GetUserPassword, ReadDestAddr).           *)
THEOREM ServedAlways ==
    ASSUME Unambiguous
    PROVE  Spec5 => []ServedAsAsked
<1>1. CutInv /\ HInv /\ [Next5]_vars5 => CutInv'
  BY CutNext
<1>2. CutInv => whole \/ stage # "relay"
  BY DEF CutInv, OutOfStep, Astray
<1> QED BY PTL, <1>1, <1>2, CutInit, HandshakeInvariant, ServedInStep DEF Spec5

=============================================================================
