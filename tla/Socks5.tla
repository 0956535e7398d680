------------------------------- MODULE Socks5 -------------------------------
(***************************************************************************)
(* The SOCKS5 side of one client connection: handlerTcpConn decides from   *)
(* the size of its first Read whether the peer speaks SOCKS5 or HTTP,      *)
(* socksTcpConn then runs the handshake with the readers and writers of    *)
(* utils/socks5/func.go.                                                   *)
(*                                                                         *)
(* The client's bytes are one stream.  TCP keeps their order and nothing   *)
(* else: `sent' bytes have arrived at the proxy in whatever pieces, `read' *)
(* of them have been taken out.  A client either waits for each answer     *)
(* before it sends its next message or is eager and sends ahead, which     *)
(* TCP permits.                                                            *)
(***************************************************************************)
EXTENDS Integers, Sequences

CONSTANTS
    Clients,      \* the peers: what they want and whether they send ahead (eager)
    Accounts,     \* the <<user, pwd>> that auth.Valid accepts (see Auth)
    Binds,        \* local addresses a dialled target connection may have
    MaxGreeting   \* handlerTcpConn: a first Read of at most this is SOCKS5 (8)

VARIABLES
    client,   \* the peer of this connection
    sent,     \* how many of its bytes have arrived
    read,     \* how many of them have been read
    stage,    \* where the handler is
    whole,    \* the first Read returned the greeting and nothing else
    got,      \* what the handler has parsed: [user, pwd, dest]
    bind,     \* local address of the target connection
    out       \* the messages written to the client

vars5 == <<client, sent, read, stage, whole, got, bind, out>>

socks5Version   == 5
UserPassAuth    == 2
UserAuthVersion == 1
AuthSuccess     == 0
AuthFailure     == 1
SuccessReply         == 0
NetworkUnreachable   == 3
HostUnreachable      == 4
ConnectionRefused    == 5
AddrTypeNotSupported == 8
ipv4Address == 1
fqdnAddress == 3
ipv6Address == 4

Byte == 0 .. 255
Port == {p \in Nat : p < 65536}

\* What fits into the messages of RFC 1928 and RFC 1929, and what net.Conn gives
\* as the address of a TCP connection.
ASSUME SocksAssumption ==
    /\ MaxGreeting \in Nat
    /\ \A c \in Clients :
          /\ c.kind \in {"socks", "http"}
          /\ c.kind = "http" => c.head \in Seq(Byte)
          /\ c.kind = "socks" =>
                /\ {c.methods, c.user, c.pwd, c.dest.addr, c.data} \subseteq Seq(Byte)
                /\ \A x \in {c.methods, c.user, c.pwd, c.dest.addr} : Len(x) \in Byte
                /\ c.dest.type \in Byte /\ c.dest.port \in Port
                /\ c.dest.type = ipv4Address => Len(c.dest.addr) = 4
                /\ c.dest.type = ipv6Address => Len(c.dest.addr) = 16
    /\ \A b \in Binds : b.fqdn = <<>> /\ b.ip \in Seq(Byte) /\ b.port \in Port

-----------------------------------------------------------------------------
(* The client, as RFC 1928 and RFC 1929 prescribe it.                      *)

\* A port as two bytes, high byte first, and back.
PortBytes(p) == <<p \div 256, p % 256>>
PortOf(b) == b[1] * 256 + b[2]

\* An address as it stands in a request or a reply; a name is preceded by its length.
AddrBytes(a) ==
    <<a.type>> \o (IF a.type = fqdnAddress THEN <<Len(a.addr)>> ELSE <<>>)
        \o a.addr \o PortBytes(a.port)

\* The authentication message of RFC 1929.
AccountBytes(user, pwd) == <<UserAuthVersion, Len(user)>> \o user \o <<Len(pwd)>> \o pwd

\* The three messages of a SOCKS5 handshake and the data that follows them. An
\* HTTP client sends the head of its request and waits.
Messages(c) ==
    IF c.kind = "http" THEN <<c.head, <<>>, <<>>, <<>>>>
    ELSE << <<socks5Version, Len(c.methods)>> \o c.methods,
            AccountBytes(c.user, c.pwd),
            <<socks5Version, 1, 0>> \o AddrBytes(c.dest),
            c.data >>

Stream == [c \in Clients |-> LET m == Messages(c) IN m[1] \o m[2] \o m[3] \o m[4]]

\* Length of the first n messages of client c.
Upto == [c \in Clients |->
            LET m == Messages(c)
            IN  << Len(m[1]), Len(m[1] \o m[2]), Len(m[1] \o m[2] \o m[3]), Len(Stream[c]) >>]

\* Behind its first k bytes the stream of c spells an account that is accepted.
Spells(c, k) ==
    \E a \in Accounts :
        LET m == AccountBytes(a[1], a[2])
        IN  k + Len(m) <= Len(Stream[c]) /\ SubSeq(Stream[c], k + 1, k + Len(m)) = m

\* No client's stream spells an account behind a first Read that was not its
\* greeting. The handler never looks at what that Read returned, so that only
\* the account stands between a client read out of step and a wrong target.
Unambiguous ==
    \A c \in Clients : \A k \in 1..MaxGreeting : k # Upto[c][1] => ~ Spells(c, k)

\* How many messages a client that waits may send: one more than it has been
\* invited to by the method selection, the authentication status and the reply.
Invited ==
    IF Len(out) = 0 \/ out[1] # <<socks5Version, UserPassAuth>> THEN 1
    ELSE IF Len(out) = 1 \/ out[2] # <<UserAuthVersion, AuthSuccess>> THEN 2
    ELSE IF Len(out) = 2 \/ out[3][2] # SuccessReply THEN 3 ELSE 4

\* More of the client's bytes arrive.
Arrive ==
    /\ sent' \in (sent + 1)..Upto[client][IF client.eager THEN 4 ELSE Invited]
    /\ UNCHANGED <<client, read, stage, whole, got, bind, out>>

-----------------------------------------------------------------------------
(* Reading and writing.                                                    *)

\* io.ReadAtLeast(conn, buf, n) with len(buf) = n: succeeds once n bytes are there and takes no more.
Readable(n) == sent - read >= n
Bytes(n) == SubSeq(Stream[client], read + 1, read + n)
Take(n) == Readable(n) /\ read' = read + n

Send(msg) == out' = Append(out, msg)

\* net.IP.To4: the four bytes of an IPv4 address in either of its forms, else nil.
To4(ip) ==
    IF Len(ip) = 4 THEN ip
    ELSE IF Len(ip) = 16 /\ SubSeq(ip, 1, 12) = <<0, 0, 0, 0, 0, 0, 0, 0, 0, 0, 255, 255>>
         THEN SubSeq(ip, 13, 16) ELSE <<>>

uint16(n) == n % 65536

\* SendReply: nil stands for 0.0.0.0:0; lengths and ports are cut to their widths.
nil == [fqdn |-> <<>>, ip |-> <<0, 0, 0, 0>>, port |-> 0]
SendReply(resp, addr) ==
    LET body == IF addr.fqdn # <<>> THEN <<fqdnAddress, Len(addr.fqdn) % 256>> \o addr.fqdn
                ELSE IF To4(addr.ip) # <<>> THEN <<ipv4Address>> \o To4(addr.ip)
                ELSE <<ipv6Address>> \o addr.ip
    IN  <<socks5Version, resp, 0>> \o body \o PortBytes(uint16(addr.port))

NoAddr == [fqdn |-> <<>>, ip |-> <<>>, port |-> 0]

Init5 ==
    /\ client \in Clients
    /\ sent = 0
    /\ read = 0
    /\ stage = "first"
    /\ whole = FALSE
    /\ got = [user |-> <<>>, pwd |-> <<>>, dest |-> NoAddr, need |-> 0]
    /\ bind = nil
    /\ out = <<>>

-----------------------------------------------------------------------------
(* handlerTcpConn and GetUserPassword.                                     *)

\* The first Read returns what has arrived. Up to MaxGreeting bytes are taken for
\* a SOCKS5 greeting and dropped unseen; more must hold the whole head of an HTTP
\* request, for http.ReadRequest sees these bytes only.
FirstRead ==
    /\ stage = "first"
    /\ Readable(1)
    /\ read' = sent
    /\ whole' = (sent = Upto[client][1] /\ sent <= MaxGreeting)
    /\ stage' = IF sent <= MaxGreeting THEN "select"
                ELSE IF client.kind = "http" /\ sent = Upto[client][1] THEN "http" ELSE "closed"
    /\ UNCHANGED <<client, sent, got, bind, out>>

\* GetUserPassword asks for user/password authentication whatever the greeting offered.
Select ==
    /\ stage = "select"
    /\ Send(<<socks5Version, UserPassAuth>>)
    /\ stage' = "header"
    /\ UNCHANGED <<client, sent, read, whole, got, bind>>

\* An error of GetUserPassword, or of Valid, is answered with an authentication failure.
Refuse ==
    /\ Send(<<UserAuthVersion, AuthFailure>>)
    /\ stage' = "misread"
    /\ UNCHANGED got

\* The version of the authentication message and the length of the user name.
ReadHeader ==
    /\ stage = "header"
    /\ Take(2)
    /\ \/ /\ Bytes(2)[1] # UserAuthVersion
          /\ Refuse
       \/ /\ Bytes(2)[1] = UserAuthVersion
          /\ got' = [got EXCEPT !.need = Bytes(2)[2]]
          /\ stage' = "user"
          /\ UNCHANGED out
    /\ UNCHANGED <<client, sent, whole, bind>>

\* The user name with the byte behind it, as a buffered reader would take it.
ReadUser_Buffered ==
    /\ stage = "user"
    /\ Readable(got.need)
    /\ read' = IF Readable(got.need + 1) THEN read + got.need + 1 ELSE read + got.need
    /\ got' = [got EXCEPT !.user = Bytes(got.need)]
    /\ stage' = "passLen"
    /\ UNCHANGED <<client, sent, whole, bind, out>>

\* The user name.
ReadUser ==
    /\ stage = "user"
    /\ Take(got.need)
    /\ got' = [got EXCEPT !.user = Bytes(got.need)]
    /\ stage' = "passLen"
    /\ UNCHANGED <<client, sent, whole, bind, out>>

\* The length of the password.
ReadPassLen ==
    /\ stage = "passLen"
    /\ Take(1)
    /\ got' = [got EXCEPT !.need = Bytes(1)[1]]
    /\ stage' = "pass"
    /\ UNCHANGED <<client, sent, whole, bind, out>>

\* The password.
ReadPass ==
    /\ stage = "pass"
    /\ Take(got.need)
    /\ got' = [got EXCEPT !.pwd = Bytes(got.need)]
    /\ stage' = "valid"
    /\ UNCHANGED <<client, sent, whole, bind, out>>

\* auth.Valid and AddIpConnCount: a full exit address is answered with a SOCKS
\* reply in place of the authentication status.
Valid ==
    /\ stage = "valid"
    /\ \/ /\ <<got.user, got.pwd>> \notin Accounts
          /\ Refuse
       \/ /\ <<got.user, got.pwd>> \in Accounts
          /\ \/ Send(SendReply(ConnectionRefused, nil)) /\ stage' = "closed"
             \/ Send(<<UserAuthVersion, AuthSuccess>>) /\ stage' = "request"
          /\ UNCHANGED got
    /\ UNCHANGED <<client, sent, read, whole, bind>>

-----------------------------------------------------------------------------
(* ReadDestAddr, ReadAddrSpec and the dial.                                *)

\* ReadDestAddr: version, command and reserved byte; only the version is looked at.
ReadDestAddr ==
    /\ stage = "request"
    /\ Take(3)
    /\ stage' = IF Bytes(3)[1] = socks5Version THEN "addrType" ELSE "misread"
    /\ UNCHANGED <<client, sent, whole, got, bind, out>>

AddrLen == [t \in {ipv4Address, ipv6Address} |-> IF t = ipv4Address THEN 4 ELSE 16]

\* The address type, which gives the length of an IP address.
ReadAddrType ==
    /\ stage = "addrType"
    /\ Take(1)
    /\ LET t == Bytes(1)[1]
       IN  \/ /\ t \in {ipv4Address, ipv6Address}
              /\ got' = [got EXCEPT !.need = AddrLen[t]]
              /\ stage' = "ip"
              /\ UNCHANGED out
           \/ /\ t = fqdnAddress
              /\ stage' = "fqdnLen"
              /\ UNCHANGED <<got, out>>
           \/ /\ t \notin {ipv4Address, ipv6Address, fqdnAddress}
              /\ Send(SendReply(AddrTypeNotSupported, nil))
              /\ stage' = "misread"
              /\ UNCHANGED got
    /\ UNCHANGED <<client, sent, whole, bind>>

\* The length of a name.
ReadFqdnLen ==
    /\ stage = "fqdnLen"
    /\ Take(1)
    /\ got' = [got EXCEPT !.need = Bytes(1)[1]]
    /\ stage' = "fqdn"
    /\ UNCHANGED <<client, sent, whole, bind, out>>

\* The name, or the IP address.
ReadAddr ==
    /\ stage \in {"ip", "fqdn"}
    /\ Take(got.need)
    /\ got' = IF stage = "ip" THEN [got EXCEPT !.dest.ip = Bytes(got.need)]
                              ELSE [got EXCEPT !.dest.fqdn = Bytes(got.need)]
    /\ stage' = "port"
    /\ UNCHANGED <<client, sent, whole, bind, out>>

\* The port with its bytes in the wrong order.
ReadPort_Swapped ==
    /\ stage = "port"
    /\ Take(2)
    /\ got' = [got EXCEPT !.dest.port = Bytes(2)[2] * 256 + Bytes(2)[1]]
    /\ stage' = "dial"
    /\ UNCHANGED <<client, sent, whole, bind, out>>

\* The port, high byte first.
ReadPort ==
    /\ stage = "port"
    /\ Take(2)
    /\ got' = [got EXCEPT !.dest.port = PortOf(Bytes(2))]
    /\ stage' = "dial"
    /\ UNCHANGED <<client, sent, whole, bind, out>>

\* Blacklists and DialContext (see ConnRegistry, DialFailTracker): refused with
\* one of three codes, or answered with the local address of the new connection,
\* which for an IPv6 exit is given as 0.0.0.0:0.
Dial ==
    /\ stage = "dial"
    /\ \/ /\ \E resp \in {NetworkUnreachable, HostUnreachable, ConnectionRefused} :
                Send(SendReply(resp, nil))
          /\ stage' = "closed"
          /\ UNCHANGED bind
       \/ /\ \E b \in Binds : bind' = IF To4(b.ip) # <<>> THEN b ELSE nil
          /\ Send(SendReply(SuccessReply, bind'))
          /\ stage' = "relay"
    /\ UNCHANGED <<client, sent, read, whole, got>>

\* A read that waits: 2 s deadlines, except for the first Read, which has none.
Reading == {"header", "user", "passLen", "pass", "request", "addrType", "fqdnLen",
            "fqdn", "ip", "port"}

\* The deadline passes, or the client hangs up: the handler gives up.
GiveUp ==
    /\ stage \in Reading \cup {"first", "select"}
    /\ stage' = "closed"
    /\ out' = IF stage \in {"header", "user", "passLen", "pass"}
              THEN Append(out, <<UserAuthVersion, AuthFailure>>) ELSE out
    /\ UNCHANGED <<client, sent, read, whole, got, bind>>

Next5 ==
    \/ Arrive \/ FirstRead \/ Select \/ ReadHeader \/ ReadUser \/ ReadPassLen \/ ReadPass
    \/ Valid \/ ReadDestAddr \/ ReadAddrType \/ ReadFqdnLen \/ ReadAddr \/ ReadPort
    \/ Dial \/ GiveUp

Spec5 == Init5 /\ [][Next5]_vars5

-----------------------------------------------------------------------------
(* Properties.                                                             *)

\* The AddrSpec a client means by its request.
Meant(a) == [fqdn |-> IF a.type = fqdnAddress THEN a.addr ELSE <<>>,
             ip   |-> IF a.type = fqdnAddress THEN <<>> ELSE a.addr,
             port |-> a.port]

\* However the bytes arrive, early or late, in one piece or in many: a
\* connection is relayed only for the account and to the destination that the
\* client sent, starting with the first byte behind its request, after the
\* client was told the address the target connection is bound to; and only an
\* HTTP client reaches the HTTP handler. A client whose greeting is cut or
\* glued to what follows is read out of step, and never served
\* (handlerTcpConn, GetUserPassword, ReadDestAddr, SendReply).
ServedAsAsked ==
    /\ stage = "http" => client.kind = "http"
    /\ stage = "relay" =>
         /\ client.kind = "socks"
         /\ got.user = client.user /\ got.pwd = client.pwd
         /\ got.dest = Meant(client.dest)
         /\ read = Upto[client][3]
         /\ out = << <<socks5Version, UserPassAuth>>, <<UserAuthVersion, AuthSuccess>>,
                     <<socks5Version, SuccessReply, 0>> \o
                       AddrBytes([type |-> ipv4Address, addr |-> To4(bind.ip), port |-> bind.port]) >>

\* A client whose greeting came alone in the first Read is in step with the
\* handler for good: it is turned away as malformed or unknown only when its
\* account or its address type is. This is what lets the later reads be cut
\* in any way (ReadAtLeast with the exact size).
MisreadWithReason ==
    stage = "misread" /\ whole =>
        \/ client.kind = "http"
        \/ <<client.user, client.pwd>> \notin Accounts
        \/ client.dest.type \notin {ipv4Address, ipv6Address, fqdnAddress}

=============================================================================
