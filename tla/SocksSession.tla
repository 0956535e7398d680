---------------------------- MODULE SocksSession ----------------------------
(***************************************************************************)
(* A SOCKS5 connection from its first byte to the domain it is reported    *)
(* under: the handshake of Socks5, then the sniffer of ClientHello, fed    *)
(* with what the client sent before the target's first answer.  How these  *)
(* bytes are collected beside the two copying goroutines is the subject of *)
(* Tunnel; here the question is what is read out of them.                  *)
(***************************************************************************)
EXTENDS Socks5, ClientHello

-----------------------------------------------------------------------------
(* The TLS client, as RFC 8446 and RFC 6066 prescribe it.                  *)

\* x behind its length in k bytes.
WithLen(x, k) == (IF k = 1 THEN <<Len(x)>> ELSE PortBytes(Len(x))) \o x

ExtBytes(x) == PortBytes(x.id) \o WithLen(x.data, 2)
NameBytes(x) == <<x.type>> \o WithLen(x.name, 2)

\* The bytes of the last n of the items, for every n.
Last(items) ==
    LET last[n \in 0..Len(items)] ==
            IF n = 0 THEN <<>> ELSE items[Len(items) - n + 1] \o last[n - 1]
    IN  last
Joined(items) == Last(items)[Len(items)]

ExtList(h) == [i \in 1..Len(h.exts) |-> ExtBytes(h.exts[i])]
NameList(h) == [i \in 1..Len(h.names) |-> NameBytes(h.names[i])]

\* A ClientHello h: record header, message header, version and random (the head),
\* session id, cipher suites, compression methods and extensions.
HelloBytes(h) ==
    h.head \o WithLen(h.sid, 1) \o WithLen(h.suites, 2) \o WithLen(h.comp, 1)
        \o WithLen(Joined(ExtList(h)), 2)

\* Its server_name extension: a list of names, and extra bytes if it is malformed.
ServerNames(h) == WithLen(Joined(NameList(h)), 2) \o h.extra

IsFirst(f, i, x) == f[i] = x /\ \A j \in 1..(i - 1) : f[j] # x
Ids(h) == [i \in 1..Len(h.exts) |-> h.exts[i].id]
Types(h) == [i \in 1..Len(h.names) |-> h.names[i].type]

\* c sends the ClientHello c.hello, whose lengths fit into their fields; c.host is
\* the first host name of its first server_name extension.
SendsHello(c) ==
    LET h == c.hello
    IN  /\ c.data = HelloBytes(h)
        /\ {h.head, h.sid, h.suites, h.comp, h.extra} \subseteq Seq(Byte)
        /\ Len(h.head) = 5 + 4 + 2 + 32 /\ h.head[1] = 22
        /\ Len(h.sid) \in Byte /\ Len(h.suites) \in Port /\ Len(h.comp) \in Byte
        /\ h.exts \in Seq([id : Port, data : Seq(Byte)])
        /\ \A i \in 1..Len(h.exts) : Len(h.exts[i].data) \in Port
        /\ Len(Joined(ExtList(h))) \in Port
        /\ h.names \in Seq([type : Byte, name : Seq(Byte)])
        /\ \A i \in 1..Len(h.names) : Len(h.names[i].name) \in Port
        /\ Len(Joined(NameList(h))) \in Port
        /\ \A i \in 1..Len(h.exts) :
              IsFirst(Ids(h), i, extensionServerName) => h.exts[i].data = ServerNames(h)
        /\ \A i \in 1..Len(h.names) : IsFirst(Types(h), i, 0) => c.host = h.names[i].name

\* The hello is well-formed: whole cipher suites, no extension twice, each as its
\* RFC prescribes it and with it unmarshal; a host name in server_name, and no
\* host without it.
WellFormed(c) ==
    LET h == c.hello
    IN  /\ Len(h.suites) % 2 = 0
        /\ \A i, j \in 1..Len(h.exts) : h.exts[i].id = h.exts[j].id => i = j
        /\ \A i \in 1..Len(h.exts) :
              h.exts[i].id # extensionServerName =>
                  ExtensionOk(h.exts[i].id, h.exts[i].data, i = Len(h.exts))
        /\ IF \E i \in 1..Len(h.exts) : h.exts[i].id = extensionServerName
           THEN /\ \E i \in 1..Len(h.names) : h.names[i].type = 0
                /\ \A i \in 1..Len(h.names) : h.names[i].name # <<>>
           ELSE c.host = <<>>

\* A client whose data begin as a TLS record does sends a ClientHello in that record.
IsTls(c) == c.data # <<>> /\ c.data[1] = 22
ASSUME HelloAssumption ==
    \A c \in Clients :
        c.kind = "socks" /\ IsTls(c) => SendsHello(c) /\ (c.wellFormed => WellFormed(c))

-----------------------------------------------------------------------------
vars == <<vars5, helloVars>>

Init == Init5 /\ InitHello

\* Bytes that arrive after the target has answered do not concern the sniffer.
Handshake == step = "idle" /\ Next5 /\ UNCHANGED helloVars

\* The target answers: the sniffer, started when the requested address holds no
\* domain name, gets all the client has sent until now.
Answer ==
    /\ stage = "relay"
    /\ regexpDomain(got.dest.fqdn) = <<>>
    /\ Receive(SubSeq(Stream[client], read + 1, sent))
    /\ UNCHANGED vars5

Next == Handshake \/ Answer \/ (NextHello /\ UNCHANGED vars5)

Spec == Init /\ [][Next]_vars

-----------------------------------------------------------------------------
(* Properties.                                                             *)

\* The name read out of a ClientHello is the one the client put there or none:
\* never a piece of it, never bytes of another field, wherever the buffer ends
\* and whichever extensions stand around it. A complete, well-formed hello gives
\* its name, and the connection is reported under it (UnmarshalByByte, unmarshal).
NameIsExact ==
    step = "done" =>
        /\ ServerName \in {<<>>, client.host}
        /\ ServerName # <<>> => domain = ServerName
        /\ buf = client.data /\ IsTls(client) /\ client.wellFormed => ServerName = client.host

\* What the client sent before the target's answer was a complete request that
\* names its host: the connection is reported, and checked against the blacklist,
\* under that host.
ReportedUnderHost ==
    step = "done" /\ buf = client.data /\ client.wellFormed => domain = client.host

=============================================================================
