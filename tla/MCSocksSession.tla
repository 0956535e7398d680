--------------------------- MODULE MCSocksSession ---------------------------
(***************************************************************************)
(* Instances of SocksSession: clients that differ in how they send, in     *)
(* their account, destination and greeting, and TLS clients that differ in *)
(* the extensions of their hello.                                          *)
(***************************************************************************)
EXTENDS SocksSession

Alice == <<97, 98>>
Pw == <<112>>
MCAccounts == {<<Alice, Pw>>, <<Pw, <<>>>>}
MCBinds == {[fqdn |-> <<>>, ip |-> <<10, 0, 0, 7>>, port |-> 40000],
            [fqdn |-> <<>>, ip |-> <<0, 0, 0, 0, 0, 0, 0, 0, 0, 0, 255, 255, 10, 0, 0, 8>>, port |-> 258],
            [fqdn |-> <<>>, ip |-> <<32, 1, 0, 0, 0, 0, 0, 0, 0, 0, 0, 0, 0, 0, 0, 1>>, port |-> 7]}

Ip4 == [type |-> ipv4Address, addr |-> <<1, 2, 3, 4>>, port |-> 443]
Ip6 == [type |-> ipv6Address, addr |-> [i \in 1..16 |-> 3], port |-> 80]
Fqdn == [type |-> fqdnAddress, addr |-> <<97, Dot, 98, 99>>, port |-> 256]
Short == [type |-> fqdnAddress, addr |-> <<120>>, port |-> 1]
Odd == [type |-> 2, addr |-> <<9>>, port |-> 5]

Socks(methods, user, pwd, dest, data, host, wellFormed, eager, hello) ==
    [kind |-> "socks", methods |-> methods, user |-> user, pwd |-> pwd, dest |-> dest, data |-> data,
     host |-> host, wellFormed |-> wellFormed, eager |-> eager, hello |-> hello]
NoHello == <<>>

\* Greetings of 3, 8 and 9 bytes; known, unknown and odd accounts; all address types.
Handshakes ==
    {Socks(m, a[1], a[2], d, <<71, 69>>, <<>>, FALSE, e, NoHello) :
        m \in {<<2>>, <<0, 1, 2, 3, 4, 5>>, <<0, 1, 2, 3, 4, 5, 6>>},
        a \in {<<Alice, Pw>>, <<Pw, <<>>>>, <<Alice, Alice>>},
        d \in {Ip4, Ip6, Fqdn, Short, Odd},
        e \in BOOLEAN}

HttpPeers == {[kind |-> "http", head |-> [i \in 1..12 |-> 64 + i], eager |-> FALSE]}

Host == <<109, Dot, 98, 99>>
Dotted == Host \o <<Dot>>
HostName(name) == [type |-> 0, name |-> name]
One == <<HostName(Host)>>
NoHost == [type |-> 1, name |-> <<120, Dot, 121, 122>>]

Ext(id, data) == [id |-> id, data |-> data]
\* Well-formed extensions other than server_name.
Others == {
    Ext(2570, <<>>), Ext(extensionSCT, <<>>),
    Ext(extensionStatusRequest, <<1, 0, 0, 0, 0>>),
    Ext(extensionSupportedCurves, WithLen(<<0, 29, 0, 23>>, 2)),
    Ext(extensionSupportedPoints, WithLen(<<0>>, 1)),
    Ext(extensionSessionTicket, <<7, 7>>),
    Ext(extensionALPN, WithLen(WithLen(<<104, 50>>, 1) \o WithLen(<<104>>, 1), 2)),
    Ext(extensionSupportedVersions, WithLen(<<3, 4, 3, 3>>, 1)),
    Ext(extensionCookie, WithLen(<<5>>, 2)),
    Ext(extensionPSKModes, WithLen(<<1>>, 1)),
    Ext(extensionRenegotiationInfo, WithLen(<<>>, 1)),
    Ext(extensionQUICTransportParameters, <<1>>),
    Ext(extensionKeyShare, WithLen(<<0, 29>> \o WithLen(<<9, 9>>, 2), 2))}
Psk == Ext(extensionPreSharedKey,
           WithLen(WithLen(<<8>>, 2) \o <<0, 0, 0, 1>>, 2) \o WithLen(WithLen(<<6>>, 1), 2))
\* Ones that unmarshal refuses, before or after it has met the name.
Broken == {Ext(extensionSCT, <<1>>), Ext(extensionCookie, WithLen(<<>>, 2)),
           Ext(extensionSupportedCurves, WithLen(<<0, 29, 0>>, 2)),
           Ext(extensionALPN, WithLen(<<3, 104>>, 2)),
           Ext(extensionKeyShare, WithLen(<<0, 29, 0, 0>>, 2))}

\* Record header, message header, version and random before n bytes of other fields.
HeadBytes(n) ==
    <<22, 3, 1>> \o PortBytes(n + 38) \o <<1, 0>> \o PortBytes(n + 34)
        \o <<3, 3>> \o [i \in 1..32 |-> i % 8]

Hello(sid, suites, exts, list, extra) ==
    LET h == [head |-> <<>>, sid |-> sid, suites |-> suites, comp |-> <<0>>,
              exts |-> exts, names |-> list, extra |-> extra]
    IN  [h EXCEPT !.head = HeadBytes(Len(HelloBytes(h)))]

\* The server_name extension with these names; clients that send these extensions,
\* that send it between others, and that send half a cipher suite.
Sni(list, extra) ==
    Ext(extensionServerName, ServerNames([names |-> list, extra |-> extra]))
TlsSends(exts, list, extra, host, wellFormed) ==
    LET h == Hello(<<>>, <<19, 1>>, exts, list, extra)
    IN  Socks(<<2>>, Alice, Pw, Ip4, HelloBytes(h), host, wellFormed, FALSE, h)
Tls(before, list, extra, after, host, wellFormed) ==
    TlsSends(before \o <<Sni(list, extra)>> \o after, list, extra, host, wellFormed)
TlsOdd(dest, eager) ==
    LET h == Hello(<<1, 2>>, <<19>>, <<Sni(One, <<>>)>>, One, <<>>)
    IN  Socks(<<2>>, Alice, Pw, dest, HelloBytes(h), Host, FALSE, eager, h)

\* Server names with a name of another type, a final dot, an empty list, a second
\* host name, data behind the list; hellos without, with a repeated and with a
\* misplaced extension, and with half a cipher suite.
TlsClients ==
    {Tls(<<>>, One, <<>>, <<x>>, Host, TRUE) : x \in Others}
    \cup {Tls(<<x>>, One, <<>>, <<>>, Host, TRUE) : x \in Others}
    \cup {Tls(<<Ext(extensionExtendedMasterSecret, <<>>)>>, <<NoHost>> \o One, <<>>, <<Psk>>, Host, TRUE),
          Tls(<<>>, <<HostName(Dotted)>>, <<>>, <<>>, Dotted, TRUE),
          TlsSends(<<>>, <<>>, <<>>, <<>>, TRUE),
          Tls(<<Psk>>, One, <<>>, <<>>, Host, FALSE),
          Tls(<<Sni(One, <<>>)>>, One, <<>>, <<>>, Host, FALSE),
          Tls(<<>>, <<>>, <<>>, <<>>, Host, FALSE),
          Tls(<<>>, One \o <<HostName(<<122>>)>>, <<>>, <<>>, Host, FALSE),
          Tls(<<>>, One, <<1>>, <<>>, Host, FALSE)}
    \cup {Tls(<<>>, One, <<>>, <<x>>, Host, FALSE) : x \in Broken}
    \cup {Tls(<<x>>, One, <<>>, <<>>, Host, FALSE) : x \in Broken}
    \cup {TlsOdd(dest, e) : dest \in {Short, Ip6}, e \in BOOLEAN}

ASSUME NotAmbiguous == Unambiguous

MCClients == Handshakes \cup HttpPeers \cup TlsClients

\* A client that sends an HTTP request through the tunnel: "GET /a.htm H" and
\* "Host: m.bc", each line with its end.
HttpRequest == <<71, 69, 84, 32, 47, 97, Dot, 104, 116, 109, 32, 72, 13, 10,
                 72, 111, 115, 116, 58, 32>> \o Host \o <<13, 10, 13, 10>>
PlainClients ==
    {Socks(<<2>>, Alice, Pw, Ip4, HttpRequest, Host, TRUE, e, NoHello) : e \in BOOLEAN}

=============================================================================
