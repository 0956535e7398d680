----------------------------- MODULE ClientHello -----------------------------
(***************************************************************************)
(* The domain sniffer of a relayed connection: the bytes that the client   *)
(* sent before the target's first answer are parsed as a TLS ClientHello   *)
(* (server/sniffing/tls/client_hello.go) and, when that gives no name, as  *)
(* plain text (the parsing goroutine of the proxy handlers, common.go).    *)
(*                                                                         *)
(* A cryptobyte.String is the string of its unread bytes: reading takes    *)
(* bytes off its front, and a length-prefixed part is a string of its own. *)
(***************************************************************************)
EXTENDS Integers, Sequences, FiniteSets

VARIABLES
    buf,        \* the bytes handed to the sniffer
    step,       \* where unmarshal is
    s,          \* the unread part of the message
    extensions, \* the unread extensions
    extData,    \* the unread data of the server_name extension
    names,      \* the unread server names, nameList
    seenExts,   \* the extensions met so far
    ServerName, \* clientHelloMsg.ServerName
    domain      \* what domainPointer is set to, <<>> while there is nothing

helloVars == <<buf, step, s, extensions, extData, names, seenExts, ServerName, domain>>

-----------------------------------------------------------------------------
(* cryptobyte.                                                             *)

Empty(w) == w = <<>>
Has(w, n) == Len(w) >= n
Skip(w, n) == SubSeq(w, n + 1, Len(w))

\* The big-endian number in the first k (1, 2) bytes of w.
Number(w, k) == IF k = 1 THEN w[1] ELSE w[1] * 256 + w[2]

\* ReadUint8LengthPrefixed and ReadUint16LengthPrefixed (k = 1, 2): whether they
\* succeed, what they read, and what is left.
HasPrefixed(w, k) == Has(w, k) /\ Has(Skip(w, k), Number(w, k))
Prefixed(w, k) == SubSeq(w, k + 1, k + Number(w, k))
Rest(w, k) == Skip(w, k + Number(w, k))

\* A list that is read to its end, each item made of `pre' fixed bytes, a
\* non-empty part with a k-byte length, and `post' fixed bytes: the last n bytes
\* of w are none, or an item and such a list.
IsList(w, pre, k, post) ==
    LET isList[n \in 0..Len(w)] ==
            LET item == Skip(w, Len(w) - n)
                part == Skip(item, pre)
            IN  \/ n = 0
                \/ /\ Has(item, pre)
                   /\ HasPrefixed(part, k)
                   /\ ~ Empty(Prefixed(part, k))
                   /\ Has(Rest(part, k), post)
                   /\ isList[Len(Rest(part, k)) - post]
    IN  isList[Len(w)]

\* A list of uint16 that is read to its end.
IsUint16List(w) == Len(w) % 2 = 0

\* w is one part with a k-byte length and nothing else.
IsOnly(w, k) == HasPrefixed(w, k) /\ Empty(Rest(w, k))
IsOnlyNonEmpty(w, k) == IsOnly(w, k) /\ ~ Empty(Prefixed(w, k))

-----------------------------------------------------------------------------
(* The extensions.                                                         *)

extensionServerName              == 0
extensionStatusRequest           == 5
extensionSupportedCurves         == 10
extensionSupportedPoints         == 11
extensionSignatureAlgorithms     == 13
extensionALPN                    == 16
extensionSCT                     == 18
extensionExtendedMasterSecret    == 23
extensionSessionTicket           == 35
extensionPreSharedKey            == 41
extensionEarlyData               == 42
extensionSupportedVersions       == 43
extensionCookie                  == 44
extensionPSKModes                == 45
extensionSignatureAlgorithmsCert == 50
extensionKeyShare                == 51
extensionQUICTransportParameters == 57
extensionRenegotiationInfo       == 65281

\* Extensions that are one list of uint16 behind a 16-bit length.
Uint16Lists == {extensionSupportedCurves, extensionSignatureAlgorithms,
                extensionSignatureAlgorithmsCert}
\* Extensions that are flags and have no data.
Flags == {extensionExtendedMasterSecret, extensionSCT, extensionEarlyData}

\* status_request: a type and two parts.
StatusRequestOk(d) ==
    /\ Has(d, 1)
    /\ HasPrefixed(Skip(d, 1), 2)
    /\ IsOnly(Rest(Skip(d, 1), 2), 2)

\* pre_shared_key: the last extension; identities with a ticket age, then binders.
PreSharedKeyOk(d, last) ==
    /\ last
    /\ HasPrefixed(d, 2)
    /\ ~ Empty(Prefixed(d, 2))
    /\ IsList(Prefixed(d, 2), 0, 2, 4)
    /\ IsOnlyNonEmpty(Rest(d, 2), 2)
    /\ IsList(Prefixed(Rest(d, 2), 2), 0, 1, 0)

\* The switch of unmarshal without server_name: the data d of extension id is
\* read without error and to its end. Unknown extensions are skipped.
ExtensionOk(id, d, last) ==
    CASE id \in Uint16Lists -> IsOnlyNonEmpty(d, 2) /\ IsUint16List(Prefixed(d, 2))
      [] id \in Flags -> Empty(d)
      [] id = extensionStatusRequest -> StatusRequestOk(d)
      [] id = extensionSupportedPoints -> IsOnlyNonEmpty(d, 1)
      [] id = extensionRenegotiationInfo -> IsOnly(d, 1)
      [] id = extensionALPN -> IsOnlyNonEmpty(d, 2) /\ IsList(Prefixed(d, 2), 0, 1, 0)
      [] id = extensionSupportedVersions -> IsOnlyNonEmpty(d, 1) /\ IsUint16List(Prefixed(d, 1))
      [] id = extensionCookie -> IsOnlyNonEmpty(d, 2)
      [] id = extensionKeyShare -> IsOnly(d, 2) /\ IsList(Prefixed(d, 2), 2, 2, 0)
      [] id = extensionPSKModes -> IsOnly(d, 1)
      [] id = extensionPreSharedKey -> PreSharedKeyOk(d, last)
      [] OTHER -> TRUE

-----------------------------------------------------------------------------
(* The parsing goroutine.                                                  *)

InitHello ==
    /\ buf = <<>>
    /\ step = "idle"
    /\ s = <<>>
    /\ extensions = <<>>
    /\ extData = <<>>
    /\ names = <<>>
    /\ seenExts = {}
    /\ ServerName = <<>>
    /\ domain = <<>>

\* The goroutine receives the bytes b. A first byte 0x16 is taken for a TLS
\* record, whose header of 5 bytes UnmarshalByByte cuts off: the slice
\* expression panics when there are fewer, in a goroutine that has no recover.
Receive(b) ==
    /\ step = "idle"
    /\ buf' = b
    /\ s' = Skip(b, 5)
    /\ step' = IF b = <<>> THEN "done"
               ELSE IF b[1] # 22 THEN "text"
               ELSE IF Len(b) < 5 THEN "panic" ELSE "fixed"
    /\ UNCHANGED <<extensions, extData, names, seenExts, ServerName, domain>>

\* unmarshal returns, with an error or without: the handler ignores the error
\* and uses the name, if there is one.
Unmarshalled(name) ==
    /\ domain' = name
    /\ step' = IF name # <<>> THEN "done" ELSE "text"

\* Message type and length, version, random and session id; then cipher suites
\* and compression methods; then the extensions, which must end the message.
Fixed ==
    /\ step = "fixed"
    /\ LET sid == Skip(s, 4 + 2 + 32)
           suites == Rest(sid, 1)
           comp == Rest(suites, 2)
           exts == Rest(comp, 1)
       IN  IF /\ Has(s, 4 + 2 + 32) /\ HasPrefixed(sid, 1)
              /\ HasPrefixed(suites, 2) /\ IsUint16List(Prefixed(suites, 2))
              /\ HasPrefixed(comp, 1)
              /\ IsOnly(exts, 2)
           THEN /\ extensions' = Prefixed(exts, 2)
                /\ step' = "extensions"
                /\ UNCHANGED domain
           ELSE Unmarshalled(<<>>) /\ UNCHANGED extensions
    /\ UNCHANGED <<buf, s, extData, names, seenExts, ServerName>>

Dot == 46
Dash == 45

\* server_name: a list of names that is not empty; a name has a type and a text
\* that is not empty.
HasNames(d) == HasPrefixed(d, 2) /\ ~ Empty(Prefixed(d, 2))
HasName(w) == Has(w, 1) /\ HasPrefixed(Skip(w, 1), 2) /\ ~ Empty(Prefixed(Skip(w, 1), 2))

\* The loop over the extensions: the next one is read to its end, or unmarshal
\* stops there. server_name goes on with its list of names.
Extension ==
    /\ step = "extensions"
    /\ IF Empty(extensions) \/ ~ Has(extensions, 2) \/ ~ HasPrefixed(Skip(extensions, 2), 2)
       THEN Unmarshalled(ServerName) /\ UNCHANGED <<extensions, extData, names, seenExts>>
       ELSE LET id == Number(extensions, 2)
                d == Prefixed(Skip(extensions, 2), 2)
                rest == Rest(Skip(extensions, 2), 2)
            IN  /\ extensions' = rest
                /\ seenExts' = seenExts \cup {id}
                /\ \/ /\ id \notin seenExts
                      /\ id = extensionServerName
                      /\ HasNames(d)
                      /\ names' = Prefixed(d, 2)
                      /\ extData' = Rest(d, 2)
                      /\ step' = "names"
                      /\ UNCHANGED domain
                   \/ /\ id \notin seenExts
                      /\ id # extensionServerName
                      /\ ExtensionOk(id, d, Empty(rest))
                      /\ UNCHANGED <<extData, names, step, domain>>
                   \/ /\ \/ id \in seenExts
                         \/ id = extensionServerName /\ ~ HasNames(d)
                         \/ id # extensionServerName /\ ~ ExtensionOk(id, d, Empty(rest))
                      /\ Unmarshalled(ServerName)
                      /\ UNCHANGED <<extData, names>>
    /\ UNCHANGED <<buf, s, ServerName>>

\* The loop over the server names without the test of the name's type.
Name_AnyType ==
    /\ step = "names"
    /\ IF Empty(names) \/ ~ HasName(names) \/ ServerName # <<>>
       THEN /\ IF Empty(names) /\ Empty(extData)
               THEN step' = "extensions" /\ UNCHANGED domain
               ELSE Unmarshalled(ServerName)
            /\ UNCHANGED <<names, ServerName>>
       ELSE /\ names' = Rest(Skip(names, 1), 2)
            /\ ServerName' = Prefixed(Skip(names, 1), 2)
            /\ UNCHANGED <<step, domain>>
    /\ UNCHANGED <<buf, s, extensions, extData, seenExts>>

\* The loop over the server names. A host name is stored before it is tested for
\* a final dot, and a second one ends unmarshal; names of other types are
\* skipped. Data behind the list, found last, is an error as well.
Name ==
    /\ step = "names"
    /\ IF Empty(names)
       THEN /\ IF Empty(extData) THEN step' = "extensions" /\ UNCHANGED domain
                                ELSE Unmarshalled(ServerName)
            /\ UNCHANGED <<names, ServerName>>
       ELSE IF ~ HasName(names) \/ (Number(names, 1) = 0 /\ ServerName # <<>>)
       THEN Unmarshalled(ServerName) /\ UNCHANGED <<names, ServerName>>
       ELSE LET name == Prefixed(Skip(names, 1), 2)
            IN  /\ names' = Rest(Skip(names, 1), 2)
                /\ ServerName' = IF Number(names, 1) = 0 THEN name ELSE ServerName
                /\ IF Number(names, 1) = 0 /\ name[Len(name)] = Dot
                   THEN Unmarshalled(name) ELSE UNCHANGED <<step, domain>>
    /\ UNCHANGED <<buf, s, extensions, extData, seenExts>>

-----------------------------------------------------------------------------
(* The rest of the goroutine.                                              *)

Letters == (65..90) \cup (97..122)
DomainChars == Letters \cup (48..57) \cup {Dot, Dash}

\* ([a-zA-Z0-9.-]+\.[a-zA-Z]{2,}) matches text from position i on with its last dot at j.
MatchAt(text, i, j) ==
    /\ i < j /\ j + 2 <= Len(text)
    /\ text[j] = Dot
    /\ \A k \in i..(j - 1) : text[k] \in DomainChars
    /\ text[j + 1] \in Letters /\ text[j + 2] \in Letters

\* regexpDomain: the first match, which is the leftmost one, as long as it can be.
regexpDomain(text) ==
    LET dots == {j \in 1..Len(text) : text[j] = Dot}
        starts == {i \in 1..Len(text) : text[i] \in DomainChars /\ \E j \in dots : MatchAt(text, i, j)}
        first == CHOOSE i \in starts : \A k \in starts : i <= k
        dot == CHOOSE j \in dots : /\ MatchAt(text, first, j)
                                   /\ \A k \in dots : MatchAt(text, first, k) => k <= j
        last == CHOOSE n \in dot..Len(text) :
                  /\ \A k \in (dot + 1)..n : text[k] \in Letters
                  /\ n = Len(text) \/ text[n + 1] \notin Letters
    IN  IF starts = {} THEN <<>> ELSE SubSeq(text, first, last)

\* Without a name from the hello the bytes are read as an HTTP request and then as
\* plain text. http.ReadRequest deletes Host from the header, so that
\* Header.Get("Host") is empty and the plain text always decides.
PlainText ==
    /\ step = "text"
    /\ domain' = regexpDomain(buf)
    /\ step' = "done"
    /\ UNCHANGED <<buf, s, extensions, extData, names, seenExts, ServerName>>

NextHello == Fixed \/ Extension \/ Name \/ PlainText

=============================================================================
