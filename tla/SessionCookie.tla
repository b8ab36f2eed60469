--------------------------- MODULE SessionCookie ---------------------------
(***************************************************************************)
(* The browser session of lakeFS, which lakefs-authn writes and lakeFS     *)
(* reads: a login token inside a Go gob stream (lakefs/gob.rs) inside a    *)
(* gorilla securecookie envelope (lakefs/securecookie.rs).  The readers of *)
(* the two formats are the repository's own decoders, which its fixtures   *)
(* tie to Go.                                                              *)
(*                                                                         *)
(* Bytes are numbers, a string is the sequence of its bytes.  Base64 keeps *)
(* what it wraps and adds to its length; a MAC is an opaque value fixed by *)
(* its key and its message, whose raw bytes may contain the separator.     *)
(* That text is valid UTF-8 is left out: every string written is a &str.   *)
(***************************************************************************)
EXTENDS Integers, Sequences, SequencesExt

(***************************************************************************)
(* The gob encoder (gob.rs).                                               *)
(***************************************************************************)
MapTypeId == 64
LegacyMapTypeId == 65
StringTypeId == 6
InterfaceTypeId == 8
MapField == 3
StringName == <<115, 116, 114, 105, 110, 103>>
TokenName == <<116, 111, 107, 101, 110>>
MapTypeName == [i \in 1..29 |-> 109]

\* Fault: one byte for every value that fits one.
EncodeUint_OneByteTo255(n) ==
    IF n < 256 THEN <<n>> ELSE <<254, n \div 256, n % 256>>

\* One byte below 128, else the negated byte count and the big-endian bytes.
EncodeUint(n) ==
    IF n < 128
    THEN <<n>>
    ELSE LET k == CHOOSE j \in 1..8 : n \div 256^(j - 1) \in 1..255
         IN  <<256 - k>> \o [i \in 1..k |-> (n \div 256^(k - i)) % 256]

EncodeInt(i) == EncodeUint(IF i < 0 THEN 2 * (-i - 1) + 1 ELSE 2 * i)

EncodeString(text) == EncodeUint(Len(text)) \o text

Message(body) == EncodeUint(Len(body)) \o body

EncodeInterfaceString(text) ==
    EncodeString(StringName) \o EncodeInt(StringTypeId)
        \o Message(EncodeUint(0) \o EncodeString(text))

TypeDefinition(id) ==
    EncodeInt(-id) \o EncodeUint(MapField + 1) \o EncodeUint(1)
        \o EncodeUint(2) \o EncodeInt(id) \o EncodeUint(0)
        \o EncodeUint(1) \o EncodeInt(InterfaceTypeId)
        \o EncodeUint(1) \o EncodeInt(InterfaceTypeId)
        \o EncodeUint(0) \o EncodeUint(0)

\* What a provider of a named map type sends: the name, then a delta of one.
NamedTypeDefinition(id, name) ==
    EncodeInt(-id) \o EncodeUint(MapField + 1) \o EncodeUint(1)
        \o EncodeUint(1) \o EncodeString(name)
        \o EncodeUint(1) \o EncodeInt(id) \o EncodeUint(0)
        \o EncodeUint(1) \o EncodeInt(InterfaceTypeId)
        \o EncodeUint(1) \o EncodeInt(InterfaceTypeId)
        \o EncodeUint(0) \o EncodeUint(0)

\* entries is a sequence of <<key, value>>.
MapValue(id, entries) ==
    EncodeInt(id) \o EncodeUint(0) \o EncodeUint(Len(entries))
        \o FoldLeft(LAMBDA out, e : out \o EncodeInterfaceString(e[1])
                                        \o EncodeInterfaceString(e[2]),
                    <<>>, entries)

EncodeTokenMap(token) ==
    Message(TypeDefinition(MapTypeId))
        \o Message(MapValue(MapTypeId, <<<<TokenName, token>>>>))

(***************************************************************************)
(* The gob decoder.  A reader takes the bytes left and returns a value and *)
(* the bytes after it, or Refused.                                         *)
(***************************************************************************)
Refused == [ok |-> FALSE]

Read(value, rest) == [ok |-> TRUE, value |-> value, rest |-> rest]

\* Runs the next reader on what the last one left; the first refusal stays.
Then(reading, Reader(_, _)) ==
    IF reading.ok THEN Reader(reading.value, reading.rest) ELSE reading

Take(bytes, count) ==
    IF Len(bytes) < count
    THEN Refused
    ELSE Read(SubSeq(bytes, 1, count), SubSeq(bytes, count + 1, Len(bytes)))

ReadUint(bytes) ==
    Then(Take(bytes, 1), LAMBDA first, rest :
        IF first[1] < 128 THEN Read(first[1], rest)
        ELSE IF 256 - first[1] > 8 THEN Refused
        ELSE Then(Take(rest, 256 - first[1]), LAMBDA digits, tail :
                 Read(FoldLeft(LAMBDA n, b : 256 * n + b, 0, digits), tail)))

ReadInt(bytes) ==
    Then(ReadUint(bytes), LAMBDA raw, rest :
        Read(IF raw % 2 = 1 THEN -(raw \div 2) - 1 ELSE raw \div 2, rest))

\* A length and that many bytes: both `string` and `message`.
ReadString(bytes) == Then(ReadUint(bytes), LAMBDA n, rest : Take(rest, n))

ReadMessage(bytes) == Then(ReadUint(bytes), LAMBDA n, rest : Take(rest, n))

ExpectUint(bytes, expected) ==
    Then(ReadUint(bytes), LAMBDA n, rest :
        IF n = expected THEN Read(n, rest) ELSE Refused)

ExpectInt(bytes, expected) ==
    Then(ReadInt(bytes), LAMBDA i, rest :
        IF i = expected THEN Read(i, rest) ELSE Refused)

ExpectString(bytes, expected) ==
    Then(ReadString(bytes), LAMBDA s, rest :
        IF s = expected THEN Read(s, rest) ELSE Refused)

\* Reads the listed unsigned numbers, none of which is kept.
ExpectUints(reading, numbers) ==
    FoldLeft(LAMBDA acc, n :
                 Then(acc, LAMBDA value, rest : ExpectUint(rest, n)),
             reading, numbers)

\* A body that is read to its last byte gives value, any other is refused.
AtEnd(reading, value) ==
    IF reading.ok /\ reading.rest = <<>> THEN Read(value, <<>>) ELSE Refused

\* The map type's name is left out (a delta of two) or is the expected one.
ReadTypeName(bytes) ==
    Then(ReadUint(bytes), LAMBDA delta, rest :
        IF delta = 2 THEN Read(delta, rest)
        ELSE IF delta = 1
        THEN Then(ExpectString(rest, MapTypeName), LAMBDA name, tail :
                 ExpectUint(tail, 1))
        ELSE Refused)

ReadTypeDefinition(body) ==
    LET announced == ReadInt(body)
        id == -announced.value
        named == Then(ExpectUints(announced, <<MapField + 1, 1>>),
                      LAMBDA n, rest : ReadTypeName(rest))
        typed == Then(named, LAMBDA n, rest : ExpectInt(rest, id))
        keyed == Then(ExpectUints(typed, <<0, 1>>), LAMBDA n, rest :
                     ExpectInt(rest, InterfaceTypeId))
        elem == Then(ExpectUints(keyed, <<1>>), LAMBDA n, rest :
                    ExpectInt(rest, InterfaceTypeId))
    IN  IF announced.ok /\ id \in {MapTypeId, LegacyMapTypeId}
        THEN AtEnd(ExpectUints(elem, <<0, 0>>), id)
        ELSE Refused

ReadInterfaceString(bytes) ==
    LET named == ExpectString(bytes, StringName)
        typed == Then(named, LAMBDA s, rest : ExpectInt(rest, StringTypeId))
    IN  Then(Then(typed, LAMBDA i, rest : ReadMessage(rest)), LAMBDA inner, rest :
            LET text == Then(ExpectUint(inner, 0), LAMBDA z, r : ReadString(r))
            IN  IF text.ok /\ text.rest = <<>>
                THEN Read(text.value, rest) ELSE Refused)

ReadMapValue(body, id) ==
    LET opened == Then(ExpectInt(body, id), LAMBDA i, rest : ExpectUint(rest, 0))
        counted == Then(opened, LAMBDA z, rest : ReadUint(rest))
        Entry(reading) ==
            Then(reading, LAMBDA entries, rest :
                Then(ReadInterfaceString(rest), LAMBDA key, tail :
                    Then(ReadInterfaceString(tail), LAMBDA val, end :
                        Read(Append(entries, <<key, val>>), end))))
        read == FoldLeft(LAMBDA acc, i : Entry(acc),
                         Read(<<>>, counted.rest), [i \in 1..counted.value |-> i])
    IN  IF counted.ok /\ read.ok THEN AtEnd(read, read.value) ELSE Refused

DecodeStringMap(stream) ==
    Then(ReadMessage(stream), LAMBDA definition, rest :
        Then(ReadTypeDefinition(definition), LAMBDA id, none :
            Then(ReadMessage(rest), LAMBDA body, tail :
                IF tail = <<>> THEN ReadMapValue(body, id) ELSE Refused)))

DecodeTokenMap(stream) ==
    Then(DecodeStringMap(stream), LAMBDA entries, none :
        LET tokens == SelectSeq(entries, LAMBDA e : e[1] = TokenName)
        IN  IF tokens = <<>> THEN Refused ELSE Read(tokens[1][2], <<>>))

(***************************************************************************)
(* The envelope (securecookie.rs).  A codec is its key and whether the raw *)
(* MACs it makes contain the separator; a value is its content and size.   *)
(***************************************************************************)
MaxLength == 4096
MaxAge == 86400 * 30
MacLen == 32
SessionCookieName == "internal_auth_session"
SessionCookieNameLen == 21

Pipe == <<"pipe">>
Base64(content) == <<"base64", content>>
Base64Len(n) == 4 * ((n + 2) \div 3)
TimestampLen == 10

\* HMAC-SHA256: other keys and other messages give other MACs.
Mac(codec, message) ==
    LET tag == <<"mac", codec.key, message>>
    IN  IF codec.pipes THEN <<Pipe, tag, Pipe>> ELSE <<tag>>

\* The parts of the envelope are sequences: a part may turn out empty.
Signed(name, timestamp, value) ==
    <<<<"name", name>>, Pipe>> \o timestamp \o <<Pipe>> \o value

EncodeAt(codec, name, value, timestamp) ==
    LET signed == Signed(name, <<<<"time", timestamp>>>>,
                         <<Base64(value.content)>>)
        payload == SubSeq(signed, 3, 5) \o <<Pipe>> \o Mac(codec, signed)
        length == Base64Len(TimestampLen + 1 + Base64Len(value.size) + 1 + MacLen)
    IN  IF length > MaxLength
        THEN Refused
        ELSE Read([raw |-> payload, length |-> length], <<>>)

\* The first separator after a place.
PipeAfter(raw, place) ==
    LET pipes == {i \in DOMAIN raw : i > place /\ raw[i] = Pipe}
    IN  CHOOSE i \in pipes : \A j \in pipes : i <= j

FirstPipe(raw) == PipeAfter(raw, 0)
SecondPipe(raw) == PipeAfter(raw, FirstPipe(raw))

\* The separators split the envelope into three parts.
HasThreeParts(raw) ==
    \E i, j \in DOMAIN raw : i < j /\ raw[i] = Pipe /\ raw[j] = Pipe

\* Fault: splitting at every separator, the MAC's own included.
MacPart_EveryPipe(raw) ==
    LET rest == SubSeq(raw, SecondPipe(raw) + 1, Len(raw))
        pipes == {i \in DOMAIN rest : rest[i] = Pipe}
    IN  IF pipes = {} THEN rest
        ELSE SubSeq(rest, 1, (CHOOSE i \in pipes : \A j \in pipes : i <= j) - 1)

\* Only the first two separators split: the rest is the MAC.
MacPart(raw) == SubSeq(raw, SecondPipe(raw) + 1, Len(raw))

DecodeAt(codec, name, cookie, now) ==
    LET raw == cookie.raw
        timestamp == SubSeq(raw, 1, FirstPipe(raw) - 1)
        value == SubSeq(raw, FirstPipe(raw) + 1, SecondPipe(raw) - 1)
    IN  IF /\ cookie.length <= MaxLength
           /\ HasThreeParts(raw)
           /\ Mac(codec, Signed(name, timestamp, value)) = MacPart(raw)
           /\ timestamp[1][2] >= now - MaxAge
        THEN Read(value[1][2], <<>>)
        ELSE Refused

(***************************************************************************)
(* The login token (jwt.rs) and the cookie that carries it (session.rs).   *)
(***************************************************************************)
MaxSessionTtl == 30 * 24 * 3600

\* Fault: the configured ttl as it is.
EffectiveSessionTtl_Unbounded(ttl) == ttl

EffectiveSessionTtl(ttl) == IF ttl < MaxSessionTtl THEN ttl ELSE MaxSessionTtl

ExpiresAt(issuedAt, ttl) == issuedAt + ttl

\* A character of a name: its bytes in UTF-8 and in a JSON string.
Utf8Len(char) == IF char = "two-byte" THEN 2 ELSE 1
\* Fault: every character as a \uXXXX escape.
JsonLen_EscapesAll(char) == 6 * Utf8Len(char)

JsonLen(char) == IF char \in {"quote", "two-byte"} THEN 2 ELSE 1

TextLen(Size(_), text) == FoldLeft(LAMBDA n, c : n + Size(c), 0, text)

\* The parts of the claims beside `sub` take 116 bytes: a 36-byte jti, the
\* constant iss and aud, two ten-digit times and the JSON around them.
LoginClaims(username, issuedAt, ttl) ==
    [sub |-> username, exp |-> ExpiresAt(issuedAt, ttl),
     size |-> 116 + TextLen(JsonLen, username)]

\* Header, payload and signature in base64 without padding.
MintLoginToken(username, issuedAt, ttl) ==
    LET claims == LoginClaims(username, issuedAt, ttl)
        size == 36 + 1 + (4 * claims.size + 2) \div 3 + 1 + 43
    IN  [claims |-> claims, bytes |-> [i \in 1..size |-> 97]]

Login(codec, token, now) ==
    LET payload == EncodeTokenMap(token.bytes)
    IN  EncodeAt(codec, SessionCookieName,
                 [content |-> payload, size |-> Len(payload)], now)

\* What lakeFS does with a session cookie: open it, read the token out of it,
\* and refuse a token at its exp and after.
LakefsAccepts(codec, cookie, token, now) ==
    LET opened == DecodeAt(codec, SessionCookieName, cookie, now)
    IN  /\ opened.ok
        /\ DecodeTokenMap(opened.value) = Read(token.bytes, <<>>)
        /\ now < token.claims.exp

(***************************************************************************)
(* Properties, of one input each.                                          *)
(***************************************************************************)

\* A gob stream is read back to the entries that were written, whichever of
\* the accepted type ids it uses and whether or not the map type is named: the
\* token is the value of its first `token` entry.  A stream that mixes type
\* ids or has another one, ends early at any byte, or goes on after the last
\* message, is refused (encode_token_map against decode_token_map).
GobReadsBack(in) ==
    LET definition == IF in.named
                      THEN NamedTypeDefinition(in.defId, MapTypeName)
                      ELSE TypeDefinition(in.defId)
        stream == Message(definition) \o Message(MapValue(in.valId, in.entries))
        known == in.defId = in.valId /\ in.defId \in {MapTypeId, LegacyMapTypeId}
        tokens == {i \in DOMAIN in.entries : in.entries[i][1] = TokenName}
        first == CHOOSE i \in tokens : \A j \in tokens : i <= j
    IN  /\ DecodeTokenMap(stream) =
              IF known /\ tokens # {}
              THEN Read(in.entries[first][2], <<>>) ELSE Refused
        /\ \A n \in 0..(Len(stream) - 1) :
              ~DecodeTokenMap(SubSeq(stream, 1, n)).ok
        /\ ~DecodeTokenMap(Append(stream, 0)).ok

\* A sealed value opens with the same key and name until it is older than the
\* age limit, whatever bytes its MAC holds, and never with another key or
\* under another cookie's name.  Without any one of its parts it does not open
\* (encode_at against decode_at).
CookieOpensOnlyForItself(in) ==
    LET sealed == EncodeAt(in.codec, in.name, in.value, in.sealedAt)
        raw == sealed.value.raw
    IN  sealed.ok =>
          /\ DecodeAt(in.reader, in.readAs, sealed.value, in.now) =
                IF /\ in.reader.key = in.codec.key
                   /\ in.readAs = in.name
                   /\ in.now <= in.sealedAt + MaxAge
                THEN Read(in.value.content, <<>>) ELSE Refused
          /\ \A i \in DOMAIN raw :
                ~DecodeAt(in.reader, in.readAs,
                          [sealed.value EXCEPT !.raw = RemoveAt(raw, i)], in.now).ok

\* Every username the identifier rules allow gets a session cookie: the
\* envelope is within gorilla's limit, and name and value together within the
\* 4096 bytes past which a browser drops a cookie silently (session.rs login).
SessionCookieFits(in) ==
    TextLen(Utf8Len, in.username) <= 512 =>
        LET cookie == Login(in.codec, MintLoginToken(in.username, 0, 3600), 0)
        IN  cookie.ok /\ SessionCookieNameLen + cookie.value.length <= 4096

\* lakeFS accepts a session for exactly the effective session ttl after its
\* token was minted, for every configured ttl and however long the cookie was
\* sealed after the token: the envelope's age limit never ends it earlier.
SessionLivesItsTtl(in) ==
    LET ttl == EffectiveSessionTtl(in.ttl)
        token == MintLoginToken(in.username, in.mintedAt, ttl)
        cookie == Login(in.codec, token, in.mintedAt + in.delay)
    IN  in.now >= in.mintedAt + in.delay =>
            (LakefsAccepts(in.codec, cookie.value, token, in.now)
                <=> in.now < in.mintedAt + ttl)
=============================================================================
