--------------------------- MODULE MCConversions ---------------------------
(***************************************************************************)
(* The inputs of Conversions: short texts over the characters that matter  *)
(* to the code, sizes on both sides of each limit, and combinations of     *)
(* settings.                                                               *)
(***************************************************************************)
EXTENDS Conversions

Texts(alphabet, n) == UNION {[1..k -> alphabet] : k \in 0..n}
Bytes(n) == [i \in 1..n |-> 97]

\* Lengths at which a length prefix grows from one byte to two and to three.
MCGobInputs ==
    {[defId |-> 64, valId |-> 64, named |-> FALSE, entries |-> <<<<TokenName, Bytes(n)>>>>] :
        n \in {0, 1, 76, 77, 78, 79, 80, 81, 82, 83, 84, 85, 86, 87, 88,
               124, 125, 126, 127, 128, 129, 253, 254, 255, 256}}
    \cup [defId : {6, 64, 65}, valId : {64, 65}, named : BOOLEAN,
          entries : {<<<<TokenName, Bytes(1)>>>>, <<>>,
                     <<<<StringName, Bytes(2)>>, <<TokenName, Bytes(3)>>>>,
                     <<<<TokenName, Bytes(4)>>, <<TokenName, Bytes(5)>>>>,
                     <<<<StringName, TokenName>>>>}]

Codecs == [key : {1, 2}, pipes : BOOLEAN]

EnvelopeFields ==
    [codec : {c \in Codecs : c.key = 1}, reader : Codecs, name : {"session", "flow"},
     readAs : {"session", "flow"}, sealedAt : {100},
     value : {[content |-> "c", size |-> n] : n \in {10, 2268, 2269, 3000}},
     now : {100, 100 + MaxAge, 101 + MaxAge}]

MCEnvelopeInputs ==
    {in \in EnvelopeFields : in.reader.key = in.codec.key => in.reader = in.codec}

MCSessionInputs ==
    [codec : {[key |-> 1, pipes |-> TRUE]}, username : {<<"plain">>}, mintedAt : {100},
     delay : {0, 1, 30}, ttl : {60, 3600, MaxSessionTtl - 1, MaxSessionTtl, MaxSessionTtl + 3600},
     now : {100, 130, 159, 160, 3699, 3700, 99 + MaxSessionTtl, 100 + MaxSessionTtl,
            101 + MaxSessionTtl, 200 + MaxSessionTtl, 3700 + MaxSessionTtl}]

MCSizeInputs ==
    {[codec |-> [key |-> 1, pipes |-> FALSE], username |-> [i \in 1..n |-> c]] :
        n \in {1, 256, 511, 512, 513}, c \in {"plain", "quote", "two-byte"}}

MCPrefixInputs ==
    [prefix : Texts({"a", "%", "_", "\\"}, 2), text : Texts({"a", "b", "%", "_", "\\"}, 3)]

MCIdInputs == {[text |-> t] : t \in Texts({"a", ".", "/", "%", "*", "ctl", " "}, 3)}

Url(kind, scheme, host, port, text) ==
    [kind |-> kind, scheme |-> scheme, host |-> host, port |-> port, text |-> text]

MCNextInputs ==
    [own : {Url("absolute", "https", "authn", "", <<"/">>)},
     postLogin : {Url("relative", "", "", "", <<"/">>), Url("absolute", "https", "lakefs", "", <<"/">>)},
     allowed : SUBSET {[scheme |-> "", host |-> "lakefs", port |-> ""],
                       [scheme |-> "https", host |-> "lakefs", port |-> "8000"]},
     next : {Url("relative", "", "", "", t) :
                t \in Texts({"/", "\\", "%2f", "%5c", "a", "ctl"}, 3)}
        \cup {Url("absolute", s, h, p, <<"/">>) :
                s \in {"http", "https", "ftp"}, h \in {"lakefs", "other"}, p \in {"", "8000", "9000"}}
        \cup {Url("none", "", "", "", <<>>)}]

MCSettingInputs == {[text |-> t] : t \in Texts({"a", "b", "=", ",", " "}, 5)}

Text(t) == [kind |-> "text", text |-> t]
Array(items) == [kind |-> "array", items |-> items, json |-> "[..]"]
Values == {[kind |-> "null"], Text(<<"a">>), Text(<<"a", ",", "b">>), Text(<<>>), Text(<<"true">>),
           [kind |-> "bool", flag |-> TRUE], [kind |-> "number", digits |-> "7"],
           Array(<<Text(<<"a">>), Text(<<"b">>)>>), Array(<<Text(<<"a">>)>>), Array(<<>>),
           Array(<<Text(<<"a">>), [kind |-> "null"]>>), [kind |-> "object", json |-> "{..}"]}

MCClaimInputs ==
    [setting : {<<"k", "=", "a">>, <<"k", "=", "a", ",", "b">>, <<"k", "=", "true">>, <<"k", "=", "7">>,
                <<"k", "=", "[..]">>, <<"k", "=", "a", ",", "j", "=", "b">>, <<>>, <<"k">>},
     token : {[parts |-> p, base64 |-> TRUE,
               payload |-> [kind |-> "object", members |-> m]] :
                  p \in {2, 3}, m \in [{<<"k">>} -> Values] \cup [{<<"k">>, <<"j">>} -> Values]}]

MCEmailInputs ==
    [names : {<<"email">>, <<"email", "name">>, <<"name", "email">>},
     claims : [{"email", "email_verified"} ->
                  Values \cup {Text(<<" ", "e", " ">>), Text(<<"false">>), Text(<<"False">>),
                               [kind |-> "bool", flag |-> FALSE]}]
        \cup [email : {Text(<<"e">>)}, name : {Text(<<"a">>), Text(<<" ">>), Text(<<"a", "/">>)},
              email_verified : {Text(<<"False">>), [kind |-> "bool", flag |-> FALSE], Text(<<"true">>)}]]

MCGroupInputs ==
    [items : UNION {[1..k -> {<<"a">>, <<" ", "a">>, <<"b", " ">>, <<" ">>, <<"c">>}] : k \in 0..3},
     settings : [claim : {"groups"}, initial : {{<<"d">>}}, strict : BOOLEAN,
                 map : {<<>>, (<<"a">> :> <<"x">>) @@ (<<"b">> :> <<"x">>)}]]

Written == {<<>>, <<" ">>, <<"a">>, <<" ", "a">>, <<"b", " ">>}

MCSettingsInputs ==
    [secret : Written, token : Written, now : {10000},
     skew : {-7200, -60, 0, 60, 299, 300}]

MCBearerInputs ==
    [secret : Written, token : Written, now : {10000},
     header : {[kind |-> "none"]}
        \cup {StaticToken(t) : t \in Written \ {<<>>, <<" ">>}}
        \cup [kind : {"jwt"}, key : {<<"a">>, <<"b">>, <<"c">>},
              aud : {"", LoginAudience, InternalAudience}, exp : {0, 9939, 9940, 10000, 10300}]]

Arn(service) == <<"arn", ":", "lakefs", ":">> \o service \o <<":", ":", ":", "r">>
Statement(action, resource) == [action |-> action, resource |-> resource]
Fs == <<"f", "s", ":", "R">>
Star == [kind |-> "text", text |-> AllResources]

MCPolicyInputs ==
    [request : [name : {<<"p">>, <<".", ".">>}, endpoint : BOOLEAN,
                statements : {<<>>, <<Statement(<<Fs>>, Star)>>, <<Statement(<<>>, Star)>>,
                              <<Statement(<<Fs, <<"f", "s", ":">>>>, Star)>>,
                              <<Statement(<<<<"f", "s", ":", "R", ":">>>>, Star)>>,
                              <<Statement(<<Fs>>, [kind |-> "list", items |-> <<Arn(<<"s">>), AllResources>>])>>,
                              <<Statement(<<Fs>>, [kind |-> "list", items |-> <<>>])>>,
                              <<Statement(<<Fs>>, [kind |-> "text", text |-> Arn(<<>>)])>>},
                headers : [site : {"", "same-origin", "same-site", "cross-site", "none"},
                           origin : {"", "builder", "elsewhere"}, host : {"builder"},
                           cookies : {<<>>, <<[name |-> "other", value |-> "x"]>>,
                                      <<[name |-> "other", value |-> "x"],
                                        [name |-> LakefsSession, value |-> "s"],
                                        [name |-> LakefsSession, value |-> "t"]>>}]],
     stored : BOOLEAN,
     answer : {[kind |-> "created"], [kind |-> "unreadable"], [kind |-> "none"]}
        \cup [kind : {"status"}, status : {400, 401, 409, 500, 503}]]
=============================================================================
