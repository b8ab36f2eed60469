--------------------------- MODULE IdentityClaims ---------------------------
(***************************************************************************)
(* What lakefs-authn reads out of a verified ID token: the claims as text  *)
(* (oidc/claims.rs), the required ones (--oidc-validate-claims, parsed by  *)
(* config.rs), the username and the email (provision.rs), and the groups   *)
(* (oidc/types.rs, provision.rs).                                          *)
(*                                                                         *)
(* A claim value is a record with a kind: null, text, bool, number, array  *)
(* or object.  Texts are sequences of characters, as in TextRules; a word  *)
(* such as "false" and the compact JSON of an object are one character.    *)
(***************************************************************************)
EXTENDS TextRules, Functions

Join(texts) ==
    IF texts = <<>> THEN <<>>
    ELSE FoldLeft(LAMBDA out, t : out \o <<",">> \o t, texts[1], Tail(texts))

\* raw_payload: the claims of a verified token, or nothing when the token is
\* not three parts, its payload not base64 or not a JSON object.
RawPayload(token) ==
    IF token.parts = 3 /\ token.base64 /\ token.payload.kind = "object"
    THEN [ok |-> TRUE, claims |-> token.payload.members]
    ELSE [ok |-> FALSE]

IsText(value) == value.kind = "text"

FlattenValue(value) ==
    CASE value.kind = "null" -> [ok |-> FALSE]
      [] value.kind = "text" -> [ok |-> TRUE, text |-> value.text]
      [] value.kind = "bool" -> [ok |-> TRUE, text |-> <<IF value.flag THEN "true" ELSE "false">>]
      [] value.kind = "number" -> [ok |-> TRUE, text |-> <<value.digits>>]
      [] value.kind = "array" /\ \A item \in Range(value.items) : IsText(item) ->
             [ok |-> TRUE, text |-> Join([i \in DOMAIN value.items |-> value.items[i].text])]
      [] OTHER -> [ok |-> TRUE, text |-> <<value.json>>]

FlattenClaims(claims) ==
    [name \in {n \in DOMAIN claims : FlattenValue(claims[n]).ok} |->
        FlattenValue(claims[name]).text]

\* The claim as text, or nothing if absent or blank.
ClaimText(claims, name) ==
    IF name \in DOMAIN claims /\ FlattenValue(claims[name]).ok
          /\ NonBlank(FlattenValue(claims[name]).text) # <<>>
    THEN [ok |-> TRUE, text |-> FlattenValue(claims[name]).text]
    ELSE [ok |-> FALSE]

\* The first of the names, those to skip left out, whose claim has a text.
FirstClaim(claims, names, skip) ==
    LET found == {i \in DOMAIN names : names[i] \notin skip /\ ClaimText(claims, names[i]).ok}
    IN  IF found = {} THEN [ok |-> FALSE]
        ELSE ClaimText(claims, names[CHOOSE i \in found : \A j \in found : i <= j])

\* Fault: membership instead of the whole flattened array.
ValidateClaims_Membership(claims, expected) ==
    \A name \in DOMAIN expected :
        /\ name \in DOMAIN claims
        /\ \/ FlattenValue(claims[name]) = [ok |-> TRUE, text |-> expected[name]]
           \/ /\ claims[name].kind = "array"
              /\ \E item \in Range(claims[name].items) :
                    FlattenValue(item) = [ok |-> TRUE, text |-> expected[name]]

ValidateClaims(claims, expected) ==
    \A name \in DOMAIN expected :
        /\ name \in DOMAIN claims
        /\ FlattenValue(claims[name]) = [ok |-> TRUE, text |-> expected[name]]

(***************************************************************************)
(* `key=value,key=value` (config.rs KeyValues).  An item without "="       *)
(* continues the value before it.                                          *)
(***************************************************************************)
InsertOnce(state) ==
    IF state.key = <<>> THEN state
    ELSE IF state.key \in DOMAIN state.map THEN [state EXCEPT !.ok = FALSE]
    ELSE [state EXCEPT !.map = state.map @@ (state.key :> state.val), !.key = <<>>]

\* Fault: an item without "=" that starts a value instead of continuing one.
ReadItem_Replaces(state, item) ==
    LET pair == SplitAt(item, "=", 2)
        key == NonBlank(pair[1])
        done == InsertOnce(state)
    IN  IF Len(pair) = 2
        THEN [done EXCEPT !.ok = @ /\ key # <<>> /\ NonBlank(pair[2]) # <<>>,
                          !.key = key, !.val = NonBlank(pair[2])]
        ELSE [state EXCEPT !.ok = @ /\ state.key # <<>>, !.val = item]

\* One comma separated item.
ReadItem(state, item) ==
    LET pair == SplitAt(item, "=", 2)
        key == NonBlank(pair[1])
        done == InsertOnce(state)
    IN  IF Len(pair) = 2
        THEN [done EXCEPT !.ok = @ /\ key # <<>> /\ NonBlank(pair[2]) # <<>>,
                          !.key = key, !.val = NonBlank(pair[2])]
        ELSE [state EXCEPT !.ok = @ /\ state.key # <<>>,
                           !.val = @ \o <<",">> \o item]

KeyValues(text) ==
    LET Step(state, item) == IF state.ok THEN ReadItem(state, item) ELSE state
        read == FoldLeft(Step, [ok |-> TRUE, map |-> <<>>, key |-> <<>>, val |-> <<>>],
                         CommaList(text))
    IN  IF read.ok THEN InsertOnce(read) ELSE read

(***************************************************************************)
(* The username and the email (provision.rs).                              *)
(***************************************************************************)
\* Fault: a provider that sends the flag as text is not understood.
EmailIsUnverified_BooleanOnly(claims) ==
    /\ "email_verified" \in DOMAIN claims
    /\ claims["email_verified"] = [kind |-> "bool", flag |-> FALSE]

\* The provider says so with a boolean or with the word, in either case.
EmailIsUnverified(claims) ==
    /\ "email_verified" \in DOMAIN claims
    /\ FlattenValue(claims["email_verified"]).ok
    /\ FlattenValue(claims["email_verified"]).text \in {<<"false">>, <<"False">>}

ValidUsername(username) == ValidEntityId(username) /\ ~\E c \in Range(username) : Blank(c)

DeriveUsername(claims, names) ==
    LET skip == IF EmailIsUnverified(claims) THEN {"email"} ELSE {}
        found == FirstClaim(claims, names, skip)
    IN  IF found.ok /\ ValidUsername(NonBlank(found.text))
        THEN [ok |-> TRUE, text |-> NonBlank(found.text)]
        ELSE [ok |-> FALSE]

VerifiedEmail(claims) ==
    IF EmailIsUnverified(claims) THEN [ok |-> FALSE] ELSE ClaimText(claims, "email")

(***************************************************************************)
(* The groups (oidc/types.rs GroupsClaim, provision.rs resolve_groups).    *)
(***************************************************************************)
\* Fault: an array whose items are taken as they are.
GroupValues_Untrimmed(value) ==
    CASE value.kind = "text" -> [ok |-> TRUE, names |-> CommaList(value.text)]
      [] value.kind = "array" /\ (\A item \in Range(value.items) : IsText(item)) ->
             [ok |-> TRUE, names |-> [i \in DOMAIN value.items |-> value.items[i].text]]
      [] OTHER -> [ok |-> FALSE]

\* An array of texts or one comma separated text; nothing else is readable.
GroupValues(value) ==
    CASE value.kind = "text" -> [ok |-> TRUE, names |-> CommaList(value.text)]
      [] value.kind = "array" /\ (\A item \in Range(value.items) : IsText(item)) ->
             [ok |-> TRUE,
              names |-> SelectSeq([i \in DOMAIN value.items |-> NonBlank(value.items[i].text)],
                                  LAMBDA t : t # <<>>)]
      [] OTHER -> [ok |-> FALSE]

\* The sorted list without duplicates is the set of its members.
ResolveGroups(claims, s) ==
    IF s.claim \notin DOMAIN claims \/ ~GroupValues(claims[s.claim]).ok
    THEN s.initial
    ELSE LET named == Range(GroupValues(claims[s.claim]).names)
             mapped == {s.map[g] : g \in named \cap DOMAIN s.map}
             kept == IF s.strict THEN {} ELSE named \ DOMAIN s.map
         IN  IF mapped \cup kept = {} /\ ~s.strict THEN s.initial ELSE mapped \cup kept

(***************************************************************************)
(* Properties, of one input each.                                          *)
(***************************************************************************)

\* What lakeFS compares after an STS login: the flattened claims.
LakefsValidates(flat, expected) ==
    \A name \in DOMAIN expected :
        name \in DOMAIN flat /\ flat[name] = expected[name]

\* The claim requirements mean the same in a browser login, where this server
\* enforces them on the token, and in an STS login, where lakeFS enforces them
\* on the flattened claims it is sent: for every setting that parses and every
\* shape of claim (validate_claims against flatten_claims).
ClaimChecksAgree(in) ==
    LET expected == KeyValues(in.setting)
        read == RawPayload(in.token)
    IN  expected.ok /\ read.ok =>
            (ValidateClaims(read.claims, expected.map)
                <=> LakefsValidates(FlattenClaims(read.claims), expected.map))

\* A parsed key=value setting written out again parses to the same map: no key
\* and no item is lost or doubled, and a value with commas, which stands for
\* an array, stays one value (KeyValues::from_str).
SettingReadsBack(in) ==
    LET parsed == KeyValues(in.text)
        keys == SetToSeq(DOMAIN parsed.map)
        written == Join([i \in DOMAIN keys |-> keys[i] \o <<"=">> \o parsed.map[keys[i]]])
        names == {NonBlank(SplitAt(item, "=", 2)[1]) :
                     item \in {t \in Range(CommaList(in.text)) : "=" \in Range(t)}}
    IN  parsed.ok => /\ KeyValues(written) = parsed
                     /\ DOMAIN parsed.map = names
                     /\ Len(CommaList(written)) = Len(CommaList(in.text))

\* An email the provider marks unverified has no influence on the identity:
\* without the claim the same username is derived, and no email is stored.
UnverifiedEmailUnused(in) ==
    LET flag == in.claims["email_verified"]
        unverified == /\ FlattenValue(flag).ok
                      /\ FlattenValue(flag).text \in {<<"false">>, <<"False">>}
        without == Restrict(in.claims, DOMAIN in.claims \ {"email"})
    IN  "email_verified" \in DOMAIN in.claims /\ unverified =>
            /\ DeriveUsername(in.claims, in.names) = DeriveUsername(without, in.names)
            /\ ~VerifiedEmail(in.claims).ok

\* A user gets the same groups whether the provider sends the groups as an
\* array or as one comma separated text, padded and blank items included, and
\* in strict mode only groups the map gives, unless the claim cannot be read.
GroupFormsAgree(in) ==
    LET Text(t) == [kind |-> "text", text |-> t]
        array == [kind |-> "array", items |-> [i \in DOMAIN in.items |-> Text(in.items[i])]]
        asArray == ResolveGroups([groups |-> array], in.settings)
        asText == ResolveGroups([groups |-> Text(Join(in.items))], in.settings)
    IN  /\ asArray = asText
        /\ in.settings.strict => asArray \subseteq Range(in.settings.map)
=============================================================================
