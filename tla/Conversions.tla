---------------------------- MODULE Conversions ----------------------------
(***************************************************************************)
(* The functions of SessionCookie, TextRules, BearerTokens, IdentityClaims *)
(* and PolicyBuilder, applied to inputs: the environment hands over one    *)
(* input after another, each of one kind, and each property says what the  *)
(* code makes of the inputs of its kind.                                   *)
(***************************************************************************)
EXTENDS SessionCookie, BearerTokens, IdentityClaims, PolicyBuilder

CONSTANTS
    GobInputs,       \* gob streams
    EnvelopeInputs,  \* sealed cookies and who opens them
    SessionInputs,   \* sessions and when lakeFS reads them
    SizeInputs,      \* usernames of every length
    PrefixInputs,    \* list prefixes and the names they are compared with
    IdInputs,        \* identifiers put into a request path
    NextInputs,      \* `next` targets of a login
    SettingInputs,   \* texts of key=value settings
    ClaimInputs,     \* ID tokens and required claims
    EmailInputs,     \* claims with an email
    GroupInputs,     \* groups claims
    SettingsInputs,  \* secret, static token and clock skew of two servers
    BearerInputs,    \* presented bearer tokens
    PolicyInputs     \* requests to the builder's write route

\* A text or a list, whatever its items are.
IsSequence(seq) == seq \in Seq({seq[i] : i \in DOMAIN seq})

\* A reader with the key of the writer makes the same MACs; the clocks count
\* seconds.
ASSUME EnvelopeAssumption ==
    \A in \in EnvelopeInputs :
        /\ in.codec.pipes \in BOOLEAN /\ in.reader.pipes \in BOOLEAN
        /\ in.reader.key = in.codec.key => in.reader = in.codec
        /\ in.sealedAt \in Int /\ in.now \in Int /\ in.value.size \in Nat

\* Prefixes, names and identifiers are texts.
ASSUME TextAssumption ==
    /\ \A in \in PrefixInputs : IsSequence(in.prefix) /\ IsSequence(in.text)
    /\ \A in \in IdInputs : IsSequence(in.text)

\* A `next` is left out, relative or absolute; the configured post-login URL is
\* absolute or a path of this server, as the default "/" is.
ASSUME NextAssumption ==
    \A in \in NextInputs :
        /\ in.next.kind \in {"none", "relative", "absolute"}
        /\ in.next.kind = "relative" => IsSequence(in.next.text)
        /\ LET url == in.postLogin
           IN  /\ url = [kind |-> url.kind, scheme |-> url.scheme, host |-> url.host,
                         port |-> url.port, text |-> url.text]
               /\ url.kind \in {"absolute", "relative"}
               /\ url.kind = "relative" => ~NamesAuthority(url.text)

\* The claims that may name the user are a list.
ASSUME EmailAssumption == \A in \in EmailInputs : IsSequence(in.names)

\* Settings are texts and the clocks of the two servers count seconds.
ASSUME SettingsAssumption ==
    \A in \in SettingsInputs :
        IsSequence(in.secret) /\ IsSequence(in.token) /\ in.now \in Nat /\ in.skew \in Int

\* A request has no bearer, an opaque one, or one that parses as a JWT.
ASSUME BearerAssumption ==
    \A in \in BearerInputs :
        /\ in.now \in Nat /\ in.header.kind \in {"none", "static", "jwt"}
        /\ in.header.kind = "jwt" => in.header.exp \in Nat

\* The cookies of a request are pairs; lakeFS answers 201 with a body, with
\* another status, or not at all.
ASSUME PolicyAssumption ==
    \A in \in PolicyInputs :
        /\ IsSequence(in.request.headers.cookies)
        /\ \A i \in DOMAIN in.request.headers.cookies :
              LET pair == in.request.headers.cookies[i]
              IN  pair = [name |-> pair.name, value |-> pair.value]
        /\ in.answer.kind \in {"created", "unreadable", "none", "status"}
        /\ in.answer.kind = "status" => in.answer.status \in Nat \ {201}

VARIABLE input

Nothing == [kind |-> "nothing", of |-> <<>>]

Give(kind, inputs) ==
    /\ input = Nothing
    /\ \E in \in inputs : input' = [kind |-> kind, of |-> in]

GiveGob == Give("gob", GobInputs)
GiveEnvelope == Give("envelope", EnvelopeInputs)
GiveSession == Give("session", SessionInputs)
GiveSize == Give("size", SizeInputs)
GivePrefix == Give("prefix", PrefixInputs)
GiveId == Give("id", IdInputs)
GiveNext == Give("next", NextInputs)
GiveSetting == Give("setting", SettingInputs)
GiveClaims == Give("claims", ClaimInputs)
GiveEmail == Give("email", EmailInputs)
GiveGroups == Give("groups", GroupInputs)
GiveSettings == Give("settings", SettingsInputs)
GiveBearer == Give("bearer", BearerInputs)
GivePolicy == Give("policy", PolicyInputs)

ConvInit == input = Nothing

ConvNext ==
    \/ GiveGob \/ GiveEnvelope \/ GiveSession \/ GiveSize
    \/ GivePrefix \/ GiveId \/ GiveNext
    \/ GiveSetting \/ GiveClaims \/ GiveEmail \/ GiveGroups
    \/ GiveSettings \/ GiveBearer \/ GivePolicy

ConvSpec == ConvInit /\ [][ConvNext]_input

\* Every gob stream reads back to the entries written, or is refused when it is
\* cut, continued or mixes type ids (gob.rs): see GobReadsBack.
GobCorrect == input.kind = "gob" => GobReadsBack(input.of)

\* Every sealed value opens for its own key and name within the age limit, and
\* for nothing else (securecookie.rs): see CookieOpensOnlyForItself.
EnvelopeCorrect == input.kind = "envelope" => CookieOpensOnlyForItself(input.of)

\* Every session is accepted for exactly its effective ttl (jwt.rs, session.rs,
\* securecookie.rs, config.rs): see SessionLivesItsTtl.
SessionTtlKept == input.kind = "session" => SessionLivesItsTtl(input.of)

\* Every valid username gets a cookie a browser keeps (session.rs login): see
\* SessionCookieFits.
EveryNameFits == input.kind = "size" => SessionCookieFits(input.of)

\* A login that succeeds is a session in lakeFS, for every user and for exactly
\* its time: the four properties of the session cookie.
SessionsWork == GobCorrect /\ EnvelopeCorrect /\ SessionTtlKept /\ EveryNameFits

\* LIKE patterns mean prefixes (pagination.rs): see LikeIsPrefix.
PrefixesMatch == input.kind = "prefix" => LikeIsPrefix(input.of)

\* Identifiers survive the request path (validate.rs, text.rs): see
\* PathNamesItsEntity.
PathsNameEntities == input.kind = "id" => PathNamesItsEntity(input.of)

\* Logins end where they may (util/redirect.rs): see LoginEndsAtAllowedOrigin.
LoginsEndAllowed == input.kind = "next" => LoginEndsAtAllowedOrigin(input.of)

\* A name keeps its meaning in a pattern, a path and a redirect: the three
\* properties of the text rules.
NamesMeanThemselves == PrefixesMatch /\ PathsNameEntities /\ LoginsEndAllowed

\* Settings keep their items (config.rs KeyValues): see SettingReadsBack.
SettingsReadBack == input.kind = "setting" => SettingReadsBack(input.of)

\* Required claims mean the same to both enforcers (oidc/claims.rs): see
\* ClaimChecksAgree.
ClaimsAgree == input.kind = "claims" => ClaimChecksAgree(input.of)

\* Unverified emails do not count (provision.rs): see UnverifiedEmailUnused.
EmailsVerified == input.kind = "email" => UnverifiedEmailUnused(input.of)

\* Both forms of the groups claim give the same groups (oidc/types.rs,
\* provision.rs): see GroupFormsAgree.
GroupsAgree == input.kind = "groups" => GroupFormsAgree(input.of)

\* What the provider says means the same wherever it is read: the four
\* properties of the claims and of the settings about them.
ClaimsMeanTheSame == SettingsReadBack /\ ClaimsAgree /\ EmailsVerified /\ GroupsAgree

\* Servers with the same settings understand each other (auth/token.rs,
\* state.rs): see SameSettingsWork.
SettingsWork == input.kind = "settings" => SameSettingsWork(input.of)

\* Only tokens addressed to the API pass (auth/token.rs): see
\* OnlyAddressedTokens.
TokensAddressed == input.kind = "bearer" => OnlyAddressedTokens(input.of)

\* Bearer tokens of the configured servers pass, and no others: the two
\* properties of bearer authentication.
BearersWork == SettingsWork /\ TokensAddressed

\* The builder reports what happened (policy_builder.rs, lakefs.rs): see
\* BuilderTellsTheTruth.
BuilderTruthful == input.kind = "policy" => BuilderTellsTheTruth(input.of)
=============================================================================
