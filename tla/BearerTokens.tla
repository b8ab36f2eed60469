---------------------------- MODULE BearerTokens ----------------------------
(***************************************************************************)
(* The bearer token between the two servers and between lakeFS and the     *)
(* authorization server (auth/token.rs, auth/middleware.rs, the client's   *)
(* bearer): a configured static token, or an HS256 token minted from the   *)
(* shared secret for every request.                                        *)
(*                                                                         *)
(* A setting is a text, with blanks around it or blank altogether, or left *)
(* out (the empty text).  A token is a static text or a signed record; a   *)
(* signature is checked by comparing keys.                                 *)
(***************************************************************************)
EXTENDS TextRules

InternalAudience == "auth-client"
LoginAudience == "login"
InternalTokenTtl == 5 * 60
LeewaySeconds == 60

\* An HS256 token; aud is "" when the claim is left out, exp is 0 for none.
SignedToken(key, aud, exp) == [kind |-> "jwt", key |-> key, aud |-> aud, exp |-> exp]
StaticToken(text) == [kind |-> "static", text |-> text]

MintInternalToken(key, now) == SignedToken(key, InternalAudience, now + InternalTokenTtl)

(***************************************************************************)
(* The sender: how lakefs-authn is configured, and one request's bearer.   *)
(***************************************************************************)
ClientAuth(secret, token) ==
    IF NonBlank(token) # <<>>
    THEN [kind |-> "static", token |-> NonBlank(token)]
    ELSE [kind |-> "internal", key |-> NonBlank(secret)]

Bearer(auth, now) ==
    IF auth.kind = "static" THEN StaticToken(auth.token)
                            ELSE MintInternalToken(auth.key, now)

(***************************************************************************)
(* The receiver.                                                           *)
(***************************************************************************)
\* Fault: the static token exactly as written in the configuration.
TokenVerifier_Untrimmed(secret, token, disabled) ==
    LET key == IF token # <<>> THEN <<>> ELSE NonBlank(secret)
    IN  [ok |-> disabled \/ token # <<>> \/ key # <<>>,
         static |-> token, key |-> key, disabled |-> disabled]

\* new: a static token closes the JWT path; nothing configured is refused
\* unless authentication is off.
TokenVerifier(secret, token, disabled) ==
    LET static == NonBlank(token)
        key == IF static # <<>> THEN <<>> ELSE NonBlank(secret)
    IN  [ok |-> disabled \/ static # <<>> \/ key # <<>>,
         static |-> static, key |-> key, disabled |-> disabled]

\* Fault: `set_audience` alone: a token without the claim passes.
AcceptsJwt_AudienceOptional(verifier, token, now) ==
    /\ verifier.key # <<>> /\ token.key = verifier.key
    /\ token.exp # 0 /\ token.exp >= now - LeewaySeconds
    /\ token.aud \in {"", InternalAudience}

\* What the JWT library checks with exp and aud required and a leeway.
AcceptsJwt(verifier, token, now) ==
    /\ verifier.key # <<>> /\ token.key = verifier.key
    /\ token.exp # 0 /\ token.exp >= now - LeewaySeconds
    /\ token.aud = InternalAudience

Verify(verifier, token, now) ==
    \/ verifier.disabled
    \/ /\ token.kind = "static"
       /\ verifier.static # <<>> /\ token.text = verifier.static
    \/ token.kind = "jwt" /\ AcceptsJwt(verifier, token, now)

\* The middleware: the header's token is trimmed; no token passes only when
\* authentication is off.
RequireAuth(verifier, header, now) ==
    IF header.kind = "none"
    THEN verifier.disabled
    ELSE Verify(verifier,
                IF header.kind = "static" THEN StaticToken(NonBlank(header.text)) ELSE header,
                now)

(***************************************************************************)
(* Properties, of one input each.                                          *)
(***************************************************************************)

\* Two servers given the same settings talk to each other: whatever mixture of
\* secret and static token is configured, blank and padded values included,
\* every request lakefs-authn sends is accepted, also when the receiver's clock
\* is behind by any amount or ahead by up to the token's lifetime.
SameSettingsWork(in) ==
    LET verifier == TokenVerifier(in.secret, in.token, FALSE)
        sent == Bearer(ClientAuth(in.secret, in.token), in.now)
    IN  NonBlank(in.secret) # <<>> /\ in.skew <= InternalTokenTtl =>
            verifier.ok /\ RequireAuth(verifier, sent, in.now + in.skew)

\* A verifier with authentication on accepts a presented token only if it is
\* the configured static token, or no static token is configured and the token
\* is a live one minted for this purpose from the same secret: never a session
\* token of lakeFS signed with that secret, and never an unaddressed one.
OnlyAddressedTokens(in) ==
    LET verifier == TokenVerifier(in.secret, in.token, FALSE)
    IN  verifier.ok /\ RequireAuth(verifier, in.header, in.now) =>
            IF NonBlank(in.token) # <<>>
            THEN /\ in.header.kind = "static"
                 /\ NonBlank(in.header.text) = NonBlank(in.token)
            ELSE /\ in.header.kind = "jwt"
                 /\ in.header.aud = InternalAudience
                 /\ in.header.key = NonBlank(in.secret)
                 /\ in.now <= in.header.exp + LeewaySeconds
=============================================================================
