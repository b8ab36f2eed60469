---------------------------- MODULE RequestProofs ----------------------------
(***************************************************************************)
(* What a request presents and what the code makes of it, for every choice *)
(* of the constants.  The claims of TokenClaims with their cleanup         *)
(* implement OneTimeTokens.  Of the conversions, for every input of their  *)
(* kind: bearer tokens, the policy builder, required claims, unverified    *)
(* emails, the `next` of a login, identifiers in paths, prefixes as LIKE   *)
(* patterns and the envelope of the session cookie.                        *)
(*                                                                         *)
(* What a loop computes is proved by the smallest counterexample: a        *)
(* recursive function exists for every length, and the first length at     *)
(* which the claim about it fails is refuted by the one before it.         *)
(***************************************************************************)
EXTENDS TokenClaims, Conversions, SequenceTheorems, WellFoundedInduction, TLAPS

-----------------------------------------------------------------------------
(* One-time tokens. *)

\* Every step keeps the rows with their expiry and the cutoffs behind the
\* clock (claim_token_id and cleanup_token_ids).
LEMMA TypeStep == TypeOK /\ [Next]_tokenVars => TypeOK'
<1> SUFFICES ASSUME TypeOK, [Next]_tokenVars PROVE TypeOK'
  OBVIOUS
<1> USE TokenAssumption DEF TypeOK
<1>1. CASE Tick
  BY <1>1 DEF Tick
<1>2. ASSUME NEW t \in Tokens, ClaimTokenId(t) PROVE TypeOK'
  BY <1>2 DEF ClaimTokenId
<1>3. ASSUME NEW r \in Replicas, CleanupTick(r) PROVE TypeOK'
  BY <1>3 DEF CleanupTick
<1>4. ASSUME NEW r \in Replicas, DeleteExpiredTokenIds(r) PROVE TypeOK'
  BY <1>4 DEF DeleteExpiredTokenIds
<1>5. ASSUME NEW r \in Replicas, Supervise(r) PROVE TypeOK'
  BY <1>5 DEF Supervise
<1>6. ASSUME NEW r \in Replicas, DeleteFails(r) PROVE TypeOK'
  BY <1>6 DEF DeleteFails
<1>7. ASSUME NEW r \in Replicas, CleanupPanics(r) PROVE TypeOK'
  BY <1>7 DEF CleanupPanics
<1>8. CASE UNCHANGED tokenVars
  BY <1>8 DEF tokenVars
<1> QED
  BY <1>1, <1>2, <1>3, <1>4, <1>5, <1>6, <1>7, <1>8 DEF Next, Cleanup

\* The table always holds ids with the expiry of their claim, and a cutoff is
\* never ahead of the clock.
THEOREM TypeCorrect == Spec => []TypeOK
<1>1. Init => TypeOK
  BY TokenAssumption DEF Init, TypeOK
<1> QED  BY <1>1, TypeStep, PTL DEF Spec

\* A cutoff is at most `now`, so a delete removes no valid token: the set of
\* live claims does not notice the cleanup.
LEMMA DeleteKeepsLive ==
    ASSUME TypeOK, NEW r \in Replicas, DeleteExpiredTokenIds(r)
    PROVE  LiveClaims' = LiveClaims
<1>1. \A t \in DOMAIN claimed_token_ids :
         claimed_token_ids[t] = Expiry[t] /\ Expiry[t] \in Int
  BY TokenAssumption DEF TypeOK
<1>2. cutoff[r] <= now /\ cutoff[r] \in Int /\ now \in Int /\ now' = now
  BY TokenAssumption DEF TypeOK, DeleteExpiredTokenIds
<1>3. DOMAIN claimed_token_ids' =
         {k \in DOMAIN claimed_token_ids : claimed_token_ids[k] > cutoff[r]}
  BY DEF DeleteExpiredTokenIds
<1> QED  BY <1>1, <1>2, <1>3 DEF LiveClaims

\* Every step of the claims is a step of the registry or leaves it alone.
LEMMA RegistryStep ==
    TypeOK /\ [Next]_tokenVars => [Registry!Next]_<<now, LiveClaims>>
<1> SUFFICES ASSUME TypeOK, [Next]_tokenVars
             PROVE  [Registry!Next]_<<now, LiveClaims>>
  OBVIOUS
<1>1. CASE Tick
  <2>1. now' = now + 1 /\ now \in Int
    BY <1>1, TokenAssumption DEF Tick, TypeOK
  <2>2. LiveClaims' = {t \in LiveClaims : now' < Expiry[t]}
    <3>1. \A t \in DOMAIN claimed_token_ids : Expiry[t] \in Int
      BY TokenAssumption DEF TypeOK
    <3>2. claimed_token_ids' = claimed_token_ids
      BY <1>1 DEF Tick
    <3> QED  BY <2>1, <3>1, <3>2 DEF LiveClaims
  <2> QED  BY <2>1, <2>2 DEF Registry!Next, Registry!Tick
<1>2. ASSUME NEW t \in Tokens, ClaimTokenId(t)
      PROVE  [Registry!Next]_<<now, LiveClaims>>
  <2>1. /\ DOMAIN claimed_token_ids' = DOMAIN claimed_token_ids \cup {t}
        /\ now' = now
        /\ t \notin DOMAIN claimed_token_ids
    BY <1>2 DEF ClaimTokenId
  <2>2. CASE now < Expiry[t]
    <3>1. LiveClaims' = LiveClaims \cup {t} /\ t \notin LiveClaims
      BY <2>1, <2>2 DEF LiveClaims
    <3>2. Registry!Accept(t)
      BY <2>1, <2>2, <3>1 DEF Registry!Accept, Registry!Live
    <3> QED  BY <3>2 DEF Registry!Next
  <2>3. CASE ~(now < Expiry[t])
    BY <2>1, <2>3 DEF LiveClaims
  <2> QED  BY <2>2, <2>3
<1>3. ASSUME NEW r \in Replicas, DeleteExpiredTokenIds(r)
      PROVE  UNCHANGED <<now, LiveClaims>>
  BY <1>3, DeleteKeepsLive DEF DeleteExpiredTokenIds
<1>4. ASSUME NEW r \in Replicas,
             \/ CleanupTick(r) \/ Supervise(r)
             \/ DeleteFails(r) \/ CleanupPanics(r)
      PROVE  UNCHANGED <<now, LiveClaims>>
  BY <1>4 DEF CleanupTick, Supervise, DeleteFails, CleanupPanics, LiveClaims
<1>5. CASE UNCHANGED tokenVars
  BY <1>5 DEF tokenVars, LiveClaims
<1> QED  BY <1>1, <1>2, <1>3, <1>4, <1>5 DEF Next, Cleanup

\* The claims with their cleanup keep the promise to lakeFS: a valid token is
\* claimed at most once.
THEOREM ClaimsAreSingleUse == Spec => SingleUse
<1>1. Init => Registry!Init
  BY DEF Init, Registry!Init, LiveClaims
<1> QED
  BY <1>1, RegistryStep, TypeCorrect, PTL DEF Spec, SingleUse, Registry!Spec

-----------------------------------------------------------------------------
(* Bearer tokens. *)

\* A set of numbers that is not empty has a smallest one.
LEMMA SmallestNumber ==
    ASSUME NEW S, S \subseteq Nat, S # {}
    PROVE  \E m \in S : \A k \in S : m <= k
<1>1. PICK m \in S : \A k \in S : <<k, m>> \notin OpToRel(<, Nat)
  <2> HIDE DEF OpToRel
  <2> QED  BY WFMin, NatLessThanWellFounded
<1>2. ASSUME NEW k \in S
      PROVE  m <= k
  <2>1. k \in Nat /\ m \in Nat
    OBVIOUS
  <2>2. ~(k < m)
    BY <1>1, <2>1 DEF OpToRel
  <2> QED  BY <2>1, <2>2
<1> QED  BY <1>2

\* A set of positions that is not empty has a first and a last one.
LEMMA FirstAndLast ==
    ASSUME NEW n \in Nat, NEW S, S \subseteq 1 .. n, S # {}
    PROVE  /\ \E i \in S : \A j \in S : i <= j
           /\ \E i \in S : \A j \in S : i >= j
<1>0. S \subseteq Nat /\ \A i \in S : n - i \in Nat
  OBVIOUS
<1>1. \E i \in S : \A j \in S : i <= j
  BY <1>0, SmallestNumber
<1> DEFINE T == {n - i : i \in S}
<1>2. T \subseteq Nat /\ T # {}
  BY <1>0
<1> HIDE DEF T
<1>3. PICK m \in T : \A k \in T : m <= k
  BY <1>2, SmallestNumber
<1>4. PICK i \in S : m = n - i
  BY DEF T
<1>5. ASSUME NEW j \in S PROVE i >= j
  <2>1. n - j \in T
    BY DEF T
  <2>2. m <= n - j
    BY <1>3, <2>1
  <2> QED  BY <1>4, <2>2
<1> QED  BY <1>1, <1>5

\* Trimming a trimmed text changes nothing, so it does not matter how often a
\* setting and a header are trimmed on their way (non_blank of text.rs).
LEMMA NonBlankAgain ==
    ASSUME NEW text, IsSequence(text)
    PROVE  NonBlank(NonBlank(text)) = NonBlank(text)
<1> DEFINE kept(t) == {i \in DOMAIN t : ~Blank(t[i])}
           first(t) == CHOOSE i \in kept(t) : \A j \in kept(t) : i <= j
           last(t) == CHOOSE i \in kept(t) : \A j \in kept(t) : i >= j
<1>1. \A t : NonBlank(t) = IF kept(t) = {} THEN <<>> ELSE SubSeq(t, first(t), last(t))
  BY DEF NonBlank
<1>2. CASE kept(text) = {}
  <2>1. NonBlank(text) = <<>> /\ kept(<<>>) = {}
    BY <1>1, <1>2
  <2> QED  BY <1>1, <2>1
<1>3. CASE kept(text) # {}
  <2>1. PICK S : text \in Seq(S)
    BY DEF IsSequence
  <2>2. Len(text) \in Nat /\ DOMAIN text = 1 .. Len(text)
    BY <2>1
  <2>3. kept(text) \subseteq 1 .. Len(text)
    BY <2>2
  <2>4. PICK a, b : /\ a = first(text) /\ b = last(text)
    OBVIOUS
  <2>5. /\ a \in kept(text) /\ \A j \in kept(text) : a <= j
        /\ b \in kept(text) /\ \A j \in kept(text) : b >= j
    <3>1. /\ \E i \in kept(text) : \A j \in kept(text) : i <= j
          /\ \E i \in kept(text) : \A j \in kept(text) : i >= j
      <4> HIDE DEF kept
      <4> QED  BY <1>3, <2>2, <2>3, FirstAndLast
    <3> HIDE DEF kept
    <3> QED  BY <2>4, <3>1
  <2>6. a \in 1 .. Len(text) /\ b \in 1 .. Len(text) /\ a <= b
    BY <2>3, <2>5
  <2>7. PICK u : u = SubSeq(text, a, b)
    OBVIOUS
  <2>8. u = NonBlank(text)
    <3> HIDE DEF kept, first, last
    <3> QED  BY <1>1, <1>3, <2>4, <2>7
  <2>9. /\ u \in Seq(S) /\ Len(u) = b - a + 1
        /\ \A i \in 1 .. b - a + 1 : u[i] = text[a + i - 1]
    BY <2>1, <2>6, <2>7, SubSeqProperties
  <2>10. DOMAIN u = 1 .. Len(u) /\ Len(u) \in Nat /\ Len(u) >= 1
    BY <2>6, <2>9
  <2>11. 1 \in kept(u) /\ Len(u) \in kept(u) /\ kept(u) \subseteq 1 .. Len(u)
    <3>1. ~Blank(text[a]) /\ ~Blank(text[b])
      BY <2>5
    <3>2. u[1] = text[a] /\ u[Len(u)] = text[b]
      <4>1. a + 1 - 1 = a /\ a + (b - a + 1) - 1 = b
        BY <2>6
      <4> QED  BY <2>6, <2>9, <4>1
    <3> QED  BY <2>10, <3>1, <3>2
  <2>12. first(u) = 1 /\ last(u) = Len(u)
    <3>0. PICK K : K = kept(u)
      OBVIOUS
    <3>1. 1 \in K /\ Len(u) \in K /\ K \subseteq 1 .. Len(u)
      BY <2>11, <3>0
    <3>2. (CHOOSE i \in K : \A j \in K : i <= j) = 1
      <4>1. \A i \in K : (\A j \in K : i <= j) <=> i = 1
        BY <2>10, <3>1
      <4> QED  BY <3>1, <4>1
    <3>3. (CHOOSE i \in K : \A j \in K : i >= j) = Len(u)
      <4>1. PICK n \in Nat : n = Len(u)
        BY <2>10
      <4>2. n \in K /\ \A i \in K : i \in Int /\ i <= n
        BY <3>1, <4>1
      <4>3. \A i \in K : (\A j \in K : i >= j) => i = n
        BY <4>2
      <4>4. \A j \in K : n >= j
        BY <4>2
      <4> QED  BY <4>1, <4>2, <4>3, <4>4
    <3> HIDE DEF kept
    <3> QED  BY <3>0, <3>2, <3>3
  <2>13. SubSeq(u, 1, Len(u)) = u
    BY <2>9, <2>10, SubSeqFull
  <2> HIDE DEF kept, first, last
  <2>14. NonBlank(u) = u
    BY <1>1, <2>11, <2>12, <2>13
  <2> QED  BY <2>8, <2>14
<1> QED  BY <1>2, <1>3

\* Servers with the same settings understand each other.
LEMMA SettingsUnderstood ==
    ASSUME NEW in \in SettingsInputs
    PROVE  SameSettingsWork(in)
<1>1. /\ IsSequence(in.secret) /\ IsSequence(in.token)
      /\ in.now \in Nat /\ in.skew \in Int
  BY SettingsAssumption
<1>2. PICK secret, token, now_, skew :
        /\ secret = NonBlank(in.secret) /\ token = NonBlank(in.token)
        /\ now_ = in.now /\ skew = in.skew
  OBVIOUS
<1>3. NonBlank(token) = token
  BY <1>1, <1>2, NonBlankAgain
<1> SUFFICES ASSUME secret # <<>>, skew <= InternalTokenTtl
             PROVE  /\ TokenVerifier(in.secret, in.token, FALSE).ok
                    /\ RequireAuth(TokenVerifier(in.secret, in.token, FALSE),
                                   Bearer(ClientAuth(in.secret, in.token), in.now),
                                   in.now + in.skew)
  BY <1>2 DEF SameSettingsWork
<1>4. CASE token # <<>>
  <2>1. Bearer(ClientAuth(in.secret, in.token), in.now) = StaticToken(token)
    BY <1>2, <1>4 DEF Bearer, ClientAuth
  <2>3. PICK verifier, sent :
          /\ verifier = TokenVerifier(in.secret, in.token, FALSE)
          /\ sent = Bearer(ClientAuth(in.secret, in.token), in.now)
    OBVIOUS
  <2>2. verifier = [ok |-> TRUE, static |-> token, key |-> <<>>, disabled |-> FALSE]
    BY <1>2, <1>4, <2>3 DEF TokenVerifier
  <2>4. verifier.ok = TRUE /\ verifier.static = token
    BY <2>2
  <2>5. sent.kind = "static" /\ sent.text = token
    BY <2>1, <2>3 DEF StaticToken
  <2>6. StaticToken(NonBlank(sent.text)) = sent
    BY <1>3, <2>1, <2>3, <2>5
  <2>7. Verify(verifier, sent, in.now + in.skew)
    BY <1>4, <2>4, <2>5 DEF Verify
  <2>8. RequireAuth(verifier, sent, in.now + in.skew)
    BY <2>5, <2>6, <2>7 DEF RequireAuth
  <2> QED  BY <2>3, <2>4, <2>8
<1>5. CASE token = <<>>
  <2>1. Bearer(ClientAuth(in.secret, in.token), in.now)
          = SignedToken(secret, InternalAudience, now_ + InternalTokenTtl)
    BY <1>2, <1>5 DEF Bearer, ClientAuth, MintInternalToken
  <2>3. /\ now_ + InternalTokenTtl # 0
        /\ now_ + InternalTokenTtl >= (now_ + skew) - LeewaySeconds
    BY <1>1, <1>2 DEF InternalTokenTtl, LeewaySeconds
  <2>4. PICK verifier, sent, time :
          /\ verifier = TokenVerifier(in.secret, in.token, FALSE)
          /\ sent = Bearer(ClientAuth(in.secret, in.token), in.now)
          /\ time = in.now + in.skew
    OBVIOUS
  <2>2. verifier = [ok |-> TRUE, static |-> <<>>, key |-> secret, disabled |-> FALSE]
    BY <1>2, <1>5, <2>4 DEF TokenVerifier
  <2>5. verifier.ok = TRUE /\ verifier.key = secret
    BY <2>2
  <2>6. /\ sent.kind = "jwt" /\ sent.key = secret
        /\ sent.aud = InternalAudience /\ sent.exp = now_ + InternalTokenTtl
    BY <2>1, <2>4 DEF SignedToken
  <2>7. AcceptsJwt(verifier, sent, time)
    <3>1. sent.exp # 0 /\ sent.exp >= time - LeewaySeconds
      BY <1>2, <2>3, <2>4, <2>6
    <3> QED  BY <2>5, <2>6, <3>1 DEF AcceptsJwt
  <2>8. RequireAuth(verifier, sent, time)
    BY <2>6, <2>7 DEF RequireAuth, Verify
  <2> QED  BY <2>4, <2>5, <2>8
<1> QED  BY <1>4, <1>5

\* A token that passes is the static one, or a live one made for this purpose
\* from the secret.
LEMMA BearersAddressed ==
    ASSUME NEW in \in BearerInputs
    PROVE  OnlyAddressedTokens(in)
<1>1. /\ in.now \in Nat /\ in.header.kind \in {"none", "static", "jwt"}
      /\ in.header.kind = "jwt" => in.header.exp \in Nat
  BY BearerAssumption
<1>2. PICK verifier : verifier = TokenVerifier(in.secret, in.token, FALSE)
  OBVIOUS
<1>3. /\ verifier.disabled = FALSE /\ verifier.static = NonBlank(in.token)
      /\ verifier.key = IF NonBlank(in.token) # <<>> THEN <<>>
                        ELSE NonBlank(in.secret)
  BY <1>2 DEF TokenVerifier
<1> SUFFICES ASSUME verifier.ok, RequireAuth(verifier, in.header, in.now)
             PROVE  IF NonBlank(in.token) # <<>>
                    THEN /\ in.header.kind = "static"
                         /\ NonBlank(in.header.text) = NonBlank(in.token)
                    ELSE /\ in.header.kind = "jwt"
                         /\ in.header.aud = InternalAudience
                         /\ in.header.key = NonBlank(in.secret)
                         /\ in.now <= in.header.exp + LeewaySeconds
  BY <1>2 DEF OnlyAddressedTokens
<1>4. in.header.kind # "none"
  BY <1>3 DEF RequireAuth
<1>5. CASE in.header.kind = "static"
  BY <1>3, <1>5 DEF RequireAuth, Verify, StaticToken
<1>6. CASE in.header.kind = "jwt"
  <2>1. AcceptsJwt(verifier, in.header, in.now)
    BY <1>3, <1>6 DEF RequireAuth, Verify
  <2>2. in.now <= in.header.exp + LeewaySeconds
    BY <1>1, <1>6, <2>1 DEF AcceptsJwt, LeewaySeconds
  <2> QED  BY <1>3, <1>6, <2>1, <2>2 DEF AcceptsJwt
<1> QED  BY <1>1, <1>4, <1>5, <1>6

\* The environment hands over inputs of the kind it says.
InputOk ==
    /\ input.kind = "envelope" => input.of \in EnvelopeInputs
    /\ input.kind = "settings" => input.of \in SettingsInputs
    /\ input.kind = "bearer" => input.of \in BearerInputs
    /\ input.kind = "policy" => input.of \in PolicyInputs
    /\ input.kind = "next" => input.of \in NextInputs
    /\ input.kind = "email" => input.of \in EmailInputs
    /\ input.kind = "prefix" => input.of \in PrefixInputs
    /\ input.kind = "id" => input.of \in IdInputs

\* It holds throughout.
LEMMA InputsGiven == ConvSpec => []InputOk
<1>1. ConvInit => InputOk
  BY DEF ConvInit, InputOk, Nothing
<1>2. InputOk /\ [ConvNext]_input => InputOk'
  <2> SUFFICES ASSUME InputOk, ConvNext PROVE InputOk'
    BY DEF InputOk
  <2>1. ASSUME NEW kind, NEW inputs, Give(kind, inputs)
        PROVE  input'.kind = kind /\ input'.of \in inputs
    BY <2>1 DEF Give
  <2> QED
    BY <2>1
       DEF ConvNext, InputOk, GiveGob, GiveEnvelope, GiveSession, GiveSize,
           GivePrefix, GiveId, GiveNext, GiveSetting, GiveClaims, GiveEmail,
           GiveGroups, GiveSettings, GiveBearer, GivePolicy
<1> QED  BY <1>1, <1>2, PTL DEF ConvSpec

\* For every secret and static token, blank and padded ones included, and for
\* every header: what a server with the same settings sends passes, and nothing
\* passes that was not made for this purpose with these settings.
THEOREM BearersPass == ConvSpec => []BearersWork
<1>1. InputOk => BearersWork
  BY SettingsUnderstood, BearersAddressed
     DEF InputOk, BearersWork, SettingsWork, TokensAddressed
<1> QED  BY <1>1, InputsGiven, PTL

-----------------------------------------------------------------------------
(* The policy builder. *)

\* The first session cookie of a request has this value.
FirstIs(headers, value) ==
    \E i \in DOMAIN headers.cookies :
        /\ headers.cookies[i] = [name |-> LakefsSession, value |-> value]
        /\ \A j \in 1..(i - 1) : headers.cookies[j].name # LakefsSession

\* The session that the route uses is the first one of the Cookie header.
LEMMA FirstSession ==
    ASSUME NEW in \in PolicyInputs, NEW headers, NEW session
    PROVE  /\ headers = in.request.headers
           /\ session = Session(headers) /\ session # ""
           => FirstIs(headers, session)
<1>0. SUFFICES
        ASSUME headers = in.request.headers, session = Session(headers), session # ""
        PROVE  FirstIs(headers, session)
  OBVIOUS
<1>1. PICK cookies : cookies = headers.cookies
  OBVIOUS
<1>2. /\ IsSequence(cookies)
      /\ \A i \in DOMAIN cookies :
            cookies[i] = [name |-> cookies[i].name, value |-> cookies[i].value]
  BY <1>0, <1>1, PolicyAssumption
<1>3. Len(cookies) \in Nat /\ DOMAIN cookies = 1 .. Len(cookies)
  <2>1. PICK S : cookies \in Seq(S)
    BY <1>2 DEF IsSequence
  <2> QED  BY <2>1
<1> DEFINE named == {i \in DOMAIN cookies : cookies[i].name = LakefsSession}
           first == CHOOSE i \in named : \A j \in named : i <= j
<1>4. named # {} /\ session = cookies[first].value
  BY <1>0, <1>1 DEF Session
<1>5. first \in named /\ \A j \in named : first <= j
  <2>1. named \subseteq 1 .. Len(cookies)
    BY <1>3
  <2> HIDE DEF named
  <2>2. \E i \in named : \A j \in named : i <= j
    BY <1>3, <1>4, <2>1, FirstAndLast
  <2> QED  BY <2>2
<1> HIDE DEF first
<1>6. cookies[first] = [name |-> LakefsSession, value |-> session]
  BY <1>2, <1>4, <1>5
<1>7. ASSUME NEW j \in 1 .. (first - 1)
      PROVE  cookies[j].name # LakefsSession
  <2>1. first \in 1 .. Len(cookies)
    BY <1>3, <1>5
  <2>2. j \in DOMAIN cookies /\ ~(first <= j)
    BY <1>3, <2>1
  <2> QED  BY <1>5, <2>2
<1> QED  BY <1>1, <1>5, <1>6, <1>7 DEF FirstIs

\* The route stops before lakeFS is asked.
TurnedAway(route) == route.sentAs = "" /\ route.status \in {400, 401, 403, 404}

\* The route asks lakeFS and passes on what becomes of the request.
Sent(request, answer, route, session) ==
    /\ SameOrigin(request.headers) /\ session # ""
    /\ ValidPolicy(request.name, request.statements)
    /\ route.sentAs = session
    /\ answer.kind = "created" => route.status = 201
    /\ answer.kind = "status" => route.status = answer.status
    /\ answer.kind \in {"unreadable", "none"} => route.status = 502

\* What the route answers: every way out of it, and what has happened then.
LEMMA RouteFacts ==
    ASSUME NEW request, NEW answer, NEW route, NEW session
    PROVE  /\ answer.kind \in {"created", "unreadable", "none", "status"}
           /\ route = CreatePolicy(request, answer)
           /\ session = Session(request.headers)
           => TurnedAway(route) \/ Sent(request, answer, route, session)
<1>0. SUFFICES
        ASSUME answer.kind \in {"created", "unreadable", "none", "status"},
               route = CreatePolicy(request, answer),
               session = Session(request.headers)
        PROVE  TurnedAway(route) \/ Sent(request, answer, route, session)
  OBVIOUS
<1> DEFINE headers == request.headers
           valid == ValidPolicy(request.name, request.statements)
<1>1. PICK absent, nobody, foreign, invalid :
        /\ absent = StatusOf("no lakeFS", answer)
        /\ nobody = StatusOf("no session", answer)
        /\ foreign = StatusOf("cross origin", answer)
        /\ invalid = StatusOf("invalid", answer)
  OBVIOUS
<1>2. absent = 404 /\ nobody = 401 /\ foreign = 403 /\ invalid = 400
  BY <1>1 DEF StatusOf
<1>3. CASE ~SameOrigin(headers)
  <2>1. route = [status |-> foreign, sentAs |-> ""]
    BY <1>0, <1>1, <1>3 DEF CreatePolicy
  <2> QED  BY <1>2, <2>1 DEF TurnedAway
<1>4. CASE SameOrigin(headers) /\ ~request.endpoint
  <2>1. route = [status |-> absent, sentAs |-> ""]
    BY <1>0, <1>1, <1>4 DEF CreatePolicy
  <2> QED  BY <1>2, <2>1 DEF TurnedAway
<1>5. CASE SameOrigin(headers) /\ request.endpoint /\ session = ""
  <2>1. route = [status |-> nobody, sentAs |-> ""]
    BY <1>0, <1>1, <1>5 DEF CreatePolicy
  <2> QED  BY <1>2, <2>1 DEF TurnedAway
<1>6. CASE SameOrigin(headers) /\ request.endpoint /\ session # "" /\ ~valid
  <2>1. route = [status |-> invalid, sentAs |-> ""]
    BY <1>0, <1>1, <1>6 DEF CreatePolicy
  <2> QED  BY <1>2, <2>1 DEF TurnedAway
<1>7. CASE SameOrigin(headers) /\ request.endpoint /\ session # "" /\ valid
  <2>1. PICK result, status :
          /\ result = LakeFsCreate(answer)
          /\ status = IF result = "ok" THEN 201 ELSE StatusOf(result, answer)
    OBVIOUS
  <2>2. route = [status |-> status, sentAs |-> session]
    BY <1>0, <1>7, <2>1 DEF CreatePolicy
  <2>3. route.status = status /\ route.sentAs = session
    BY <2>2
  <2>4. CASE answer.kind = "created"
    <3>1. result = "ok"
      BY <2>1, <2>4 DEF LakeFsCreate
    <3>2. status = 201
      BY <2>1, <3>1
    <3> QED  BY <1>0, <1>7, <2>3, <2>4, <3>2 DEF Sent
  <2>5. CASE answer.kind = "status"
    <3>1. result = "rejected"
      BY <2>1, <2>5 DEF LakeFsCreate
    <3>2. status = answer.status
      BY <2>1, <3>1 DEF StatusOf
    <3> QED  BY <1>0, <1>7, <2>3, <2>5, <3>2 DEF Sent
  <2>6. CASE answer.kind \in {"unreadable", "none"}
    <3>1. result = "transport"
      BY <2>1, <2>6 DEF LakeFsCreate
    <3>2. status = 502
      BY <2>1, <3>1 DEF StatusOf, BadGateway
    <3> QED  BY <1>0, <1>7, <2>3, <2>6, <3>2 DEF Sent
  <2> QED  BY <1>0, <2>4, <2>5, <2>6
<1> QED  BY <1>3, <1>4, <1>5, <1>6, <1>7

\* Whatever lakeFS answers and whatever becomes of its answer, the page is told
\* that a policy is stored only if it is, and that nothing was stored only if
\* nothing was; and lakeFS is asked only as the caller, for a valid policy and
\* for a request of the page's own origin.
THEOREM BuilderReportsTruth == ConvSpec => []BuilderTruthful
<1>1. ASSUME NEW in \in PolicyInputs
      PROVE  BuilderTellsTheTruth(in)
  <2>1. /\ in.answer.kind \in {"created", "unreadable", "none", "status"}
        /\ in.answer.kind = "status" => in.answer.status \in Nat \ {201}
    BY PolicyAssumption
  <2>2. PICK headers, route, session, kind, status, stored, code :
          /\ headers = in.request.headers
          /\ route = CreatePolicy(in.request, in.answer)
          /\ session = Session(headers)
          /\ kind = in.answer.kind /\ status = in.answer.status /\ stored = in.stored
          /\ code = route.status
    OBVIOUS
  <2>3. ASSUME Possible(in.answer, in.stored)
        PROVE  /\ route.status = 201 => route.sentAs # "" /\ stored
               /\ route.status \in 400..499 => ~(route.sentAs # "" /\ stored)
    <3>1. CASE TurnedAway(route)
      <4>1. route.sentAs = "" /\ code \in {400, 401, 403, 404}
        BY <2>2, <3>1 DEF TurnedAway
      <4>2. code # 201
        <5>1. code \in {400, 401, 403, 404}
          BY <4>1
        <5> QED  BY <5>1
      <4> QED  BY <2>2, <4>1, <4>2
    <3>2. CASE Sent(in.request, in.answer, route, session)
      <4>1. /\ kind \in {"created", "unreadable"} => stored
            /\ kind = "status" /\ status < 500 => ~stored
        BY <2>2, <2>3 DEF Possible
      <4>2. /\ kind = "created" => code = 201
            /\ kind = "status" => code = status
            /\ kind \in {"unreadable", "none"} => code = 502
        BY <2>2, <3>2 DEF Sent
      <4>3. /\ kind \in {"created", "unreadable", "none", "status"}
            /\ kind = "status" => status \in Nat /\ status # 201
        BY <2>1, <2>2
      <4>4. /\ code = 201 => kind = "created"
            /\ code \in 400..499 => kind = "status" /\ status < 500
        BY <4>2, <4>3
      <4>5. route.sentAs # ""
        BY <3>2 DEF Sent
      <4> QED  BY <2>2, <4>1, <4>4, <4>5
    <3> QED  BY <2>1, <2>2, <3>1, <3>2, RouteFacts
  <2>4. ASSUME route.sentAs # ""
        PROVE  /\ FirstIs(headers, route.sentAs)
               /\ ValidEntityId(in.request.name)
               /\ ValidStatements(in.request.statements)
               /\ headers.site \notin {"cross-site", "same-site"}
               /\ headers.site = "" => headers.origin \in {"", headers.host}
    <3>1. Sent(in.request, in.answer, route, session)
      BY <2>1, <2>2, <2>4, RouteFacts DEF TurnedAway
    <3>2. /\ SameOrigin(headers) /\ session # "" /\ route.sentAs = session
          /\ ValidPolicy(in.request.name, in.request.statements)
      BY <2>2, <3>1 DEF Sent
    <3>3. FirstIs(headers, route.sentAs)
      BY <2>2, <3>2, FirstSession
    <3>4. /\ headers.site \notin {"cross-site", "same-site"}
          /\ headers.site = "" => headers.origin \in {"", headers.host}
      BY <3>2 DEF SameOrigin
    <3>5. ValidEntityId(in.request.name) /\ ValidStatements(in.request.statements)
      BY <3>2 DEF ValidPolicy
    <3> QED  BY <3>3, <3>4, <3>5
  <2> DEFINE answer == CreatePolicy(in.request, in.answer)
             from == in.request.headers
  <2>5. Possible(in.answer, in.stored) =>
          /\ answer.status = 201 => answer.sentAs # "" /\ in.stored
          /\ answer.status \in 400..499 => ~(answer.sentAs # "" /\ in.stored)
    BY <2>2, <2>3
  <2>6. answer.sentAs # "" => FirstIs(from, answer.sentAs)
    BY <2>2, <2>4
  <2>7. answer.sentAs # "" =>
          /\ ValidEntityId(in.request.name) /\ ValidStatements(in.request.statements)
          /\ from.site \notin {"cross-site", "same-site"}
          /\ from.site = "" => from.origin \in {"", from.host}
    BY <2>2, <2>4
  <2> QED  BY <2>5, <2>6, <2>7 DEF BuilderTellsTheTruth, FirstIs
<1>2. InputOk => BuilderTruthful
  BY <1>1 DEF InputOk, BuilderTruthful
<1> QED  BY <1>2, InputsGiven, PTL
-----------------------------------------------------------------------------
(* Required claims. *)

\* A claim is flattened to a text or left out.
LEMMA FlattenShape ==
    ASSUME NEW value, NEW flat
    PROVE  flat = FlattenValue(value) =>
             \/ flat = [ok |-> FALSE]
             \/ \E text : flat = [ok |-> TRUE, text |-> text]
<1>1. SUFFICES ASSUME flat = FlattenValue(value)
               PROVE  \/ flat = [ok |-> FALSE]
                      \/ \E text : flat = [ok |-> TRUE, text |-> text]
  OBVIOUS
<1> DEFINE word == <<IF value.flag THEN "true" ELSE "false">>
           items == Join([i \in DOMAIN value.items |-> value.items[i].text])
<1>2. \/ flat = [ok |-> FALSE]
      \/ flat = [ok |-> TRUE, text |-> value.text]
      \/ flat = [ok |-> TRUE, text |-> word]
      \/ flat = [ok |-> TRUE, text |-> <<value.digits>>]
      \/ flat = [ok |-> TRUE, text |-> items]
      \/ flat = [ok |-> TRUE, text |-> <<value.json>>]
  BY <1>1 DEF FlattenValue
<1> HIDE DEF word, items
<1> QED  BY <1>2

\* One required claim: comparing the flattened value as it is and comparing the
\* entry of the flattened claims is the same.
LEMMA OneClaimAgrees ==
    ASSUME NEW claims, NEW name \in DOMAIN claims, NEW expected, NEW flat
    PROVE  flat = FlattenValue(claims[name]) =>
             ( flat = [ok |-> TRUE, text |-> expected]
                 <=> flat.ok /\ flat.text = expected )
<1>1. SUFFICES ASSUME flat = FlattenValue(claims[name])
               PROVE  flat = [ok |-> TRUE, text |-> expected]
                        <=> flat.ok /\ flat.text = expected
  OBVIOUS
<1>2. CASE flat = [ok |-> FALSE]
  BY <1>2
<1>3. CASE \E text : flat = [ok |-> TRUE, text |-> text]
  <2>1. PICK text : flat = [ok |-> TRUE, text |-> text]
    BY <1>3
  <2> QED  BY <2>1
<1> QED  BY <1>1, <1>2, <1>3, FlattenShape

\* For every token and every required claim, of any shape: this server, which
\* checks the token, and lakeFS, which checks the flattened claims it is sent,
\* refuse the same logins.
THEOREM RequirementsMeanTheSame == ConvSpec => []ClaimsAgree
<1>1. ASSUME NEW claims, NEW expected
      PROVE  ValidateClaims(claims, expected)
               <=> LakefsValidates(FlattenClaims(claims), expected)
  <2>1. ASSUME NEW name \in DOMAIN expected
        PROVE  /\ name \in DOMAIN claims
               /\ FlattenValue(claims[name]) = [ok |-> TRUE, text |-> expected[name]]
               <=> /\ name \in DOMAIN FlattenClaims(claims)
                   /\ FlattenClaims(claims)[name] = expected[name]
    <3>1. CASE name \notin DOMAIN claims
      BY <3>1 DEF FlattenClaims
    <3>2. CASE name \in DOMAIN claims
      <4>1. PICK flat, text : flat = FlattenValue(claims[name]) /\ text = expected[name]
        OBVIOUS
      <4>2. flat = [ok |-> TRUE, text |-> text] <=> flat.ok /\ flat.text = text
        BY <3>2, <4>1, OneClaimAgrees
      <4>3. name \in DOMAIN FlattenClaims(claims) <=> flat.ok
        BY <3>2, <4>1 DEF FlattenClaims
      <4>4. flat.ok => FlattenClaims(claims)[name] = flat.text
        BY <3>2, <4>1 DEF FlattenClaims
      <4> QED  BY <3>2, <4>1, <4>2, <4>3, <4>4
    <3> QED  BY <3>1, <3>2
  <2> QED  BY <2>1 DEF ValidateClaims, LakefsValidates
<1>2. ClaimsAgree
  BY <1>1 DEF ClaimsAgree, ClaimChecksAgree
<1> QED  BY <1>2, PTL
-----------------------------------------------------------------------------
(* Where a login ends. *)

\* A relative target that the guard accepts names no authority: it has no
\* controls to drop, so its first two characters are those the guard looked at.
LEMMA AcceptedPathIsOwn ==
    ASSUME NEW text, IsSequence(text), text # <<>>,
           "ctl" \notin Range(text), text[1] = "/", ~IsProtocolRelative(text)
    PROVE  ~NamesAuthority(text)
<1>1. Len(text) \in Nat /\ DOMAIN text = 1 .. Len(text)
  <2>1. PICK S : text \in Seq(S)
    BY DEF IsSequence
  <2> QED  BY <2>1
<1>2. \A i \in DOMAIN text : text[i] # "ctl"
  BY DEF Range
<1> SUFFICES ASSUME NamesAuthority(text) PROVE FALSE
  OBVIOUS
<1>3. PICK i \in DOMAIN text, j \in DOMAIN text :
        /\ i < j /\ \A k \in DOMAIN text : k \in {i, j} \/ k > j
        /\ text[j] \in {"/", "\\", "%2f", "%5c"}
  BY <1>2 DEF NamesAuthority
<1>4. i = 1 /\ j = 2 /\ Len(text) >= 2
  <2>1. 1 \in DOMAIN text /\ 2 \in DOMAIN text
    BY <1>1, <1>3
  <2> QED  BY <1>1, <1>3, <2>1
<1> QED  BY <1>3, <1>4 DEF IsProtocolRelative

\* For every `next`: a login ends on this server, on the configured origin, or
\* on an origin of the allow list, and on no other.
THEOREM LoginsStayAllowed == ConvSpec => []LoginsEndAllowed
<1>1. ASSUME NEW in \in NextInputs
      PROVE  LoginEndsAtAllowedOrigin(in)
  <2>1. PICK next, url, own, kind :
          /\ next = in.next /\ url = in.postLogin /\ own = in.own
          /\ kind = next.kind
    OBVIOUS
  <2>2. /\ kind \in {"none", "relative", "absolute"}
        /\ kind = "relative" => IsSequence(next.text)
        /\ url = [kind |-> url.kind, scheme |-> url.scheme, host |-> url.host,
                  port |-> url.port, text |-> url.text]
        /\ url.kind \in {"absolute", "relative"}
        /\ url.kind = "relative" => ~NamesAuthority(url.text)
    BY <2>1, NextAssumption
  <2>3. PICK target, origin :
          target = ResolveNext(url, next) /\ origin = BrowserOrigin(own, target)
    OBVIOUS
  <2>4. CASE kind = "absolute" /\ SafeNext(next, in.allowed)
    <3>1. PICK entry \in in.allowed : Allows(entry, next)
      BY <2>1, <2>4 DEF SafeNext
    <3>2. target = next
      BY <2>1, <2>3, <2>4 DEF ResolveNext
    <3>3. origin = Origin(next)
      BY <2>1, <2>3, <2>4, <3>2 DEF BrowserOrigin
    <3>4. Allows(entry, origin)
      BY <3>1, <3>3 DEF Allows, Origin
    <3> QED  BY <2>1, <2>3, <2>4, <3>1, <3>4 DEF LoginEndsAtAllowedOrigin
  <2>5. CASE kind = "none"
    <3>1. target = url
      BY <2>1, <2>3, <2>5 DEF ResolveNext
    <3>2. origin = IF url.kind = "absolute" THEN Origin(url) ELSE Origin(own)
      BY <2>2, <2>3, <3>1 DEF BrowserOrigin
    <3> QED  BY <2>1, <2>3, <2>5, <3>2 DEF LoginEndsAtAllowedOrigin
  <2>6. CASE kind = "relative" /\ SafeNext(next, in.allowed)
    <3>1. ~NamesAuthority(next.text)
      BY <2>1, <2>2, <2>6, AcceptedPathIsOwn DEF SafeNext
    <3>2. CASE url.kind = "absolute"
      <4>1. target = [url EXCEPT !.text = next.text]
        BY <2>1, <2>3, <2>6, <3>2 DEF ResolveNext
      <4>2. /\ target.kind = url.kind /\ target.scheme = url.scheme
            /\ target.host = url.host /\ target.port = url.port
        BY <2>2, <4>1
      <4>3. origin = Origin(url)
        BY <2>3, <3>2, <4>2 DEF BrowserOrigin, Origin
      <4> QED  BY <2>1, <2>3, <2>6, <3>2, <4>3 DEF LoginEndsAtAllowedOrigin
    <3>3. CASE url.kind = "relative"
      <4>1. target = next
        BY <2>1, <2>3, <2>6, <3>3 DEF ResolveNext
      <4>2. origin = Origin(own)
        BY <2>1, <2>3, <2>6, <3>1, <4>1 DEF BrowserOrigin
      <4> QED  BY <2>1, <2>3, <2>6, <3>3, <4>2 DEF LoginEndsAtAllowedOrigin
    <3> QED  BY <2>2, <3>2, <3>3
  <2>7. CASE ~(kind = "none" \/ SafeNext(next, in.allowed))
    BY <2>1, <2>7 DEF LoginEndsAtAllowedOrigin
  <2> QED  BY <2>2, <2>4, <2>5, <2>6, <2>7
<1>2. InputOk => LoginsEndAllowed
  BY <1>1 DEF InputOk, LoginsEndAllowed
<1> QED  BY <1>2, InputsGiven, PTL
-----------------------------------------------------------------------------
(* The email of an identity. *)

\* Leaving out the email changes no other claim.
LEMMA OtherClaimsStay ==
    ASSUME NEW claims, NEW without,
           without = Restrict(claims, DOMAIN claims \ {"email"}),
           NEW name, name # "email"
    PROVE  ClaimText(without, name) = ClaimText(claims, name)
<1>1. name \in DOMAIN without <=> name \in DOMAIN claims
  BY DEF Restrict
<1>2. name \in DOMAIN claims => without[name] = claims[name]
  BY DEF Restrict
<1>3. CASE name \in DOMAIN claims
  BY <1>1, <1>2, <1>3 DEF ClaimText
<1>4. CASE name \notin DOMAIN claims
  BY <1>1, <1>4 DEF ClaimText
<1> QED  BY <1>3, <1>4

\* For every set of claims and every list of claims to take the name from: an
\* email marked unverified decides nothing.
THEOREM UnverifiedEmailsUnused == ConvSpec => []EmailsVerified
<1>1. ASSUME NEW in \in EmailInputs, "email_verified" \in DOMAIN in.claims,
             FlattenValue(in.claims["email_verified"]).ok,
             FlattenValue(in.claims["email_verified"]).text \in {<<"false">>, <<"False">>}
      PROVE  /\ DeriveUsername(in.claims, in.names)
                  = DeriveUsername(Restrict(in.claims, DOMAIN in.claims \ {"email"}), in.names)
             /\ ~VerifiedEmail(in.claims).ok
  <2>1. PICK claims, names, without :
          /\ claims = in.claims /\ names = in.names
          /\ without = Restrict(claims, DOMAIN claims \ {"email"})
    OBVIOUS
  <2>2. EmailIsUnverified(claims)
    BY <1>1, <2>1 DEF EmailIsUnverified
  <2>3. EmailIsUnverified(without)
    <3>1. "email_verified" \in DOMAIN without
      BY <1>1, <2>1 DEF Restrict
    <3>2. without["email_verified"] = claims["email_verified"]
      BY <1>1, <2>1 DEF Restrict
    <3> QED  BY <1>1, <2>1, <3>1, <3>2 DEF EmailIsUnverified
  <2>4. \A name : name \notin {"email"} =>
          ClaimText(without, name) = ClaimText(claims, name)
    BY <2>1, OtherClaimsStay
  <2>5. FirstClaim(claims, names, {"email"}) = FirstClaim(without, names, {"email"})
    <3> DEFINE Found(c) == {i \in DOMAIN names :
                              names[i] \notin {"email"} /\ ClaimText(c, names[i]).ok}
               First(S) == CHOOSE i \in S : \A j \in S : i <= j
    <3>1. Found(claims) = Found(without)
      BY <2>4
    <3>2. CASE Found(claims) = {}
      BY <3>1, <3>2 DEF FirstClaim
    <3>3. CASE Found(claims) # {}
      <4>1. PICK found, first : found = Found(claims) /\ first = First(found)
        OBVIOUS
      <4>2. ClaimText(without, names[first]) = ClaimText(claims, names[first])
        <5>1. Len(names) \in Nat /\ DOMAIN names = 1 .. Len(names)
          <6>1. PICK S : names \in Seq(S)
            BY <2>1, EmailAssumption DEF IsSequence
          <6> QED  BY <6>1
        <5>2. found \subseteq 1 .. Len(names) /\ found # {}
          BY <3>3, <4>1, <5>1
        <5>3. \E i \in found : \A j \in found : i <= j
          BY <5>1, <5>2, FirstAndLast
        <5>4. first \in found
          BY <4>1, <5>3
        <5>5. names[first] \notin {"email"}
          BY <4>1, <5>4
        <5> QED  BY <2>4, <5>5
      <4> QED  BY <3>1, <3>3, <4>1, <4>2 DEF FirstClaim
    <3> QED  BY <3>2, <3>3
  <2>6. DeriveUsername(claims, names) = DeriveUsername(without, names)
    BY <2>2, <2>3, <2>5 DEF DeriveUsername
  <2>7. ~VerifiedEmail(claims).ok
    BY <2>2 DEF VerifiedEmail
  <2> QED  BY <2>1, <2>6, <2>7
<1>2. InputOk => EmailsVerified
  BY <1>1 DEF InputOk, EmailsVerified, UnverifiedEmailUnused
<1> QED  BY <1>2, InputsGiven, PTL
-----------------------------------------------------------------------------
(* Prefixes as LIKE patterns. *)

Special == {"\\", "%", "_"}

\* One round of the loop of EscapeLikePrefix.
Escaped(sofar, char) ==
    IF char \in Special THEN Append(Append(sofar, "\\"), char) ELSE Append(sofar, char)

\* out[i] is the escaped text after the first i characters, for the first n.
EscapingTo(out, prefix, n) ==
    out = [i \in 0 .. n |-> IF i = 0 THEN <<>> ELSE Escaped(out[i - 1], prefix[i])]

\* run[j] is what LIKE knows after the first j characters of the pattern.
ReadingTo(run, text, pattern, n) ==
    run = [j \in 0 .. n |-> IF j = 0 THEN [at |-> {0}, reads |-> "plain"]
                            ELSE LikeStep(text, run[j - 1], pattern[j])]

\* The loop over no characters, and how it goes on by one.
LEMMA EscapingGrows ==
    ASSUME NEW prefix, NEW n \in Nat
    PROVE  /\ \E out : EscapingTo(out, prefix, 0)
           /\ (\E out : EscapingTo(out, prefix, n)) =>
                 \E out : EscapingTo(out, prefix, n + 1)
<1>1. \E out : EscapingTo(out, prefix, 0)
  <2> DEFINE f == [i \in 0 .. 0 |-> <<>>]
  <2>1. f = [i \in 0 .. 0 |-> IF i = 0 THEN <<>> ELSE Escaped(f[i - 1], prefix[i])]
    OBVIOUS
  <2> HIDE DEF f
  <2>2. EscapingTo(f, prefix, 0)
    BY <2>1 DEF EscapingTo
  <2> QED  BY <2>2
<1>2. ASSUME NEW g, EscapingTo(g, prefix, n)
      PROVE  \E out : EscapingTo(out, prefix, n + 1)
  <2>0. PICK last : last = Escaped(g[n], prefix[n + 1])
    OBVIOUS
  <2> DEFINE f == [i \in 0 .. n + 1 |-> IF i = n + 1 THEN last ELSE g[i]]
  <2>1. ASSUME NEW i \in 0 .. n + 1
        PROVE  f[i] = IF i = 0 THEN <<>> ELSE Escaped(f[i - 1], prefix[i])
    <3>1. CASE i = n + 1
      BY <2>0, <3>1
    <3>2. CASE i # n + 1
      <4>1. i \in 0 .. n /\ (i # 0 => i - 1 \in 0 .. n /\ i - 1 # n + 1)
        BY <3>2
      <4>2. g[i] = IF i = 0 THEN <<>> ELSE Escaped(g[i - 1], prefix[i])
        BY <1>2, <4>1 DEF EscapingTo
      <4> QED  BY <4>1, <4>2, <3>2
    <3> QED  BY <3>1, <3>2
  <2>2. f = [i \in 0 .. n + 1 |-> f[i]]
    OBVIOUS
  <2> HIDE DEF f
  <2>3. EscapingTo(f, prefix, n + 1)
    BY <2>1, <2>2 DEF EscapingTo
  <2> QED  BY <2>3
<1> QED  BY <1>1, <1>2

\* The loop ends for every prefix.
LEMMA EscapingExists ==
    ASSUME NEW prefix, NEW n \in Nat
    PROVE  \E out : EscapingTo(out, prefix, n)
<1> DEFINE Bad == {m \in Nat : ~\E out : EscapingTo(out, prefix, m)}
<1> SUFFICES ASSUME Bad # {} PROVE FALSE
  OBVIOUS
<1>1. PICK m \in Bad : \A k \in Bad : m <= k
  <2>1. Bad \subseteq Nat
    OBVIOUS
  <2> HIDE DEF Bad
  <2> QED  BY <2>1, SmallestNumber
<1>2. m # 0
  BY EscapingGrows
<1>3. m - 1 \in Nat /\ m - 1 \notin Bad
  BY <1>1, <1>2
<1>4. \E out : EscapingTo(out, prefix, m - 1)
  BY <1>3
<1>5. \E out : EscapingTo(out, prefix, (m - 1) + 1)
  BY <1>3, <1>4, EscapingGrows
<1>6. (m - 1) + 1 = m
  BY <1>1
<1> QED  BY <1>5, <1>6

\* The same of the characters of a pattern.
LEMMA ReadingGrows ==
    ASSUME NEW text, NEW pattern, NEW n \in Nat
    PROVE  /\ \E run : ReadingTo(run, text, pattern, 0)
           /\ (\E run : ReadingTo(run, text, pattern, n)) =>
                 \E run : ReadingTo(run, text, pattern, n + 1)
<1>0. PICK start : start = [at |-> {0}, reads |-> "plain"]
  OBVIOUS
<1>1. \E run : ReadingTo(run, text, pattern, 0)
  <2> DEFINE f == [i \in 0 .. 0 |-> start]
  <2>1. f = [i \in 0 .. 0 |-> IF i = 0 THEN start ELSE LikeStep(text, f[i - 1], pattern[i])]
    OBVIOUS
  <2> HIDE DEF f
  <2>2. ReadingTo(f, text, pattern, 0)
    BY <1>0, <2>1 DEF ReadingTo
  <2> QED  BY <2>2
<1>2. ASSUME NEW g, ReadingTo(g, text, pattern, n)
      PROVE  \E run : ReadingTo(run, text, pattern, n + 1)
  <2>0. PICK last : last = LikeStep(text, g[n], pattern[n + 1])
    OBVIOUS
  <2> DEFINE f == [i \in 0 .. n + 1 |-> IF i = n + 1 THEN last ELSE g[i]]
  <2>1. ASSUME NEW i \in 0 .. n + 1
        PROVE  f[i] = IF i = 0 THEN start ELSE LikeStep(text, f[i - 1], pattern[i])
    <3>1. CASE i = n + 1
      BY <2>0, <3>1
    <3>2. CASE i # n + 1
      <4>1. i \in 0 .. n /\ (i # 0 => i - 1 \in 0 .. n /\ i - 1 # n + 1)
        BY <3>2
      <4>2. g[i] = IF i = 0 THEN start ELSE LikeStep(text, g[i - 1], pattern[i])
        BY <1>0, <1>2, <4>1 DEF ReadingTo
      <4> QED  BY <4>1, <4>2, <3>2
    <3> QED  BY <3>1, <3>2
  <2>2. f = [i \in 0 .. n + 1 |-> f[i]]
    OBVIOUS
  <2> HIDE DEF f
  <2>3. ReadingTo(f, text, pattern, n + 1)
    BY <1>0, <2>1, <2>2 DEF ReadingTo
  <2> QED  BY <2>3
<1> QED  BY <1>1, <1>2

\* LIKE reads every pattern to its end.
LEMMA ReadingExists ==
    ASSUME NEW text, NEW pattern, NEW n \in Nat
    PROVE  \E run : ReadingTo(run, text, pattern, n)
<1> DEFINE Bad == {m \in Nat : ~\E run : ReadingTo(run, text, pattern, m)}
<1> SUFFICES ASSUME Bad # {} PROVE FALSE
  OBVIOUS
<1>1. PICK m \in Bad : \A k \in Bad : m <= k
  <2>1. Bad \subseteq Nat
    OBVIOUS
  <2> HIDE DEF Bad
  <2> QED  BY <2>1, SmallestNumber
<1>2. m # 0
  BY ReadingGrows
<1>3. m - 1 \in Nat /\ m - 1 \notin Bad
  BY <1>1, <1>2
<1>4. \E run : ReadingTo(run, text, pattern, m - 1)
  BY <1>3
<1>5. \E run : ReadingTo(run, text, pattern, (m - 1) + 1)
  BY <1>3, <1>4, ReadingGrows
<1>6. (m - 1) + 1 = m
  BY <1>1
<1> QED  BY <1>5, <1>6

\* The escaped text is the end of the loop.
LEMMA EscapeIs ==
    ASSUME NEW prefix, Len(prefix) \in Nat
    PROVE  \E out : /\ EscapingTo(out, prefix, Len(prefix))
                    /\ EscapeLikePrefix(prefix) = out[Len(prefix)]
<1> DEFINE F == CHOOSE out : EscapingTo(out, prefix, Len(prefix))
<1>1. \E out : EscapingTo(out, prefix, Len(prefix))
  BY EscapingExists
<1>2. EscapingTo(F, prefix, Len(prefix))
  BY <1>1
<1>3. EscapeLikePrefix(prefix) = F[Len(prefix)]
  BY DEF EscapeLikePrefix, EscapingTo, Escaped, Special
<1> HIDE DEF F
<1> QED  BY <1>2, <1>3

\* A text is LIKE a pattern if all of it matches after the last character.
LEMMA LikeIs ==
    ASSUME NEW text, NEW pattern, Len(pattern) \in Nat
    PROVE  \E run : /\ ReadingTo(run, text, pattern, Len(pattern))
                    /\ Like(text, pattern) <=>
                         /\ run[Len(pattern)].reads = "plain"
                         /\ Len(text) \in run[Len(pattern)].at
<1> DEFINE F == CHOOSE run : ReadingTo(run, text, pattern, Len(pattern))
<1>1. \E run : ReadingTo(run, text, pattern, Len(pattern))
  BY ReadingExists
<1>2. ReadingTo(F, text, pattern, Len(pattern))
  BY <1>1
<1>3. Like(text, pattern) <=> /\ F[Len(pattern)].reads = "plain"
                              /\ Len(text) \in F[Len(pattern)].at
  BY DEF Like, ReadingTo
<1> HIDE DEF F
<1> QED  BY <1>2, <1>3
\* The characters of the text that may follow the matches so far.
Same(text, at, char) == {i \in 1 .. Len(text) : i - 1 \in at /\ text[i] = char}

\* What one character of a pattern does: escaped, the escape itself, the
\* wildcard at the end, or any other.
LEMMA LikeSteps ==
    ASSUME NEW text, NEW at, NEW char, NEW state
    PROVE  /\ state = [at |-> at, reads |-> "escaped"] =>
                LikeStep(text, state, char) = [at |-> Same(text, at, char), reads |-> "plain"]
           /\ state = [at |-> at, reads |-> "plain"] =>
                /\ char = "\\" => LikeStep(text, state, char) = [at |-> at, reads |-> "escaped"]
                /\ char = "%" => LikeStep(text, state, char) =
                     [at |-> {i \in 0 .. Len(text) : \E k \in at : k <= i}, reads |-> "plain"]
                /\ char \notin Special => LikeStep(text, state, char) =
                     [at |-> Same(text, at, char), reads |-> "plain"]
<1>1. ASSUME state = [at |-> at, reads |-> "escaped"]
      PROVE  LikeStep(text, state, char) = [at |-> Same(text, at, char), reads |-> "plain"]
  <2>1. state.at = at /\ state.reads = "escaped"
    BY <1>1
  <2> QED  BY <2>1 DEF LikeStep, Same
<1>2. ASSUME state = [at |-> at, reads |-> "plain"]
      PROVE  /\ char = "\\" => LikeStep(text, state, char) = [at |-> at, reads |-> "escaped"]
             /\ char = "%" => LikeStep(text, state, char) =
                  [at |-> {i \in 0 .. Len(text) : \E k \in at : k <= i}, reads |-> "plain"]
             /\ char \notin Special => LikeStep(text, state, char) =
                  [at |-> Same(text, at, char), reads |-> "plain"]
  <2>1. state.at = at /\ state.reads = "plain"
    BY <1>2
  <2>2. ASSUME char = "\\"
        PROVE  LikeStep(text, state, char) = [at |-> at, reads |-> "escaped"]
    BY <2>1, <2>2 DEF LikeStep
  <2>3. ASSUME char = "%"
        PROVE  LikeStep(text, state, char) =
                 [at |-> {i \in 0 .. Len(text) : \E k \in at : k <= i}, reads |-> "plain"]
    BY <2>1, <2>3 DEF LikeStep
  <2>4. ASSUME char \notin Special
        PROVE  LikeStep(text, state, char) = [at |-> Same(text, at, char), reads |-> "plain"]
    BY <2>1, <2>4 DEF LikeStep, Same, Special
  <2> QED  BY <2>2, <2>3, <2>4
<1> QED  BY <1>1, <1>2

\* The text starts with the first k characters of the prefix.
Starting(prefix, text, k) ==
    k <= Len(text) /\ \A i \in 1 .. k : prefix[i] = text[i]

At(prefix, text, k) == {i \in {k} : Starting(prefix, text, k)}

\* One more character of the prefix.
LEMMA SameGoesOn ==
    ASSUME NEW prefix, NEW text, Len(text) \in Nat, NEW k \in Nat
    PROVE  Same(text, At(prefix, text, k), prefix[k + 1]) = At(prefix, text, k + 1)
<1>1. ASSUME NEW i \in Same(text, At(prefix, text, k), prefix[k + 1])
      PROVE  i \in At(prefix, text, k + 1)
  <2>1. /\ i \in 1 .. Len(text) /\ i - 1 = k /\ text[i] = prefix[k + 1]
        /\ Starting(prefix, text, k)
    BY <1>1 DEF Same, At
  <2>2. i = k + 1
    BY <2>1
  <2>3. Starting(prefix, text, k + 1)
    BY <2>1, <2>2 DEF Starting
  <2> QED  BY <2>2, <2>3 DEF At
<1>2. ASSUME NEW i \in At(prefix, text, k + 1)
      PROVE  i \in Same(text, At(prefix, text, k), prefix[k + 1])
  <2>1. i = k + 1 /\ Starting(prefix, text, k + 1)
    BY <1>2 DEF At
  <2>2. /\ i \in 1 .. Len(text) /\ i - 1 = k /\ text[i] = prefix[k + 1]
        /\ Starting(prefix, text, k)
    BY <2>1 DEF Starting
  <2> QED  BY <2>2 DEF Same, At
<1> QED  BY <1>1, <1>2

\* A pattern that begins with these characters.
Extends(pattern, start) ==
    Len(start) <= Len(pattern) /\ \A j \in 1 .. Len(start) : pattern[j] = start[j]

\* After the escaped form of the first k characters of the prefix, what matches
\* is those k characters of the text.
ReadsPrefix(out, prefix, text, k) ==
    /\ out[k] \in Seq(Range(prefix) \cup Special)
    /\ \A pattern, run :
          /\ Len(pattern) \in Nat /\ Extends(pattern, out[k])
          /\ ReadingTo(run, text, pattern, Len(pattern))
          => run[Len(out[k])] = [at |-> At(prefix, text, k), reads |-> "plain"]

\* One more character of the prefix keeps it so.
LEMMA PrefixReadOn ==
    ASSUME NEW prefix, IsSequence(prefix), NEW text, Len(text) \in Nat, NEW out,
           EscapingTo(out, prefix, Len(prefix)),
           NEW k \in 1 .. Len(prefix), ReadsPrefix(out, prefix, text, k - 1)
    PROVE  ReadsPrefix(out, prefix, text, k)
<1> DEFINE chars == Range(prefix) \cup Special
<1>1. Len(prefix) \in Nat /\ DOMAIN prefix = 1 .. Len(prefix)
  <2>1. PICK S : prefix \in Seq(S)
    BY DEF IsSequence
  <2> QED  BY <2>1
<1>2. PICK char, before, after, n :
        /\ char = prefix[k] /\ before = out[k - 1] /\ after = out[k] /\ n = Len(before)
  OBVIOUS
<1>3. char \in chars /\ before \in Seq(chars) /\ n \in Nat
  BY <1>1, <1>2 DEF ReadsPrefix, Range
<1>4. after = Escaped(before, char)
  <2>1. k \in 0 .. Len(prefix) /\ k # 0
    BY <1>1
  <2> QED  BY <1>2, <2>1 DEF EscapingTo
<1>5. (k - 1) + 1 = k /\ k - 1 \in Nat
  BY <1>1
<1>6. Same(text, At(prefix, text, k - 1), char) = At(prefix, text, k)
  BY <1>2, <1>5, SameGoesOn
<1>7. ASSUME NEW pattern, NEW run, Len(pattern) \in Nat, Extends(pattern, before),
             ReadingTo(run, text, pattern, Len(pattern))
      PROVE  run[n] = [at |-> At(prefix, text, k - 1), reads |-> "plain"]
  BY <1>2, <1>7 DEF ReadsPrefix
<1>8. ASSUME NEW pattern, NEW run, NEW j \in 1 .. Len(pattern),
             ReadingTo(run, text, pattern, Len(pattern)), Len(pattern) \in Nat
      PROVE  run[j] = LikeStep(text, run[j - 1], pattern[j])
  <2>1. j \in 0 .. Len(pattern) /\ j # 0
    BY <1>8
  <2> QED  BY <1>8, <2>1 DEF ReadingTo
<1>9. CASE char \notin Special
  <2>1. after = Append(before, char)
    BY <1>4, <1>9 DEF Escaped
  <2>2. /\ after \in Seq(chars) /\ Len(after) = n + 1
        /\ after[n + 1] = char /\ \A j \in 1 .. n : after[j] = before[j]
    BY <1>2, <1>3, <2>1
  <2>3. ASSUME NEW pattern, NEW run, Len(pattern) \in Nat, Extends(pattern, after),
               ReadingTo(run, text, pattern, Len(pattern))
        PROVE  run[n + 1] = [at |-> At(prefix, text, k), reads |-> "plain"]
    <3>1. Extends(pattern, before) /\ n + 1 \in 1 .. Len(pattern) /\ pattern[n + 1] = char
      <4>1. n + 1 <= Len(pattern) /\ \A j \in 1 .. n + 1 : pattern[j] = after[j]
        BY <2>2, <2>3 DEF Extends
      <4>2. n + 1 \in 1 .. Len(pattern) /\ pattern[n + 1] = char
        BY <1>3, <2>2, <2>3, <4>1
      <4>3. n <= Len(pattern) /\ \A j \in 1 .. n : pattern[j] = before[j]
        BY <1>3, <2>2, <2>3, <4>1
      <4> QED  BY <1>2, <4>2, <4>3 DEF Extends
    <3>2. run[n] = [at |-> At(prefix, text, k - 1), reads |-> "plain"]
      BY <1>7, <2>3, <3>1
    <3>3. run[n + 1] = LikeStep(text, run[n], char)
      <4>1. run[n + 1] = LikeStep(text, run[(n + 1) - 1], pattern[n + 1])
        BY <1>8, <2>3, <3>1
      <4>2. (n + 1) - 1 = n
        BY <1>3
      <4> QED  BY <3>1, <4>1, <4>2
    <3> QED  BY <1>6, <1>9, <3>2, <3>3, LikeSteps
  <2> QED  BY <1>2, <2>2, <2>3 DEF ReadsPrefix
<1>10. CASE char \in Special
  <2>1. after = Append(Append(before, "\\"), char)
    BY <1>4, <1>10 DEF Escaped
  <2>2. /\ after \in Seq(chars) /\ Len(after) = n + 2
        /\ after[n + 1] = "\\" /\ after[n + 2] = char
        /\ \A j \in 1 .. n : after[j] = before[j]
    <3>1. PICK middle, escape : middle = Append(before, escape) /\ escape = "\\"
      OBVIOUS
    <3>2. escape \in chars
      BY <3>1 DEF Special
    <3>3. /\ middle \in Seq(chars) /\ Len(middle) = n + 1
          /\ middle[n + 1] = escape /\ \A j \in 1 .. n : middle[j] = before[j]
      <4>1. middle = Append(before, escape)
        BY <3>1
      <4> QED  BY <1>2, <1>3, <3>2, <4>1
    <3>4. after = Append(middle, char)
      BY <2>1, <3>1
    <3>5. /\ after \in Seq(chars) /\ Len(after) = n + 2
          /\ after[n + 2] = char /\ \A j \in 1 .. n + 1 : after[j] = middle[j]
      BY <1>3, <3>3, <3>4
    <3>6. after[n + 1] = escape /\ \A j \in 1 .. n : after[j] = before[j]
      BY <1>3, <3>3, <3>5
    <3> QED  BY <3>1, <3>5, <3>6
  <2>3. ASSUME NEW pattern, NEW run, Len(pattern) \in Nat, Extends(pattern, after),
               ReadingTo(run, text, pattern, Len(pattern))
        PROVE  run[n + 2] = [at |-> At(prefix, text, k), reads |-> "plain"]
    <3>0. PICK escape : escape = "\\" /\ after[n + 1] = escape
      BY <2>2
    <3>1. /\ Extends(pattern, before) /\ n + 1 \in 1 .. Len(pattern)
          /\ n + 2 \in 1 .. Len(pattern)
          /\ pattern[n + 1] = escape /\ pattern[n + 2] = char
      <4>1. /\ Len(after) = n + 2 /\ after[n + 2] = char
            /\ \A j \in 1 .. n : after[j] = before[j]
        BY <2>2
      <4>2. after[n + 1] = escape
        BY <3>0
      <4>3. n + 2 <= Len(pattern) /\ \A j \in 1 .. n + 2 : pattern[j] = after[j]
        BY <2>3, <4>1 DEF Extends
      <4>4. n + 1 \in 1 .. Len(pattern) /\ n + 2 \in 1 .. Len(pattern)
        BY <1>3, <2>3, <4>3
      <4>5. pattern[n + 1] = after[n + 1] /\ pattern[n + 2] = after[n + 2]
        BY <1>3, <4>3
      <4>6. n <= Len(pattern) /\ \A j \in 1 .. n : pattern[j] = before[j]
        BY <1>3, <2>3, <4>1, <4>3
      <4> QED  BY <1>2, <4>1, <4>2, <4>4, <4>5, <4>6 DEF Extends
    <3>2. run[n] = [at |-> At(prefix, text, k - 1), reads |-> "plain"]
      BY <1>7, <2>3, <3>1
    <3>3. run[n + 1] = LikeStep(text, run[n], escape)
      <4>1. run[n + 1] = LikeStep(text, run[(n + 1) - 1], pattern[n + 1])
        BY <1>8, <2>3, <3>1
      <4>2. (n + 1) - 1 = n
        BY <1>3
      <4> QED  BY <3>1, <4>1, <4>2
    <3>4. run[n + 2] = LikeStep(text, run[n + 1], char)
      <4>1. run[n + 2] = LikeStep(text, run[(n + 2) - 1], pattern[n + 2])
        BY <1>8, <2>3, <3>1
      <4>2. (n + 2) - 1 = n + 1
        BY <1>3
      <4> QED  BY <3>1, <4>1, <4>2
    <3>5. run[n + 1] = [at |-> At(prefix, text, k - 1), reads |-> "escaped"]
      BY <3>0, <3>2, <3>3, LikeSteps
    <3> QED  BY <1>6, <3>4, <3>5, LikeSteps
  <2> QED  BY <1>2, <2>2, <2>3 DEF ReadsPrefix
<1> QED  BY <1>9, <1>10
\* After the whole escaped prefix, what matches is the prefix.
LEMMA PrefixRead ==
    ASSUME NEW prefix, IsSequence(prefix), NEW text, Len(text) \in Nat, NEW out,
           EscapingTo(out, prefix, Len(prefix))
    PROVE  ReadsPrefix(out, prefix, text, Len(prefix))
<1>1. Len(prefix) \in Nat
  <2>1. PICK S : prefix \in Seq(S)
    BY DEF IsSequence
  <2> QED  BY <2>1
<1>2. ReadsPrefix(out, prefix, text, 0)
  <2>1. out[0] = <<>>
    <3>1. 0 \in 0 .. Len(prefix)
      BY <1>1
    <3> QED  BY <3>1 DEF EscapingTo
  <2>2. out[0] \in Seq(Range(prefix) \cup Special) /\ Len(out[0]) = 0
    BY <2>1
  <2>3. At(prefix, text, 0) = {0}
    BY DEF At, Starting
  <2>4. ASSUME NEW pattern, NEW run, Len(pattern) \in Nat,
               ReadingTo(run, text, pattern, Len(pattern))
        PROVE  run[0] = [at |-> {0}, reads |-> "plain"]
    <3>1. 0 \in 0 .. Len(pattern)
      BY <2>4
    <3> QED  BY <2>4, <3>1 DEF ReadingTo
  <2> QED  BY <2>2, <2>3, <2>4 DEF ReadsPrefix
<1> DEFINE Bad == {k \in 0 .. Len(prefix) : ~ReadsPrefix(out, prefix, text, k)}
<1> SUFFICES ASSUME Bad # {} PROVE FALSE
  BY <1>1
<1>3. PICK m \in Bad : \A k \in Bad : m <= k
  <2>1. Bad \subseteq Nat
    BY <1>1
  <2> HIDE DEF Bad
  <2> QED  BY <2>1, SmallestNumber
<1>4. m \in 1 .. Len(prefix)
  BY <1>1, <1>2, <1>3
<1>5. m - 1 \in 0 .. Len(prefix) /\ m - 1 \notin Bad
  BY <1>1, <1>3, <1>4
<1>6. ReadsPrefix(out, prefix, text, m - 1)
  BY <1>5
<1> QED  BY <1>4, <1>6, PrefixReadOn

\* The pattern of a prefix matches the texts that begin with the prefix.
LEMMA PatternsArePrefixes ==
    ASSUME NEW prefix, IsSequence(prefix), NEW text, IsSequence(text)
    PROVE  Like(text, Append(EscapeLikePrefix(prefix), "%")) <=> IsPrefix(prefix, text)
<1>1. Len(prefix) \in Nat /\ DOMAIN prefix = 1 .. Len(prefix)
  <2>1. PICK S : prefix \in Seq(S)
    BY DEF IsSequence
  <2> QED  BY <2>1
<1>2. Len(text) \in Nat /\ DOMAIN text = 1 .. Len(text)
  <2>1. PICK S : text \in Seq(S)
    BY DEF IsSequence
  <2> QED  BY <2>1
<1>3. PICK out : /\ EscapingTo(out, prefix, Len(prefix))
                 /\ EscapeLikePrefix(prefix) = out[Len(prefix)]
  BY <1>1, EscapeIs
<1>4. ReadsPrefix(out, prefix, text, Len(prefix))
  BY <1>2, <1>3, PrefixRead
<1>5. PICK escaped, percent, n, chars :
        /\ escaped = out[Len(prefix)] /\ percent = "%" /\ n = Len(escaped)
        /\ chars = Range(prefix) \cup Special
  OBVIOUS
<1>6. percent \in chars /\ escaped \in Seq(chars) /\ n \in Nat
  <2>1. percent \in chars
    BY <1>5 DEF Special
  <2>2. escaped \in Seq(chars)
    BY <1>4, <1>5 DEF ReadsPrefix
  <2> QED  BY <1>5, <2>1, <2>2
<1>7. PICK pattern : pattern = Append(escaped, percent)
  OBVIOUS
<1>8. /\ Len(pattern) = n + 1 /\ pattern[n + 1] = percent
      /\ \A j \in 1 .. n : pattern[j] = escaped[j]
  <2>1. n = Len(escaped)
    BY <1>5
  <2> QED  BY <1>6, <1>7, <2>1
<1>9. Extends(pattern, escaped) /\ Len(pattern) \in Nat
  <2>1. n = Len(escaped)
    BY <1>5
  <2> QED  BY <1>6, <1>8, <2>1 DEF Extends
<1>10. PICK run : /\ ReadingTo(run, text, pattern, Len(pattern))
                  /\ Like(text, pattern) <=>
                       /\ run[Len(pattern)].reads = "plain"
                       /\ Len(text) \in run[Len(pattern)].at
  BY <1>9, LikeIs
<1>11. run[n] = [at |-> At(prefix, text, Len(prefix)), reads |-> "plain"]
  BY <1>4, <1>5, <1>9, <1>10 DEF ReadsPrefix
<1>12. run[n + 1] = LikeStep(text, run[n], percent)
  <2>1. n + 1 \in 0 .. Len(pattern) /\ n + 1 # 0 /\ (n + 1) - 1 = n
    BY <1>6, <1>8
  <2>2. run[n + 1] = LikeStep(text, run[(n + 1) - 1], pattern[n + 1])
    BY <1>10, <2>1 DEF ReadingTo
  <2> QED  BY <1>8, <2>1, <2>2
<1>13. run[n + 1] = [at |-> {i \in 0 .. Len(text) :
                               \E k \in At(prefix, text, Len(prefix)) : k <= i},
                     reads |-> "plain"]
  BY <1>5, <1>11, <1>12, LikeSteps
<1>14. /\ run[n + 1].reads = "plain"
       /\ run[n + 1].at = {i \in 0 .. Len(text) :
                             \E k \in At(prefix, text, Len(prefix)) : k <= i}
  BY <1>13
<1>15. Len(text) \in run[n + 1].at <=> Starting(prefix, text, Len(prefix))
  BY <1>1, <1>2, <1>14 DEF At, Starting
<1>16. Starting(prefix, text, Len(prefix)) <=> IsPrefix(prefix, text)
  <2>1. ASSUME Len(prefix) <= Len(text)
        PROVE  SubSeq(prefix, 1, Len(prefix)) = SubSeq(text, 1, Len(prefix))
                 <=> \A i \in 1 .. Len(prefix) : prefix[i] = text[i]
    <3>1. PICK S, T : prefix \in Seq(S) /\ text \in Seq(T)
      BY DEF IsSequence
    <3>2. PICK a, b : a = SubSeq(prefix, 1, Len(prefix)) /\ b = SubSeq(text, 1, Len(prefix))
      OBVIOUS
    <3>3. /\ a \in Seq(S) /\ Len(a) = Len(prefix)
          /\ \A i \in 1 .. Len(prefix) : a[i] = prefix[i]
      BY <1>1, <3>1, <3>2
    <3>4. /\ b \in Seq(T) /\ Len(b) = Len(prefix)
          /\ \A i \in 1 .. Len(prefix) : b[i] = text[i]
      BY <1>1, <1>2, <2>1, <3>1, <3>2
    <3>5. a = b <=> \A i \in 1 .. Len(prefix) : a[i] = b[i]
      BY <3>3, <3>4, SeqEqual
    <3> QED  BY <3>2, <3>3, <3>4, <3>5
  <2> QED  BY <2>1 DEF Starting, IsPrefix
<1>17. Like(text, pattern) <=> IsPrefix(prefix, text)
  BY <1>8, <1>10, <1>14, <1>15, <1>16
<1>18. Append(EscapeLikePrefix(prefix), "%") = pattern
  BY <1>3, <1>5, <1>7
<1> QED  BY <1>17, <1>18

-----------------------------------------------------------------------------
(* Names. *)

\* An accepted identifier reaches the router as it was.
LEMMA PathsKeepNames ==
    ASSUME NEW id, IsSequence(id), ValidEntityId(id), NEW words,
           words = <<PathSegment(<<"a">>), PathSegment(<<"b">>)>>
    PROVE  Routed(JoinUrl(words, PathSegment(id))) = id
<1>1. DOMAIN id = 1 .. Len(id) /\ Len(id) \in Nat /\ id = [i \in DOMAIN id |-> id[i]]
  <2>1. PICK S : id \in Seq(S)
    BY DEF IsSequence
  <2> QED  BY <2>1
<1>2. PICK segment : segment = PathSegment(id)
  OBVIOUS
<1>3. DOMAIN segment = DOMAIN id /\ \A i \in DOMAIN id : segment[i][2] = id[i]
  BY <1>2 DEF PathSegment
<1>4. segment # <<Dot>>
  <2>1. SUFFICES ASSUME segment = <<Dot>> PROVE FALSE
    OBVIOUS
  <2>2. DOMAIN id = 1 .. 1 /\ id[1] = "."
    <3>1. DOMAIN segment = 1 .. 1 /\ segment[1] = Dot
      BY <2>1
    <3>2. 1 \in DOMAIN id /\ id[1] = Dot[2]
      BY <1>3, <3>1
    <3> QED  BY <1>3, <3>1, <3>2 DEF Dot
  <2>3. id = <<".">>
    BY <1>1, <2>2
  <2> QED  BY <2>3 DEF ValidEntityId
<1>5. segment # <<Dot, Dot>>
  <2>1. SUFFICES ASSUME segment = <<Dot, Dot>> PROVE FALSE
    OBVIOUS
  <2>2. DOMAIN id = 1 .. 2 /\ id[1] = "." /\ id[2] = "."
    <3>1. DOMAIN segment = 1 .. 2 /\ segment[1] = Dot /\ segment[2] = Dot
      BY <2>1
    <3>2. 1 \in DOMAIN id /\ 2 \in DOMAIN id /\ id[1] = Dot[2] /\ id[2] = Dot[2]
      BY <1>3, <3>1
    <3> QED  BY <1>3, <3>1, <3>2 DEF Dot
  <2>3. id = <<".", ".">>
    <3>1. PICK dot : dot = "."
      OBVIOUS
    <3>2. DOMAIN id = 1 .. 2 /\ id[1] = dot /\ id[2] = dot
      BY <2>2, <3>1
    <3>3. id = <<dot, dot>>
      <4>1. PICK pair : pair = <<dot, dot>>
        OBVIOUS
      <4>2. pair = [i \in 1 .. 2 |-> dot]
        BY <4>1
      <4>3. id = [i \in 1 .. 2 |-> dot]
        <5>1. \A i \in 1 .. 2 : i = 1 \/ i = 2
          OBVIOUS
        <5>2. \A i \in DOMAIN id : id[i] = dot
          BY <3>2, <5>1
        <5>3. id = [i \in 1 .. 2 |-> id[i]]
          BY <1>1, <3>2
        <5> QED  BY <3>2, <5>2, <5>3
      <4> QED  BY <4>1, <4>2, <4>3
    <3> QED  BY <3>1, <3>3
  <2> QED  BY <2>3 DEF ValidEntityId
<1>6. PICK path : path = JoinUrl(words, segment)
  OBVIOUS
<1>7. path = Append(words, segment)
  BY <1>4, <1>5, <1>6 DEF JoinUrl
<1>8. Len(path) = 3 /\ path[3] = segment
  <2>1. PICK a, b : words = <<a, b>>
    OBVIOUS
  <2> QED  BY <1>7, <2>1
<1>9. Routed(path) = [i \in DOMAIN segment |-> segment[i][2]]
  BY <1>8 DEF Routed
<1> QED  BY <1>1, <1>2, <1>3, <1>6, <1>9

\* For every text: the pattern made from a prefix matches the names that begin
\* with it and no others, an identifier that the rules accept names its own
\* entity in a request path, and a login ends where it may.
THEOREM NamesKeepTheirMeaning == ConvSpec => []NamesMeanThemselves
<1>1. ASSUME NEW in \in PrefixInputs
      PROVE  LikeIsPrefix(in)
  BY TextAssumption, PatternsArePrefixes DEF LikeIsPrefix
<1>2. ASSUME NEW in \in IdInputs
      PROVE  PathNamesItsEntity(in)
  <2>1. PICK words : words = <<PathSegment(<<"a">>), PathSegment(<<"b">>)>>
    OBVIOUS
  <2>2. CASE ValidEntityId(in.text)
    <3>1. Segment(in.text) = <<PathSegment(in.text)>>
      BY <2>2 DEF Segment
    <3>2. Segment(in.text)[1] = PathSegment(in.text)
      BY <3>1
    <3>3. Routed(JoinUrl(words, PathSegment(in.text))) = in.text
      BY <2>1, <2>2, TextAssumption, PathsKeepNames
    <3> QED  BY <2>1, <3>2, <3>3 DEF PathNamesItsEntity
  <2>3. CASE ~ValidEntityId(in.text)
    BY <2>3 DEF PathNamesItsEntity, Segment
  <2> QED  BY <2>2, <2>3
<1>3. InputOk /\ LoginsEndAllowed => NamesMeanThemselves
  BY <1>1, <1>2 DEF InputOk, NamesMeanThemselves, PrefixesMatch, PathsNameEntities
<1> QED  BY <1>3, InputsGiven, LoginsStayAllowed, PTL

-----------------------------------------------------------------------------
(* The envelope of the session cookie. *)

\* The first two separators.
SplitsAt(raw, p, q) ==
    /\ p \in DOMAIN raw /\ q \in DOMAIN raw
    /\ p < q /\ raw[p] = Pipe /\ raw[q] = Pipe
    /\ \A i \in DOMAIN raw : i < q /\ i # p => raw[i] # Pipe

\* They are the ones that are found.
LEMMA SeparatorsFound ==
    ASSUME NEW S, NEW raw \in Seq(S), NEW p, NEW q, SplitsAt(raw, p, q)
    PROVE  FirstPipe(raw) = p /\ SecondPipe(raw) = q
<1> USE DEF SplitsAt
<1>1. DOMAIN raw = 1..Len(raw) /\ Len(raw) \in Nat
  OBVIOUS
<1>2. FirstPipe(raw) = p
  <2>1. PICK pipes : pipes = {i \in DOMAIN raw : i > 0 /\ raw[i] = Pipe}
    OBVIOUS
  <2>2. p \in pipes /\ \A j \in pipes : p <= j
    BY <1>1, <2>1
  <2>3. ASSUME NEW i \in pipes, \A j \in pipes : i <= j PROVE i = p
    BY <1>1, <2>1, <2>2, <2>3
  <2>4. (CHOOSE i \in pipes : \A j \in pipes : i <= j) = p
    BY <2>2, <2>3
  <2> QED  BY <2>1, <2>4 DEF FirstPipe, PipeAfter
<1>3. SecondPipe(raw) = q
  <2>1. PICK pipes : pipes = {i \in DOMAIN raw : i > p /\ raw[i] = Pipe}
    OBVIOUS
  <2>2. q \in pipes /\ \A j \in pipes : q <= j
    BY <1>1, <2>1
  <2>3. ASSUME NEW i \in pipes, \A j \in pipes : i <= j PROVE i = q
    BY <1>1, <2>1, <2>2, <2>3
  <2>4. (CHOOSE i \in pipes : \A j \in pipes : i <= j) = q
    BY <2>2, <2>3
  <2> QED  BY <1>2, <2>1, <2>4 DEF SecondPipe, PipeAfter
<1> QED  BY <1>2, <1>3

\* A MAC is one item or three, and fixes its key and its message.
LEMMA MacsDiffer ==
    ASSUME NEW codec, NEW reader, NEW message, NEW other,
           codec.pipes \in BOOLEAN, reader.pipes \in BOOLEAN
    PROVE  /\ Len(Mac(codec, message)) \in {1, 3}
           /\ Mac(reader, other) = Mac(codec, message)
              => reader.key = codec.key /\ other = message
<1>1. PICK tag, tag2 : tag = <<"mac", codec.key, message>> /\ tag2 = <<"mac", reader.key, other>>
  OBVIOUS
<1>2. tag = tag2 => reader.key = codec.key /\ other = message
  BY <1>1
<1>3. /\ Mac(codec, message) = IF codec.pipes THEN <<Pipe, tag, Pipe>> ELSE <<tag>>
      /\ Mac(reader, other) = IF reader.pipes THEN <<Pipe, tag2, Pipe>> ELSE <<tag2>>
  BY <1>1 DEF Mac
<1>4. Mac(reader, other) = Mac(codec, message) => tag = tag2
  BY <1>3
<1>5. Len(Mac(codec, message)) \in {1, 3}
  BY <1>3
<1> QED  BY <1>2, <1>4, <1>5

\* A sequence without one of its items.
LEMMA Removed ==
    ASSUME NEW S, NEW s \in Seq(S), NEW i \in DOMAIN s
    PROVE  /\ RemoveAt(s, i) \in Seq(S)
           /\ Len(RemoveAt(s, i)) = Len(s) - 1
           /\ \A j \in 1..(Len(s) - 1) :
                 RemoveAt(s, i)[j] = IF j < i THEN s[j] ELSE s[j + 1]
<1>1. Len(s) \in Nat /\ i \in 1..Len(s)
  OBVIOUS
<1>2. PICK a, b : a = SubSeq(s, 1, i - 1) /\ b = SubSeq(s, i + 1, Len(s))
  OBVIOUS
<1>3. /\ a \in Seq(S) /\ Len(a) = i - 1 /\ \A j \in 1..(i - 1) : a[j] = s[j]
  BY <1>1, <1>2
<1>4. b \in Seq(S) /\ Len(b) = Len(s) - i /\ \A j \in 1..(Len(s) - i) : b[j] = s[i + j]
  BY <1>1, <1>2
<1>5. /\ a \o b \in Seq(S) /\ Len(a \o b) = Len(s) - 1
      /\ \A j \in 1..(Len(s) - 1) : (a \o b)[j] = IF j < i THEN s[j] ELSE s[j + 1]
  <2>1. a \o b \in Seq(S) /\ Len(a \o b) = Len(s) - 1
    BY <1>1, <1>3, <1>4
  <2>2. ASSUME NEW j \in 1..(Len(s) - 1)
        PROVE  (a \o b)[j] = IF j < i THEN a[j] ELSE b[j - (i - 1)]
    BY <1>1, <1>3, <1>4
  <2>3. ASSUME NEW j \in 1..(Len(s) - 1), ~(j < i)
        PROVE  b[j - (i - 1)] = s[j + 1]
    BY <1>1, <1>4, <2>3
  <2> QED  BY <1>1, <1>3, <2>1, <2>2, <2>3
<1> QED  BY <1>2, <1>5 DEF RemoveAt


\* What DecodeAt makes of the three parts.
DecodesParts(reader, name, cookie, now_, time, value, mac) ==
    DecodeAt(reader, name, cookie, now_)
      = IF /\ cookie.length <= MaxLength
           /\ Mac(reader, Signed(name, time, value)) = mac
           /\ time[1][2] >= now_ - MaxAge
        THEN Read(value[1][2], <<>>)
        ELSE Refused

\* The first two separators split, and no other.
LEMMA OpenedParts ==
    ASSUME NEW reader, NEW name, NEW cookie, NEW now_, NEW S, NEW raw \in Seq(S),
           raw = cookie.raw, NEW p, NEW q, SplitsAt(raw, p, q)
    PROVE  DecodesParts(reader, name, cookie, now_, SubSeq(raw, 1, p - 1),
                        SubSeq(raw, p + 1, q - 1), SubSeq(raw, q + 1, Len(raw)))
<1>1. FirstPipe(raw) = p /\ SecondPipe(raw) = q
  BY SeparatorsFound
<1>2. HasThreeParts(raw)
  BY DEF HasThreeParts, SplitsAt
<1> QED  BY <1>1, <1>2 DEF DecodeAt, MacPart, DecodesParts

\* The items of an envelope, by their places.
IsEnvelope(raw, time, content, mac) ==
    /\ Len(raw) = 4 + Len(mac)
    /\ raw[1] = time /\ raw[2] = Pipe /\ raw[3] = content /\ raw[4] = Pipe
    /\ \A k \in 1..Len(mac) : raw[4 + k] = mac[k]

\* The kinds of items differ.
LEMMA ItemsDiffer ==
    ASSUME NEW x, NEW y
    PROVE  <<"time", x>> # Pipe /\ Base64(x) # Pipe /\ <<"mac", x, y>> # Pipe
BY DEF Pipe, Base64

\* Two sequences in a row, by their places.
RowOf(S, s, t) ==
    /\ s \o t \in Seq(S) /\ Len(s \o t) = Len(s) + Len(t)
    /\ \A k \in 1..Len(s) : (s \o t)[k] = s[k]
    /\ \A k \in 1..Len(t) : (s \o t)[Len(s) + k] = t[k]

\* That is what concatenation makes of them.
LEMMA InARow ==
    ASSUME NEW S, NEW s \in Seq(S), NEW t \in Seq(S)
    PROVE  RowOf(S, s, t)
<1>1. Len(s) \in Nat /\ Len(t) \in Nat
  OBVIOUS
<1>2. ASSUME NEW k \in 1..Len(t) PROVE (s \o t)[Len(s) + k] = t[k]
  <2>1. Len(s) + k \in 1..(Len(s) + Len(t)) /\ ~(Len(s) + k <= Len(s))
    BY <1>1
  <2>2. (s \o t)[Len(s) + k] = t[Len(s) + k - Len(s)]
    BY <2>1, ConcatProperties
  <2>3. Len(s) + k - Len(s) = k
    BY <1>1
  <2> QED  BY <2>2, <2>3
<1>3. ASSUME NEW k \in 1..Len(s) PROVE (s \o t)[k] = s[k]
  <2>1. k \in 1..(Len(s) + Len(t)) /\ k <= Len(s)
    BY <1>1
  <2> QED  BY <2>1, ConcatProperties
<1>4. s \o t \in Seq(S) /\ Len(s \o t) = Len(s) + Len(t)
  BY ConcatProperties
<1> QED  BY <1>2, <1>3, <1>4 DEF RowOf

\* Short lists.
LEMMA Listed ==
    ASSUME NEW S, NEW a \in S, NEW b \in S, NEW c \in S, NEW d \in S
    PROVE  /\ <<a>> \in Seq(S) /\ <<a, b>> \in Seq(S) /\ <<a, b, c>> \in Seq(S) /\ <<a, b, c, d>> \in Seq(S)
           /\ Len(<<a>>) = 1 /\ Len(<<a, b>>) = 2 /\ Len(<<a, b, c>>) = 3 /\ Len(<<a, b, c, d>>) = 4
OBVIOUS

\* The message that a MAC covers, by its places.
SignedOf(name, time, value) ==
    LET message == Signed(name, time, value)
    IN  /\ Len(message) = 3 + Len(time) + Len(value)
        /\ message[1] = <<"name", name>>
        /\ Len(time) = 1 /\ Len(value) = 1
           => message[3] = time[1] /\ message[4] = Pipe /\ message[5] = value[1]

\* Every message is like this.
LEMMA SignedPlaces ==
    ASSUME NEW S, NEW name, NEW time \in Seq(S), NEW value \in Seq(S)
    PROVE  SignedOf(name, time, value)
<1>1. PICK first : first = <<"name", name>>
  OBVIOUS
<1>2. PICK T : T = S \cup {first, Pipe}
  OBVIOUS
<1>3. time \in Seq(T) /\ value \in Seq(T)
  BY <1>2
<1>4. PICK a, p : a = <<first, Pipe>> /\ p = <<Pipe>>
  OBVIOUS
<1>5. /\ a \in Seq(T) /\ Len(a) = 2 /\ a[1] = first
      /\ p \in Seq(T) /\ Len(p) = 1 /\ p[1] = Pipe
  BY <1>2, <1>4, Listed
<1>6. PICK b : b = a \o time
  OBVIOUS
<1>7. /\ b \in Seq(T) /\ Len(b) = 2 + Len(time) /\ b[1] = first
      /\ \A k \in 1..Len(time) : b[2 + k] = time[k]
  <2>1. RowOf(T, a, time)
    BY <1>3, <1>5, InARow
  <2> QED  BY <1>3, <1>5, <1>6, <2>1 DEF RowOf
<1>8. PICK c : c = b \o p
  OBVIOUS
<1>9. /\ c \in Seq(T) /\ Len(c) = 3 + Len(time) /\ c[1] = first
      /\ \A k \in 1..(2 + Len(time)) : c[k] = b[k]
      /\ c[3 + Len(time)] = Pipe
  <2>1. Len(time) \in Nat
    BY <1>3
  <2>2. /\ c \in Seq(T) /\ Len(c) = Len(b) + 1
        /\ \A k \in 1..Len(b) : c[k] = b[k]
        /\ c[Len(b) + 1] = Pipe
    <3>1. RowOf(T, b, p)
      BY <1>5, <1>7, InARow
    <3> QED  BY <1>5, <1>7, <1>8, <3>1 DEF RowOf
  <2>3. Len(b) + 1 = 3 + Len(time) /\ 1 \in 1..Len(b)
    BY <1>7, <2>1
  <2> QED  BY <1>7, <2>2, <2>3
<1>10. PICK m : m = c \o value
  OBVIOUS
<1>11. /\ m \in Seq(T) /\ Len(m) = Len(c) + Len(value)
       /\ \A k \in 1..Len(c) : m[k] = c[k]
       /\ \A k \in 1..Len(value) : m[Len(c) + k] = value[k]
  <2>1. RowOf(T, c, value)
    BY <1>3, <1>9, InARow
  <2> QED  BY <1>10, <2>1 DEF RowOf
<1>12. m = Signed(name, time, value)
  BY <1>1, <1>4, <1>6, <1>8, <1>10 DEF Signed
<1>13. Len(time) \in Nat /\ Len(value) \in Nat
  BY <1>3
<1>14. Len(m) = 3 + Len(time) + Len(value) /\ m[1] = first
  BY <1>9, <1>11, <1>13
<1>15. ASSUME Len(time) = 1, Len(value) = 1
       PROVE  m[3] = time[1] /\ m[4] = Pipe /\ m[5] = value[1]
  <2>1. b[3] = time[1]
    <3>1. b[2 + 1] = time[1]
      BY <1>7, <1>15
    <3> QED  BY <3>1
  <2>2. c[3] = time[1] /\ c[4] = Pipe /\ Len(c) = 4
    BY <1>9, <1>15, <2>1
  <2>3. m[3] = time[1] /\ m[4] = Pipe
    BY <1>11, <2>2
  <2>4. m[4 + 1] = value[1]
    BY <1>11, <1>15, <2>2
  <2> QED  BY <2>3, <2>4
<1> QED  BY <1>1, <1>12, <1>14, <1>15 DEF SignedOf

\* What EncodeAt seals.
SealedAs(codec, name, value, at) ==
    LET sealed == EncodeAt(codec, name, value, at).value
        time == <<"time", at>>
        content == Base64(value.content)
        message == Signed(name, <<time>>, <<content>>)
        mac == Mac(codec, message)
        S == {time, content, Pipe, <<"mac", codec.key, message>>}
    IN  /\ sealed = [raw |-> sealed.raw, length |-> sealed.length]
        /\ sealed.length <= MaxLength
        /\ sealed.raw \in Seq(S) /\ mac \in Seq(S)
        /\ IsEnvelope(sealed.raw, time, content, mac)

\* It seals every value that fits.
LEMMA SealedShape ==
    ASSUME NEW codec, NEW name, NEW value, NEW at,
           codec.pipes \in BOOLEAN, value.size \in Nat,
           EncodeAt(codec, name, value, at).ok
    PROVE  SealedAs(codec, name, value, at)
<1>1. PICK time, content : time = <<"time", at>> /\ content = Base64(value.content)
  OBVIOUS
<1>2. PICK message : message = Signed(name, <<time>>, <<content>>)
  OBVIOUS
<1>3. PICK tag, mac : tag = <<"mac", codec.key, message>> /\ mac = Mac(codec, message)
  OBVIOUS
<1>4. PICK S : S = {time, content, Pipe, tag}
  OBVIOUS
<1>5. mac \in Seq(S) /\ Len(mac) \in Nat
  <2>1. mac = IF codec.pipes THEN <<Pipe, tag, Pipe>> ELSE <<tag>>
    BY <1>3 DEF Mac
  <2> QED  BY <2>1, <1>4, Listed
<1>6. /\ Len(message) = 5
      /\ message[3] = time /\ message[4] = Pipe /\ message[5] = content
  <2>1. PICK one, two : one = <<time>> /\ two = <<content>>
    OBVIOUS
  <2>2. one \in Seq(S) /\ Len(one) = 1 /\ one[1] = time
    BY <1>4, <2>1, Listed
  <2>3. two \in Seq(S) /\ Len(two) = 1 /\ two[1] = content
    BY <1>4, <2>1, Listed
  <2>4. message = Signed(name, one, two)
    BY <1>2, <2>1
  <2>5. SignedOf(name, one, two)
    BY <2>2, <2>3, SignedPlaces
  <2> QED  BY <2>2, <2>3, <2>4, <2>5 DEF SignedOf
<1>7. PICK head : head = SubSeq(message, 3, 5)
  OBVIOUS
<1>8. /\ head \in Seq(S) /\ Len(head) = 3
      /\ head[1] = time /\ head[2] = Pipe /\ head[3] = content
  <2>1. \A i \in 3..5 : message[i] \in S
    BY <1>4, <1>6
  <2>2. /\ head \in Seq(S) /\ Len(head) = 3
        /\ \A i \in 1..3 : head[i] = message[3 + i - 1]
    BY <1>7, <2>1, SubSeqProperties
  <2>3. head[1] = message[3] /\ head[2] = message[4] /\ head[3] = message[5]
    BY <2>2
  <2> QED  BY <1>6, <2>2, <2>3
<1>9. PICK raw : raw = head \o <<Pipe>> \o mac
  OBVIOUS
<1>10. raw \in Seq(S) /\ IsEnvelope(raw, time, content, mac)
  <2>1. PICK p, left : p = <<Pipe>> /\ left = head \o p
    OBVIOUS
  <2>2. p \in Seq(S) /\ Len(p) = 1 /\ p[1] = Pipe
    BY <1>4, <2>1, Listed
  <2>3. /\ left \in Seq(S) /\ Len(left) = 4
        /\ \A k \in 1..3 : left[k] = head[k]
        /\ left[4] = Pipe
    <3>1. /\ left \in Seq(S) /\ Len(left) = 4
          /\ \A k \in 1..3 : left[k] = head[k]
          /\ left[3 + 1] = Pipe
      <4>1. RowOf(S, head, p)
        BY <1>8, <2>2, InARow
      <4> QED  BY <1>8, <2>1, <2>2, <4>1 DEF RowOf
    <3> QED  BY <3>1
  <2>4. raw = left \o mac
    BY <1>9, <2>1
  <2>5. /\ raw \in Seq(S) /\ Len(raw) = 4 + Len(mac)
        /\ \A k \in 1..4 : raw[k] = left[k]
        /\ \A k \in 1..Len(mac) : raw[4 + k] = mac[k]
    <3>1. RowOf(S, left, mac)
      BY <1>5, <2>3, InARow
    <3> QED  BY <1>5, <2>3, <2>4, <3>1 DEF RowOf
  <2>6. raw[1] = time /\ raw[2] = Pipe /\ raw[3] = content /\ raw[4] = Pipe
    BY <1>8, <2>3, <2>5
  <2> QED  BY <2>5, <2>6 DEF IsEnvelope
<1>11. PICK length :
          length = Base64Len(TimestampLen + 1 + Base64Len(value.size) + 1 + MacLen)
  OBVIOUS
<1>12. length \in Int
  BY <1>11 DEF Base64Len, TimestampLen, MacLen
<1>13. EncodeAt(codec, name, value, at)
         = IF length > MaxLength THEN Refused
           ELSE Read([raw |-> raw, length |-> length], <<>>)
  BY <1>1, <1>2, <1>3, <1>7, <1>9, <1>11 DEF EncodeAt
<1>14. ~(length > MaxLength)
  BY <1>13 DEF Refused
<1>15. EncodeAt(codec, name, value, at).value = [raw |-> raw, length |-> length]
  BY <1>13, <1>14 DEF Read
<1>16. length <= MaxLength
  BY <1>12, <1>14 DEF MaxLength
<1>17. PICK sealed : sealed = EncodeAt(codec, name, value, at).value
  OBVIOUS
<1>18. sealed = [raw |-> sealed.raw, length |-> sealed.length]
       /\ sealed.raw = raw /\ sealed.length = length
  BY <1>15, <1>17
<1> QED  BY <1>1, <1>2, <1>3, <1>4, <1>5, <1>10, <1>16, <1>17, <1>18 DEF SealedAs


\* An envelope with the MAC that belongs to it.
SealedBy(codec, name, time, value, mac, raw) ==
    /\ mac = Mac(codec, Signed(name, <<time>>, <<value>>))
    /\ IsEnvelope(raw, time, value, mac)

\* It opens for its own key and name until its age limit.
OpensInTime(codec, name, time, value, reader, readAs, cookie, now_) ==
    DecodeAt(reader, readAs, cookie, now_)
      = IF reader.key = codec.key /\ readAs = name /\ now_ <= time[2] + MaxAge
        THEN Read(value[2], <<>>) ELSE Refused

\* Every envelope does.
LEMMA EnvelopeOpens ==
    ASSUME NEW codec, NEW reader, NEW name, NEW readAs, NEW time, NEW value,
           NEW now_ \in Int, NEW cookie, NEW S, NEW mac \in Seq(S),
           NEW raw \in Seq(S), raw = cookie.raw, cookie.length <= MaxLength,
           codec.pipes \in BOOLEAN, reader.pipes \in BOOLEAN,
           reader.key = codec.key => reader = codec,
           time # Pipe, value # Pipe, time[2] \in Int,
           SealedBy(codec, name, time, value, mac, raw)
    PROVE  OpensInTime(codec, name, time, value, reader, readAs, cookie, now_)
<1>1. /\ Len(raw) = 4 + Len(mac) /\ Len(mac) \in Nat
      /\ raw[1] = time /\ raw[2] = Pipe /\ raw[3] = value /\ raw[4] = Pipe
      /\ \A k \in 1..Len(mac) : raw[4 + k] = mac[k]
  <2>1. IsEnvelope(raw, time, value, mac)
    BY DEF SealedBy
  <2> QED  BY <2>1 DEF IsEnvelope
<1>2. PICK t, v, m : /\ t = SubSeq(raw, 1, 1) /\ v = SubSeq(raw, 3, 3)
                     /\ m = SubSeq(raw, 5, Len(raw))
  OBVIOUS
<1>3. t = <<time>> /\ v = <<value>> /\ m = mac
  <2>1. \A i \in 1..Len(raw) : raw[i] \in S
    OBVIOUS
  <2>2. t \in Seq(S) /\ Len(t) = 1 /\ t[1] = time
    BY <1>1, <1>2, <2>1
  <2>3. v \in Seq(S) /\ Len(v) = 1 /\ v[1] = value
    BY <1>1, <1>2, <2>1
  <2>4. m \in Seq(S) /\ Len(m) = Len(mac) /\ \A k \in 1..Len(mac) : m[k] = raw[4 + k]
    BY <1>1, <1>2, <2>1
  <2>5. t = <<time>>
    BY <2>2
  <2>6. v = <<value>>
    BY <2>3
  <2>7. m = mac
    BY <1>1, <2>4, SeqEqual
  <2> QED  BY <2>5, <2>6, <2>7
<1>4. DecodesParts(reader, readAs, cookie, now_, t, v, m)
  <2>1. SplitsAt(raw, 2, 4)
    BY <1>1 DEF SplitsAt
  <2>2. 2 - 1 = 1 /\ 2 + 1 = 3 /\ 4 - 1 = 3 /\ 4 + 1 = 5
    OBVIOUS
  <2>3. DecodesParts(reader, readAs, cookie, now_, SubSeq(raw, 1, 2 - 1),
                     SubSeq(raw, 2 + 1, 4 - 1), SubSeq(raw, 4 + 1, Len(raw)))
    BY <2>1, OpenedParts
  <2> QED  BY <1>2, <2>2, <2>3
<1>5. Signed(readAs, t, v) = Signed(name, t, v) => readAs = name
  <2>1. t \in Seq({time, value}) /\ v \in Seq({time, value})
    BY <1>3, Listed
  <2>2. SignedOf(readAs, t, v) /\ SignedOf(name, t, v)
    BY <2>1, SignedPlaces
  <2>3. Signed(readAs, t, v) = Signed(name, t, v) => <<"name", readAs>> = <<"name", name>>
    BY <2>2 DEF SignedOf
  <2> QED  BY <2>3
<1>6. Mac(reader, Signed(readAs, t, v)) = mac <=> reader.key = codec.key /\ readAs = name
  <2>1. mac = Mac(codec, Signed(name, t, v))
    BY <1>3 DEF SealedBy
  <2>2. Mac(reader, Signed(readAs, t, v)) = Mac(codec, Signed(name, t, v))
        => reader.key = codec.key /\ Signed(readAs, t, v) = Signed(name, t, v)
    BY MacsDiffer
  <2> QED  BY <1>5, <2>1, <2>2
<1>7. t[1] = time /\ v[1] = value
  BY <1>3
<1>8. time[2] >= now_ - MaxAge <=> now_ <= time[2] + MaxAge
  BY DEF MaxAge
<1> QED  BY <1>3, <1>4, <1>6, <1>7, <1>8 DEF DecodesParts, OpensInTime

\* An envelope that has lost one of its items does not open.
LEMMA DamageShows ==
    ASSUME NEW codec, NEW reader, NEW name, NEW readAs, NEW time, NEW value,
           NEW now_ \in Int, NEW cookie, NEW S, NEW mac \in Seq(S),
           NEW raw \in Seq(S), NEW i \in DOMAIN raw, RemoveAt(raw, i) = cookie.raw,
           codec.pipes \in BOOLEAN, reader.pipes \in BOOLEAN,
           time # Pipe, value # Pipe,
           SealedBy(codec, name, time, value, mac, raw)
    PROVE  ~DecodeAt(reader, readAs, cookie, now_).ok
<1>0. SUFFICES ASSUME DecodeAt(reader, readAs, cookie, now_).ok PROVE FALSE
  OBVIOUS
<1>1. PICK message, tag, rest :
         /\ message = Signed(name, <<time>>, <<value>>)
         /\ tag = <<"mac", codec.key, message>>
         /\ rest = cookie.raw
  OBVIOUS
<1>2. tag # Pipe
  BY <1>1, ItemsDiffer
<1>3. /\ Len(raw) = 4 + Len(mac) /\ Len(mac) \in Nat
      /\ raw[1] = time /\ raw[2] = Pipe /\ raw[3] = value /\ raw[4] = Pipe
      /\ \A k \in 1..Len(mac) : raw[4 + k] = mac[k]
  <2>1. IsEnvelope(raw, time, value, mac)
    BY DEF SealedBy
  <2> QED  BY <2>1 DEF IsEnvelope
<1>4. \/ Len(mac) = 1 /\ mac[1] = tag
      \/ Len(mac) = 3 /\ mac[1] = Pipe /\ mac[2] = tag /\ mac[3] = Pipe
  <2>1. mac = IF codec.pipes THEN <<Pipe, tag, Pipe>> ELSE <<tag>>
    BY <1>1 DEF Mac, SealedBy
  <2> QED  BY <2>1
<1>5. \/ Len(raw) = 5 /\ raw[5] = tag
      \/ Len(raw) = 7 /\ raw[5] = Pipe /\ raw[6] = tag /\ raw[7] = Pipe
  <2>1. CASE Len(mac) = 1 /\ mac[1] = tag
    <3>1. raw[4 + 1] = tag
      BY <1>3, <2>1
    <3> QED  BY <1>3, <2>1, <3>1
  <2>2. CASE Len(mac) = 3 /\ mac[1] = Pipe /\ mac[2] = tag /\ mac[3] = Pipe
    <3>1. raw[4 + 1] = Pipe /\ raw[4 + 2] = tag /\ raw[4 + 3] = Pipe
      BY <1>3, <2>2
    <3> QED  BY <1>3, <2>2, <3>1
  <2> QED  BY <1>4, <2>1, <2>2
<1>6. /\ rest \in Seq(S) /\ Len(rest) = Len(raw) - 1
      /\ \A j \in 1..(Len(raw) - 1) : rest[j] = IF j < i THEN raw[j] ELSE raw[j + 1]
  BY <1>1, Removed
<1>7. HasThreeParts(rest)
  BY <1>0, <1>1 DEF DecodeAt, Refused
<1>8. Len(message) = 5
  <2>1. <<time>> \in Seq({time, value}) /\ <<value>> \in Seq({time, value})
        /\ Len(<<time>>) = 1 /\ Len(<<value>>) = 1
    BY Listed
  <2>2. SignedOf(name, <<time>>, <<value>>)
    BY <2>1, SignedPlaces
  <2> QED  BY <1>1, <2>1, <2>2 DEF SignedOf
<1>9. ASSUME NEW p, NEW q, SplitsAt(rest, p, q)
      PROVE  /\ Len(rest) - q \in {1, 3}
             /\ SubSeq(rest, q + 1, Len(rest)) = mac => q - 2 = 2
  <2>1. PICK t, v, m : /\ t = SubSeq(rest, 1, p - 1) /\ v = SubSeq(rest, p + 1, q - 1)
                       /\ m = SubSeq(rest, q + 1, Len(rest))
    OBVIOUS
  <2>2. Mac(reader, Signed(readAs, t, v)) = m
    <3>1. DecodesParts(reader, readAs, cookie, now_, SubSeq(rest, 1, p - 1),
                       SubSeq(rest, p + 1, q - 1), SubSeq(rest, q + 1, Len(rest)))
      BY <1>1, <1>6, <1>9, OpenedParts
    <3>2. DecodesParts(reader, readAs, cookie, now_, t, v, m)
      BY <2>1, <3>1
    <3> QED  BY <1>0, <3>2 DEF DecodesParts, Refused
  <2>3. /\ t \in Seq(S) /\ Len(t) = p - 1 /\ v \in Seq(S) /\ Len(v) = q - p - 1
        /\ Len(m) = Len(rest) - q
    <3>1. /\ Len(rest) \in Nat /\ p \in 1..Len(rest) /\ q \in 1..Len(rest) /\ p < q
          /\ \A j \in 1..Len(rest) : rest[j] \in S
      BY <1>6, <1>9 DEF SplitsAt
    <3>2. t \in Seq(S) /\ Len(t) = p - 1
      BY <2>1, <3>1, SubSeqProperties
    <3>3. v \in Seq(S) /\ Len(v) = q - p - 1
      BY <2>1, <3>1, SubSeqProperties
    <3>4. Len(m) = Len(rest) - q
      BY <2>1, <3>1, SubSeqProperties
    <3> QED  BY <3>2, <3>3, <3>4
  <2>4. Len(m) \in {1, 3}
    BY <2>2, MacsDiffer
  <2>5. ASSUME m = mac PROVE q - 2 = 2
    <3>1. Signed(readAs, t, v) = message
      BY <1>1, <2>2, <2>5, MacsDiffer DEF SealedBy
    <3>2. SignedOf(readAs, t, v)
      BY <2>3, SignedPlaces
    <3>3. 3 + (p - 1) + (q - p - 1) = 5
      BY <1>8, <2>3, <3>1, <3>2 DEF SignedOf
    <3> QED  BY <1>6, <1>9, <3>3 DEF SplitsAt
  <2> QED  BY <2>1, <2>3, <2>4, <2>5
<1>10. ASSUME i \in {1, 3} PROVE FALSE
  <2>1. PICK p : p = (IF i = 1 THEN 1 ELSE 2)
    OBVIOUS
  <2>2. SplitsAt(rest, p, 3)
    BY <1>2, <1>3, <1>5, <1>6, <1>10, <2>1 DEF SplitsAt
  <2>3. SubSeq(rest, 4, Len(rest)) = mac
    <3>1. PICK m : m = SubSeq(rest, 4, Len(rest))
      OBVIOUS
    <3>2. m \in Seq(S) /\ Len(m) = Len(mac) /\ \A k \in 1..Len(mac) : m[k] = rest[3 + k]
      BY <1>3, <1>6, <3>1
    <3>3. \A k \in 1..Len(mac) : rest[3 + k] = raw[4 + k]
      <4> TAKE k \in 1..Len(mac)
      <4>1. 3 + k \in 1..(Len(raw) - 1) /\ ~(3 + k < i) /\ 3 + k + 1 = 4 + k
        BY <1>3, <1>10
      <4> QED  BY <1>6, <4>1
    <3>4. \A k \in 1..Len(mac) : m[k] = mac[k]
      BY <1>3, <3>2, <3>3
    <3> QED  BY <3>1, <3>2, <3>4, SeqEqual
  <2>4. 3 + 1 = 4
    OBVIOUS
  <2>5. SubSeq(rest, 3 + 1, Len(rest)) = mac
    BY <2>3, <2>4
  <2>6. 3 - 2 = 2
    BY <1>9, <2>2, <2>5
  <2> QED  BY <2>6
<1>11. ASSUME i \in {2, 4}, Len(raw) = 5 PROVE FALSE
  BY <1>2, <1>3, <1>5, <1>6, <1>7, <1>11 DEF HasThreeParts
<1>12. ASSUME i \in {2, 4}, Len(raw) = 7 PROVE FALSE
  <2>1. PICK p : p = (IF i = 2 THEN 3 ELSE 2)
    OBVIOUS
  <2>2. SplitsAt(rest, p, 4)
    <3>1. DOMAIN rest = 1..6
      BY <1>6, <1>12
    <3>2. CASE i = 2
      BY <1>2, <1>3, <1>5, <1>6, <1>12, <2>1, <3>1, <3>2 DEF SplitsAt
    <3>3. CASE i = 4
      BY <1>2, <1>3, <1>5, <1>6, <1>12, <2>1, <3>1, <3>3 DEF SplitsAt
    <3> QED  BY <1>12, <3>2, <3>3
  <2>3. Len(rest) - 4 \in {1, 3}
    BY <1>9, <2>2
  <2> QED  BY <1>6, <1>12, <2>3
<1>13. ASSUME i > 4 PROVE FALSE
  <2>1. SplitsAt(rest, 2, 4)
    BY <1>2, <1>3, <1>5, <1>6, <1>13 DEF SplitsAt
  <2>2. Len(rest) - 4 \in {1, 3}
    BY <1>9, <2>1
  <2> QED  BY <1>5, <1>6, <2>2
<1> QED  BY <1>5, <1>10, <1>11, <1>12, <1>13

\* An input of the environment is sealed like this.
LEMMA EnvelopesCorrect ==
    ASSUME NEW in \in EnvelopeInputs
    PROVE  CookieOpensOnlyForItself(in)
<1>1. PICK sealed : sealed = EncodeAt(in.codec, in.name, in.value, in.sealedAt)
  OBVIOUS
<1>2. PICK cookie, raw : cookie = sealed.value /\ raw = sealed.value.raw
  OBVIOUS
<1>3. SUFFICES
        ASSUME sealed.ok
        PROVE  /\ DecodeAt(in.reader, in.readAs, cookie, in.now) =
                     IF /\ in.reader.key = in.codec.key /\ in.readAs = in.name
                        /\ in.now <= in.sealedAt + MaxAge
                     THEN Read(in.value.content, <<>>) ELSE Refused
               /\ \A i \in DOMAIN raw :
                     ~DecodeAt(in.reader, in.readAs,
                               [cookie EXCEPT !.raw = RemoveAt(raw, i)], in.now).ok
  BY <1>1, <1>2 DEF CookieOpensOnlyForItself
<1>4. /\ in.codec.pipes \in BOOLEAN /\ in.reader.pipes \in BOOLEAN
      /\ in.reader.key = in.codec.key => in.reader = in.codec
      /\ in.sealedAt \in Int /\ in.now \in Int /\ in.value.size \in Nat
  BY EnvelopeAssumption
<1>5. PICK time, content : time = <<"time", in.sealedAt>> /\ content = Base64(in.value.content)
  OBVIOUS
<1>6. time # Pipe /\ content # Pipe /\ time[2] = in.sealedAt /\ content[2] = in.value.content
  BY <1>5, ItemsDiffer DEF Base64
<1>7. PICK mac, S :
         /\ mac = Mac(in.codec, Signed(in.name, <<time>>, <<content>>))
         /\ S = {time, content, Pipe,
                 <<"mac", in.codec.key, Signed(in.name, <<time>>, <<content>>)>>}
  OBVIOUS
<1>8. /\ cookie = [raw |-> raw, length |-> cookie.length]
      /\ cookie.length <= MaxLength
      /\ raw \in Seq(S) /\ mac \in Seq(S)
      /\ IsEnvelope(raw, time, content, mac)
  <2>1. SealedAs(in.codec, in.name, in.value, in.sealedAt)
    BY <1>1, <1>3, <1>4, SealedShape
  <2> QED  BY <1>1, <1>2, <1>5, <1>7, <2>1 DEF SealedAs
<1>9. SealedBy(in.codec, in.name, time, content, mac, raw)
  BY <1>7, <1>8 DEF SealedBy
<1>10. OpensInTime(in.codec, in.name, time, content, in.reader, in.readAs, cookie, in.now)
  BY <1>2, <1>4, <1>6, <1>8, <1>9, EnvelopeOpens
<1>11. ASSUME NEW i \in DOMAIN raw
       PROVE  ~DecodeAt(in.reader, in.readAs,
                        [cookie EXCEPT !.raw = RemoveAt(raw, i)], in.now).ok
  <2>1. PICK damaged : damaged = [cookie EXCEPT !.raw = RemoveAt(raw, i)]
    OBVIOUS
  <2>2. RemoveAt(raw, i) = damaged.raw
    BY <1>8, <2>1
  <2>3. ~DecodeAt(in.reader, in.readAs, damaged, in.now).ok
    BY <1>4, <1>6, <1>8, <1>9, <2>2, DamageShows
  <2> QED  BY <2>1, <2>3
<1> QED  BY <1>6, <1>10, <1>11 DEF OpensInTime

\* For every key, name, value and age, and whatever bytes a MAC holds: a sealed
\* session opens with its own key, under its own name and until its age limit,
\* and not otherwise, nor when any one of its parts is missing.
THEOREM SealsHold == ConvSpec => []EnvelopeCorrect
<1>1. InputOk => EnvelopeCorrect
  BY EnvelopesCorrect DEF InputOk, EnvelopeCorrect
<1> QED  BY <1>1, InputsGiven, PTL

=============================================================================
