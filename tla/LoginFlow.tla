------------------------------ MODULE LoginFlow ------------------------------
(***************************************************************************)
(* The browser login (routes/browser.rs), the STS login (routes/sts.rs)    *)
(* and the cookies of SessionCookies (lakefs/session.rs).  The server      *)
(* keeps nothing of a login: everything is in one cookie jar, which the    *)
(* tabs of a browser share.  A request carries the cookies of the moment   *)
(* it was sent and its answer changes the jar when it arrives, so several  *)
(* requests see and overwrite each other's logins.  Callbacks are opened   *)
(* again, in any order, and from links that no login of this browser led   *)
(* to; the provider answers late or never; answers get lost; the server    *)
(* restarts and is not ready before its discovery has succeeded.           *)
(*                                                                         *)
(* A login stands for the state, the nonce and the PKCE verifier that      *)
(* authorize_url draws for it; a code and a session for the login they     *)
(* came from.  Of time, only FLOW_TTL and the request timeout count.       *)
(***************************************************************************)
EXTENDS Integers, FiniteSets

CONSTANTS
    Requests,               \* the connections of the browser to the server
    Logins,                 \* the logins this browser can begin
    Foreign,                \* a login that began elsewhere
    None,                   \* an absent cookie or query value
    Keep,                   \* an answer that leaves the cookie as it is
    SdkCode,                \* the code of a client of the STS login
    FlowTtl,
    RequestTimeout,
    RpInitiatedLogout,
    TokenFits,              \* the logins whose ID token is small enough for its cookie
    MaxTime

ASSUME LoginAssumption ==
    /\ FlowTtl \in Nat
    /\ RequestTimeout \in Nat \ {0}
    /\ RpInitiatedLogout \in BOOLEAN
    /\ TokenFits \subseteq Logins
    /\ MaxTime \in Nat
    /\ {Foreign, None, Keep, SdkCode} \cap Logins = {}
    /\ Keep # None
    /\ None \notin 0 .. MaxTime

VARIABLES
    now,
    ready,      \* the discovery has succeeded since the last start
    jar,        \* the cookies of the browser
    request,    \* what each connection is doing
    login,      \* when each login began
    code,       \* what the provider knows of each login
    spent       \* auxiliary: the logins whose session has reached the browser

loginVars == <<now, ready, jar, request, login, code, spent>>

-----------------------------------------------------------------------------
(* The requests and the answers. *)

Idle == [at |-> "idle"]

InHandler == {"exchange", "verify"}

Queries ==
    [state : Logins \cup {Foreign, None}, code : Logins \cup {Foreign, None},
     error : BOOLEAN]

\* The Set-Cookie headers of an answer; None removes the cookie.
Answer(flow, session, idToken) == [flow |-> flow, session |-> session, idToken |-> idToken]

NoCookies == Answer(Keep, Keep, Keep)

Fresh(r) ==
    /\ request[r] = Idle
    /\ now + RequestTimeout <= MaxTime

\* A request is answered.  `flow` and `before` are auxiliary: the login that the
\* request is the answer of the provider to, None when there is no such login,
\* and the logins whose session had reached the browser by then.
Reply(r, flow, answer) ==
    request' = [request EXCEPT ![r] =
                  [at |-> "answered", flow |-> flow, answer |-> answer, before |-> spent]]

\* A request goes on with the code exchange.
Await(r, op, flow, received) ==
    request' = [request EXCEPT ![r] =
                  [at |-> "exchange", op |-> op, flow |-> flow, code |-> received, since |-> now]]

-----------------------------------------------------------------------------
(* GET /oidc/login: the flow of a new login goes into the cookie, and the   *)
(* browser on to the provider.  Refused before discovery has succeeded and  *)
(* when `next` is not safe.                                                 *)

Login(r, l) ==
    /\ Fresh(r)
    /\ \/ /\ ready
          /\ login[l] = None
          /\ login' = [login EXCEPT ![l] = now]
          /\ Reply(r, None, Answer(l, Keep, Keep))
       \/ /\ UNCHANGED login
          /\ Reply(r, None, NoCookies)
    /\ UNCHANGED <<now, ready, jar, code, spent>>

-----------------------------------------------------------------------------
(* GET /oidc/callback.  The browser opens the answer of the provider to one *)
(* of its logins, perhaps again, or a link of another origin.               *)

FromProvider(query) ==
    /\ query.state \in Logins
    /\ \/ code[query.state] \in {"issued", "redeemed"} /\ query.code = query.state /\ ~query.error
       \/ code[query.state] = "refused" /\ query.code = None /\ query.error

FromElsewhere(query) == query.state \in {Foreign, None} /\ query.code \in {Foreign, None}

\* Fault: a callback without a state is taken for an answer to the flow.
StateMatches_MissingStatePasses(flow, query) ==
    flow # None /\ (query.state = None \/ query.state = flow)

StateMatches(flow, query) == flow # None /\ query.state = flow

\* Fault: every failed callback consumes the flow.
CallbackFailure_AlwaysConsumes(consumeFlow) == Answer(None, Keep, Keep)

\* What a failed callback answers: the flow is consumed or kept.
CallbackFailure(consumeFlow) == Answer(IF consumeFlow THEN None ELSE Keep, Keep, Keep)

\* Fault: the age of the flow is left to the Max-Age of the cookie.
FlowIsFresh_Always(flow) == TRUE

FlowIsFresh(flow) == now - login[flow] <= FlowTtl

\* callback_inner to the code exchange: an error of the provider, check_state,
\* and the checks of finish_login that need no answer.
Callback(r, query) ==
    LET flow == jar.flow
        matches == StateMatches(flow, query)
        own == IF FromProvider(query) /\ query.state = flow THEN flow ELSE None
        fail(consumeFlow) == Reply(r, own, CallbackFailure(consumeFlow))
    IN
    /\ Fresh(r)
    /\ \/ /\ query.error
          /\ fail(matches)
       \/ /\ ~query.error
          /\ ~ready \/ ~matches
          /\ fail(FALSE)
       \/ /\ ~query.error
          /\ ready /\ matches
          /\ ~FlowIsFresh(flow) \/ query.code = None
          /\ fail(TRUE)
       \/ /\ ~query.error
          /\ ready /\ matches
          /\ FlowIsFresh(flow) /\ query.code # None
          /\ Await(r, "callback", flow, query.code)
    /\ UNCHANGED <<now, ready, jar, login, code, spent>>

-----------------------------------------------------------------------------
(* POST /sts/login: the code of an SDK client, with a redirect URI that is  *)
(* on the allow list or not.  It sets no cookie.                            *)

StsLogin(r, allowed) ==
    /\ Fresh(r)
    /\ IF ready /\ allowed
       THEN Await(r, "sts", None, SdkCode)
       ELSE Reply(r, None, NoCookies)
    /\ UNCHANGED <<now, ready, jar, login, code, spent>>

-----------------------------------------------------------------------------
(* The rest of both handlers: the code exchange, the check of the ID token  *)
(* and of its claims, the provisioning, the answer.                         *)

\* The handler of a request ends.
Finish(r, answer) ==
    Reply(r, IF request[r].code = request[r].flow THEN request[r].flow ELSE None, answer)

\* Every failure after the state check answers the same cookies.
FinishFails(r) ==
    Finish(r, IF request[r].op = "callback" THEN CallbackFailure(TRUE) ELSE NoCookies)

\* The provider redeems a code once, for the verifier it was issued with.
Redeems(r) ==
    LET c == request[r].code IN
    \/ c = SdkCode
    \/ c \in Logins /\ code[c] = "issued" /\ c = request[r].flow

Redeemed(r) ==
    LET c == request[r].code IN
    code' = IF c = SdkCode THEN code ELSE [code EXCEPT ![c] = "redeemed"]

\* exchange_code: redeemed, redeemed with the answer lost or unreadable, or refused.
ExchangeCode(r) ==
    /\ request[r].at = "exchange"
    /\ \/ /\ Redeems(r)
          /\ Redeemed(r)
          /\ \/ request' = [request EXCEPT ![r].at = "verify"]
             \/ FinishFails(r)
       \/ /\ UNCHANGED code
          /\ FinishFails(r)
    /\ UNCHANGED <<now, ready, jar, login, spent>>

\* verify_id_token can succeed: the nonce of a browser login must be the stored
\* one, a client of the STS login may have drawn any.
NonceAccepted(r) == request[r].op = "callback" => request[r].code = request[r].flow

\* Fault: a login that succeeded leaves its flow in the jar.
LoginOutcome_KeepsFlow(l) ==
    Answer(Keep, l, IF RpInitiatedLogout /\ l \in TokenFits THEN l ELSE Keep)

\* The cookies of a login that succeeded.  An ID token that does not fit sets
\* none, whatever the jar holds.
LoginOutcome(l) ==
    Answer(None, l, IF RpInitiatedLogout /\ l \in TokenFits THEN l ELSE Keep)

\* The rest of finish_login: the ID token and its claims are checked, the user
\* is provisioned and the session minted.  Each of them can fail.
FinishLogin(r) ==
    /\ request[r].at = "verify" /\ request[r].op = "callback"
    /\ \/ NonceAccepted(r) /\ Finish(r, LoginOutcome(request[r].code))
       \/ FinishFails(r)
    /\ UNCHANGED <<now, ready, jar, login, code, spent>>

\* The same for an STS login, which answers the claims or an error.
FinishSts(r) ==
    /\ request[r].at = "verify" /\ request[r].op = "sts"
    /\ NonceAccepted(r)
    /\ Finish(r, NoCookies)
    /\ UNCHANGED <<now, ready, jar, login, code, spent>>

\* Fault: only the code exchange is bounded in time.
Timeout_OnlyExchange(r) ==
    /\ request[r].at = "exchange"
    /\ now - request[r].since >= RequestTimeout
    /\ Finish(r, NoCookies)
    /\ UNCHANGED <<now, ready, jar, login, code, spent>>

\* The timeout layer drops the handler and answers 408, without cookies.
Timeout(r) ==
    /\ request[r].at \in InHandler
    /\ now - request[r].since >= RequestTimeout
    /\ Finish(r, NoCookies)
    /\ UNCHANGED <<now, ready, jar, login, code, spent>>

-----------------------------------------------------------------------------
(* GET /oidc/logout: the session goes, and what else the request carried.   *)

\* The private jar sends a removal only for a cookie that came with the request,
\* that is, for one the browser held when it sent the logout.
Removal(cookie) == IF cookie # None THEN None ELSE Keep

\* Fault: the ID token stays behind, for the logout of the next session.
LogoutAnswer_KeepsIdToken == Answer(Removal(jar.flow), None, Keep)

\* The session cookie is not in the private jar and is always cleared.
LogoutAnswer == Answer(Removal(jar.flow), None, Removal(jar.idToken))

Logout(r) ==
    /\ Fresh(r)
    /\ Reply(r, None, LogoutAnswer)
    /\ UNCHANGED <<now, ready, jar, login, code, spent>>

-----------------------------------------------------------------------------
(* The browser, the provider and the environment. *)

Apply(cookie, change) == IF change = Keep THEN cookie ELSE change

\* An answer reaches the browser; that of a login sends it on to the provider.
Deliver(r) ==
    LET answer == request[r].answer IN
    /\ request[r].at = "answered"
    /\ jar' = [flow |-> Apply(jar.flow, answer.flow),
               session |-> Apply(jar.session, answer.session),
               idToken |-> Apply(jar.idToken, answer.idToken)]
    /\ code' = IF answer.flow \in Logins THEN [code EXCEPT ![answer.flow] = "asked"] ELSE code
    /\ spent' = spent \cup ({answer.session} \cap Logins)
    /\ request' = [request EXCEPT ![r] = Idle]
    /\ UNCHANGED <<now, ready, login>>

\* The connection breaks: the answer never arrives, and a handler is dropped.
Lose(r) ==
    /\ request[r] # Idle
    /\ request' = [request EXCEPT ![r] = Idle]
    /\ UNCHANGED <<now, ready, jar, login, code, spent>>

\* The provider ends a login it was asked for, with a code or an error.
ProviderAnswers(l) ==
    /\ code[l] = "asked"
    /\ \E outcome \in {"issued", "refused"} : code' = [code EXCEPT ![l] = outcome]
    /\ UNCHANGED <<now, ready, jar, request, login, spent>>

\* The browser drops a cookie whose Max-Age has passed, by its own clock.
FlowExpires ==
    /\ jar.flow # None
    /\ now - login[jar.flow] >= FlowTtl
    /\ jar' = [jar EXCEPT !.flow = None]
    /\ UNCHANGED <<now, ready, request, login, code, spent>>

\* The session and the ID token of a login have the same Max-Age; an ID token
\* that an earlier login, or an ended one, left behind goes on its own.
SessionExpires ==
    /\ \/ /\ jar.session # None
          /\ jar' = [jar EXCEPT !.session = None, !.idToken = None]
       \/ /\ jar.idToken \notin {None, jar.session}
          /\ jar' = [jar EXCEPT !.idToken = None]
    /\ UNCHANGED <<now, ready, request, login, code, spent>>

Discover ==
    /\ ~ready
    /\ ready' = TRUE
    /\ UNCHANGED <<now, jar, request, login, code, spent>>

\* The server starts again; its connections are gone.
RestartServer ==
    /\ ready
    /\ ready' = FALSE
    /\ request' = [r \in Requests |-> Idle]
    /\ UNCHANGED <<now, jar, login, code, spent>>

\* Time does not pass a timeout that is due.
Tick ==
    /\ now < MaxTime
    /\ \A r \in Requests : request[r].at \in InHandler => now - request[r].since < RequestTimeout
    /\ now' = now + 1
    /\ UNCHANGED <<ready, jar, request, login, code, spent>>

-----------------------------------------------------------------------------

LoginInit ==
    /\ now = 0
    /\ ready = FALSE
    /\ jar = [flow |-> None, session |-> None, idToken |-> None]
    /\ request = [r \in Requests |-> Idle]
    /\ login = [l \in Logins |-> None]
    /\ code = [l \in Logins |-> "none"]
    /\ spent = {}

Handle(r) == ExchangeCode(r) \/ FinishLogin(r) \/ FinishSts(r)

LoginNext ==
    \/ \E r \in Requests :
          \/ \E l \in Logins : Login(r, l)
          \/ \E query \in Queries :
                (FromProvider(query) \/ FromElsewhere(query)) /\ Callback(r, query)
          \/ \E allowed \in BOOLEAN : StsLogin(r, allowed)
          \/ Handle(r)
          \/ Timeout(r)
          \/ Logout(r)
          \/ Deliver(r)
          \/ Lose(r)
    \/ \E l \in Logins : ProviderAnswers(l)
    \/ FlowExpires
    \/ SessionExpires
    \/ Discover
    \/ RestartServer
    \/ Tick

\* Time passes and the timeout layer and the connection do their part; the
\* provider and the authorization server may never answer.
LoginSpec ==
    /\ LoginInit
    /\ [][LoginNext]_loginVars
    /\ WF_loginVars(Tick)
    /\ \A r \in Requests : WF_loginVars(Timeout(r)) /\ WF_loginVars(Deliver(r))

-----------------------------------------------------------------------------
(* Correctness. *)

Changes == Logins \cup {None, Keep}

\* The shape of the state.  A handler of the callback that waits holds a flow
\* of this browser and the code that the provider issued for that login: the
\* state check of check_state lets nothing else reach the code exchange.
LoginTypeOK ==
    /\ now \in 0 .. MaxTime
    /\ ready \in BOOLEAN
    /\ jar \in [flow : Logins \cup {None}, session : Logins \cup {None},
                idToken : Logins \cup {None}]
    /\ login \in [Logins -> 0 .. MaxTime \cup {None}]
    /\ code \in [Logins -> {"none", "asked", "issued", "refused", "redeemed"}]
    /\ spent \subseteq Logins
    /\ \A r \in Requests :
          \/ request[r] = Idle
          \/ /\ request[r].at = "answered"
             /\ request[r].flow \in Logins \cup {None}
             /\ request[r].answer \in [flow : Changes, session : Changes, idToken : Changes]
             /\ request[r].before \subseteq spent
          \/ /\ request[r].at \in InHandler
             /\ \/ request[r].op = "callback" /\ request[r].flow \in Logins
                   /\ request[r].code = request[r].flow
                \/ request[r].op = "sts" /\ request[r].code = SdkCode

\* A flow makes one session: once that session has reached the browser, the
\* jar never holds the flow again, whatever other tabs had on the way, so the
\* callback URL in the history of the browser cannot be used with it ("a used
\* code cannot be replayed with the same state").
FlowUsedOnce == jar.flow # None => jar.flow \notin spent

\* The state invariant of the login: only a code of the own flow is exchanged
\* (check_state), and a flow is used once (callback).
LoginInv == LoginTypeOK /\ FlowUsedOnce

\* The answer of a logout: no other answer clears the session.
IsLogout(answer) == answer.session = None

\* A session ends together with the ID token in the jar, so that the next
\* session does not find it: whatever tabs overwrite each other and whatever is
\* lost, the jar is left with an ID token only by a logout that was sent before
\* the session of that ID token had come.  The removals of `logout` are those of
\* the cookies its request carried, and no login brings its ID token twice.
IdTokenEndsWithSession ==
    [][jar.session # None /\ jar'.session = None /\ jar'.idToken # None =>
          \E r \in Requests :
             /\ request[r].at = "answered" /\ request'[r] = Idle
             /\ IsLogout(request[r].answer)
             /\ jar'.idToken \notin request[r].before]_loginVars

\* The ID token is kept "for as long as the session itself", as the comment on
\* SessionCookies::id_token says.
IdTokenAsLongAsSession == jar.idToken # None => jar.session # None

\* With a session whose own ID token did not fit its cookie, a logout behaves
\* "as if no ID token existed", as the same comment says.
UnfitTokenLeavesNone ==
    jar.session \in Logins \ TokenFits => jar.idToken = None

\* A login in progress is not cancelled by a callback that is not the answer
\* of the provider to a login of this browser: a flow leaves the jar with the
\* answer to such a callback, with a logout, or when it is too old.
NotCancelledFromElsewhere ==
    [][jar.flow # None /\ jar'.flow = None =>
          \/ now - login[jar.flow] >= FlowTtl
          \/ \E r \in Requests :
                /\ request[r] # Idle /\ request'[r] = Idle
                /\ IsLogout(request[r].answer) \/ request[r].flow # None]_loginVars

\* No session comes out of a login that began more than FLOW_TTL and one
\* request timeout ago, even if the browser still holds its cookie.
SessionInTime ==
    [][\A r \in Requests :
          request[r].at = "verify" /\ request'[r].at = "answered" =>
            \A l \in Logins : request'[r].answer.session = l =>
                now - login[l] <= FlowTtl + RequestTimeout]_loginVars

\* A failure after the state check consumes the flow, as the comment on
\* `callback` says.
EveryFailureConsumesFlow ==
    [][\A r \in Requests :
          /\ request[r].at \in InHandler
          /\ request[r].op = "callback"
          /\ request'[r].at = "answered"
          => request'[r].answer.flow = None]_loginVars

\* No request waits for ever on a provider or an authorization server that
\* does not answer.
EveryRequestEnds == \A r \in Requests : request[r] # Idle ~> request[r] = Idle

=============================================================================
