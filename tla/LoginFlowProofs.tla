--------------------------- MODULE LoginFlowProofs ---------------------------
(***************************************************************************)
(* The invariant of the browser login and three of its action properties,  *)
(* for any number of tabs and logins and any lengths of the timeouts.      *)
(*                                                                         *)
(* The server keeps nothing, so what holds of the jar rests on what may    *)
(* still be on its way to it (AnswerInv): a login is begun once, so one    *)
(* answer at most carries its flow, and none once the provider knows the   *)
(* login; an answer that carries a session takes the flow away, and the    *)
(* code of that session is redeemed.  A handler that waits was let in with *)
(* a fresh flow of this jar (HandlerInv).  Since a code is redeemed once,  *)
(* the session of a login, and its ID token, come to the browser once      *)
(* (OnceInv), so a logout that found no ID token to remove can leave only  *)
(* one behind that came after it.                                          *)
(***************************************************************************)
EXTENDS LoginFlow, TLAPS

Cookies == [flow : Changes, session : Changes, idToken : Changes]

AnsweredType ==
    [at : {"answered"}, flow : Logins \cup {None}, answer : Cookies,
     before : SUBSET Logins]

HandlerType ==
    [at : InHandler, op : {"callback", "sts"}, flow : Logins \cup {None},
     code : Logins \cup {SdkCode}, since : 0 .. MaxTime]

FlowType ==
    /\ now \in 0 .. MaxTime
    /\ ready \in BOOLEAN
    /\ jar \in [flow : Logins \cup {None}, session : Logins \cup {None},
                idToken : Logins \cup {None}]
    /\ login \in [Logins -> 0 .. MaxTime \cup {None}]
    /\ code \in [Logins -> {"none", "asked", "issued", "refused", "redeemed"}]
    /\ spent \subseteq Logins
    /\ request \in [Requests -> {Idle} \cup AnsweredType \cup HandlerType]

\* The answer with `flow` that is on its way to the browser: a new flow, a
\* session that ends its flow, a logout, or the end of a flow without a session.
AnswerOk(flow, a) ==
    /\ a.flow \in Logins =>
          login[a.flow] # None /\ code[a.flow] = "none" /\ a.session = Keep
    /\ a.flow = None => IsLogout(a) \/ flow # None
    /\ a.session \in Logins => a.flow = None /\ code[a.session] = "redeemed"
    /\ a.idToken \in Logins => a.idToken = a.session

\* The handler in request q waits: since when, and for which login.
HandlerOk(q) ==
    /\ q.since <= now /\ now - q.since <= RequestTimeout
    /\ q.op = "callback" =>
          /\ q.flow \in Logins /\ q.code = q.flow
          /\ login[q.flow] # None
          /\ q.since - login[q.flow] <= FlowTtl
          /\ q.at = "verify" => code[q.flow] = "redeemed"
    /\ q.op = "sts" => q.code = SdkCode

AnswerInv ==
    /\ \A r \in Requests : request[r].at = "answered" =>
          AnswerOk(request[r].flow, request[r].answer)
    /\ \A r, s \in Requests :
          /\ request[r].at = "answered" /\ request[s].at = "answered"
          /\ request[r].answer.flow \in Logins
          /\ request[r].answer.flow = request[s].answer.flow
          => r = s

HandlerInv ==
    \A r \in Requests : request[r].at \in InHandler => HandlerOk(request[r])

\* What the jar holds was begun, and what was used up is redeemed.
JarInv ==
    /\ jar.flow # None => login[jar.flow] # None
    /\ \A l \in Logins : login[l] = None => code[l] = "none"
    /\ \A l \in spent : code[l] = "redeemed"
    /\ FlowUsedOnce

FlowInv == FlowType /\ AnswerInv /\ HandlerInv /\ JarInv

USE LoginAssumption

\* Initially nothing is on its way and the jar is empty.
LEMMA FlowInit == LoginInit => FlowInv
<1> SUFFICES ASSUME LoginInit PROVE FlowInv
  OBVIOUS
<1>1. FlowType
  <2>1. now \in 0 .. MaxTime /\ spent \subseteq Logins
    BY DEF LoginInit
  <2>6. ready \in BOOLEAN
    BY DEF LoginInit
  <2>2. jar \in [flow : Logins \cup {None}, session : Logins \cup {None},
                idToken : Logins \cup {None}]
    BY DEF LoginInit
  <2>3. login \in [Logins -> 0 .. MaxTime \cup {None}]
    BY DEF LoginInit
  <2>4. code \in [Logins -> {"none", "asked", "issued", "refused", "redeemed"}]
    BY DEF LoginInit
  <2>5. request \in [Requests -> {Idle} \cup AnsweredType \cup HandlerType]
    BY DEF LoginInit
  <2> QED  BY <2>1, <2>2, <2>3, <2>4, <2>5, <2>6 DEF FlowType
<1>2. \A r \in Requests : request[r].at = "idle"
  BY DEF LoginInit, Idle
<1>3. AnswerInv /\ HandlerInv
  BY <1>2 DEF AnswerInv, HandlerInv, InHandler
<1>4. JarInv
  BY DEF LoginInit, JarInv, FlowUsedOnce
<1> QED  BY <1>1, <1>3, <1>4 DEF FlowInv

\* What the provider knows of a login never becomes unknown, and a redeemed
\* code stays redeemed.
CodeGoesOn ==
    /\ code' \in [Logins -> {"none", "asked", "issued", "refused", "redeemed"}]
    /\ \A l \in Logins :
          code[l] \in {"none", "redeemed"} => code'[l] = code[l]

\* The answers and handlers that do not move stay as good as they were.
LEMMA OthersStay ==
    ASSUME FlowInv, CodeGoesOn, UNCHANGED <<now, login>>
    PROVE  /\ \A r \in Requests : request[r].at = "answered" =>
                 AnswerOk(request[r].flow, request[r].answer)
                 /\ \A f, a : f = request[r].flow /\ a = request[r].answer =>
                       AnswerOk(f, a)'
           /\ \A r \in Requests : request[r].at \in InHandler =>
                 \A q : q = request[r] => HandlerOk(q)'
<1>1. ASSUME NEW r \in Requests, request[r].at = "answered",
             NEW f, NEW a, f = request[r].flow, a = request[r].answer
      PROVE  AnswerOk(f, a)'
  <2>1. AnswerOk(f, a)
    BY <1>1 DEF FlowInv, AnswerInv
  <2> QED  BY <2>1 DEF AnswerOk, CodeGoesOn
<1>2. ASSUME NEW r \in Requests, request[r].at \in InHandler,
             NEW q, q = request[r]
      PROVE  HandlerOk(q)'
  <2>1. HandlerOk(q)
    BY <1>2 DEF FlowInv, HandlerInv
  <2> QED  BY <2>1 DEF HandlerOk, CodeGoesOn
<1> QED  BY <1>1, <1>2 DEF FlowInv, AnswerInv

\* Request r becomes q, which brings no new flow into the jar.
LEMMA RequestMoves ==
    ASSUME FlowInv, CodeGoesOn, NEW r \in Requests,
           UNCHANGED <<now, ready, jar, login, spent>>,
           NEW q \in {Idle} \cup AnsweredType \cup HandlerType,
           request' = [request EXCEPT ![r] = q],
           q.at = "answered" =>
              AnswerOk(q.flow, q.answer)' /\ q.answer.flow \notin Logins,
           q.at \in InHandler => HandlerOk(q)'
    PROVE  FlowInv'
<1>1. FlowType'
  BY DEF FlowInv, FlowType, CodeGoesOn
<1>2. request'[r] = q
      /\ \A s \in Requests : s # r => request'[s] = request[s]
  BY DEF FlowInv, FlowType
<1>3. AnswerInv'
  <2>1. ASSUME NEW s \in Requests, request'[s].at = "answered"
        PROVE  AnswerOk(request[s].flow, request[s].answer)'
    <3>1. CASE s = r
      BY <1>2, <2>1, <3>1
    <3>2. CASE s # r
      BY <1>2, <2>1, <3>2, OthersStay
    <3> QED  BY <3>1, <3>2
  <2>2. \A s, t \in Requests :
          /\ request'[s].at = "answered" /\ request'[t].at = "answered"
          /\ request'[s].answer.flow \in Logins
          /\ request'[s].answer.flow = request'[t].answer.flow
          => s = t
    BY <1>2 DEF FlowInv, AnswerInv
  <2> QED  BY <2>1, <2>2 DEF AnswerInv
<1>4. HandlerInv'
  <2>1. ASSUME NEW s \in Requests, request'[s].at \in InHandler
        PROVE  HandlerOk(request[s])'
    <3>1. CASE s = r
      BY <1>2, <2>1, <3>1
    <3>2. CASE s # r
      BY <1>2, <2>1, <3>2, OthersStay
    <3> QED  BY <3>1, <3>2
  <2> QED  BY <2>1 DEF HandlerInv, InHandler
<1>5. JarInv'
  BY DEF FlowInv, FlowType, JarInv, CodeGoesOn, FlowUsedOnce
<1> QED  BY <1>1, <1>3, <1>4, <1>5 DEF FlowInv

\* Request r is answered without a new flow.
LEMMA Replies ==
    ASSUME FlowInv, CodeGoesOn, NEW r \in Requests,
           UNCHANGED <<now, ready, jar, login, spent>>,
           NEW flow \in Logins \cup {None}, NEW a \in Cookies,
           Reply(r, flow, a), AnswerOk(flow, a)', a.flow \notin Logins
    PROVE  FlowInv'
<1> DEFINE q == [at |-> "answered", flow |-> flow, answer |-> a,
                 before |-> spent]
<1>0. spent \in SUBSET Logins
  BY DEF FlowInv, FlowType
<1>1. q \in AnsweredType /\ q.at = "answered" /\ q.flow = flow /\ q.answer = a
  BY <1>0 DEF AnsweredType
<1>2. request' = [request EXCEPT ![r] = q]
  BY DEF Reply
<1> HIDE DEF q
<1>3. q.at \notin InHandler
  BY <1>1 DEF InHandler
<1> QED  BY <1>1, <1>2, <1>3, RequestMoves

\* The answers of the failures.
LEMMA PlainAnswers ==
    ASSUME NEW flow \in Logins \cup {None}
    PROVE  /\ NoCookies \in Cookies /\ AnswerOk(flow, NoCookies)'
              /\ NoCookies.flow \notin Logins
           /\ CallbackFailure(FALSE) = NoCookies
           /\ CallbackFailure(TRUE) \in Cookies
              /\ CallbackFailure(TRUE).flow \notin Logins
           /\ flow # None => AnswerOk(flow, CallbackFailure(TRUE))'
BY DEF NoCookies, CallbackFailure, Answer, Cookies, Changes, AnswerOk, IsLogout

\* The answer of a logout takes cookies away and brings none.
LEMMA LogoutTakes ==
    ASSUME NEW a, a = LogoutAnswer
    PROVE  /\ a \in Cookies /\ AnswerOk(None, a)' /\ a.flow \notin Logins
           /\ IsLogout(a) /\ a.idToken = Removal(jar.idToken)
BY DEF LogoutAnswer, Removal, Answer, Cookies, Changes, AnswerOk, IsLogout

\* A request that is refused, or ends without changing a cookie.
LEMMA RepliesPlainly ==
    ASSUME FlowInv, CodeGoesOn, NEW r \in Requests,
           UNCHANGED <<now, ready, jar, login, spent>>,
           NEW flow \in Logins \cup {None},
           \/ Reply(r, flow, NoCookies)
           \/ flow # None /\ Reply(r, flow, CallbackFailure(TRUE))
    PROVE  FlowInv'
BY Replies, PlainAnswers

\* The provider's knowledge does not change in most steps.
LEMMA CodeStays ==
    ASSUME FlowInv, UNCHANGED code
    PROVE  CodeGoesOn
BY DEF FlowInv, FlowType, CodeGoesOn

\* GET /oidc/login: the flow of a login that begins now is on its way once.
LEMMA LoginStep ==
    ASSUME FlowInv, NEW r \in Requests, NEW l \in Logins, Login(r, l)
    PROVE  FlowInv'
<1>0. UNCHANGED <<now, ready, jar, code, spent>>
  BY DEF Login
<1>1. CASE UNCHANGED login /\ Reply(r, None, NoCookies)
  BY <1>0, <1>1, CodeStays, RepliesPlainly
<1>2. CASE /\ login[l] = None
           /\ login' = [login EXCEPT ![l] = now]
           /\ Reply(r, None, Answer(l, Keep, Keep))
  <2> DEFINE a == Answer(l, Keep, Keep)
             q == [at |-> "answered", flow |-> None, answer |-> a,
                   before |-> spent]
  <2>1. a \in Cookies /\ a.flow = l /\ a.session = Keep /\ a.idToken = Keep
    BY DEF Answer, Cookies, Changes
  <2>2. q \in AnsweredType /\ q.at = "answered" /\ q.flow = None
        /\ q.answer = a
    BY <2>1 DEF AnsweredType, FlowInv, FlowType
  <2>3. request' = [request EXCEPT ![r] = q]
    BY <1>2 DEF Reply
  <2> HIDE DEF a, q
  <2>4. request'[r] = q
        /\ \A s \in Requests : s # r => request'[s] = request[s]
    BY <2>3 DEF FlowInv, FlowType
  <2>5. /\ now \in 0 .. MaxTime
        /\ login'[l] = now /\ login'[l] # None
        /\ \A m \in Logins : m # l => login'[m] = login[m]
    BY <1>2 DEF FlowInv, FlowType
  <2>6. FlowType'
    BY <1>0, <1>2, <2>2, <2>3 DEF FlowInv, FlowType
  <2>7. code[l] = "none" /\ l \notin spent /\ jar.flow # l
    BY <1>2 DEF FlowInv, JarInv
  <2>8. AnswerInv'
    <3>1. ASSUME NEW s \in Requests, request'[s].at = "answered"
          PROVE  AnswerOk(request[s].flow, request[s].answer)'
      <4>1. CASE s = r
        BY <1>0, <2>1, <2>2, <2>4, <2>5, <2>7, <4>1 DEF AnswerOk
      <4>2. CASE s # r
        <5>1. AnswerOk(request[s].flow, request[s].answer)
          BY <2>4, <3>1, <4>2 DEF FlowInv, AnswerInv
        <5>2. request[s].answer.flow \in Logins =>
                 login'[request[s].answer.flow] # None
          BY <2>5, <5>1 DEF AnswerOk
        <5> QED  BY <1>0, <2>4, <4>2, <5>1, <5>2 DEF AnswerOk
      <4> QED  BY <4>1, <4>2
    <3>2. ASSUME NEW s \in Requests, request[s].at = "answered"
          PROVE  request[s].answer.flow # l
      BY <1>2, <3>2 DEF FlowInv, AnswerInv, AnswerOk
    <3>3. \A s, t \in Requests :
            /\ request'[s].at = "answered" /\ request'[t].at = "answered"
            /\ request'[s].answer.flow \in Logins
            /\ request'[s].answer.flow = request'[t].answer.flow
            => s = t
      BY <2>1, <2>2, <2>4, <3>2 DEF FlowInv, AnswerInv
    <3> QED  BY <3>1, <3>3 DEF AnswerInv
  <2>9. HandlerInv'
    <3>1. ASSUME NEW s \in Requests, request'[s].at \in InHandler
          PROVE  HandlerOk(request[s])'
      <4>1. s # r
        BY <2>2, <2>4, <3>1 DEF InHandler
      <4>2. HandlerOk(request[s]) /\ request'[s] = request[s]
        BY <2>4, <3>1, <4>1 DEF FlowInv, HandlerInv
      <4>3. request[s].op = "callback" => request[s].flow # l
        BY <1>2, <4>2 DEF HandlerOk
      <4> QED  BY <1>0, <2>5, <4>2, <4>3 DEF HandlerOk
    <3> QED  BY <3>1 DEF HandlerInv, InHandler
  <2>10. JarInv'
    BY <1>0, <2>5, <2>7 DEF FlowInv, FlowType, JarInv, FlowUsedOnce
  <2> QED  BY <2>6, <2>8, <2>9, <2>10 DEF FlowInv
<1> QED  BY <1>1, <1>2 DEF Login

\* A request goes on with the code exchange.
LEMMA Awaits ==
    ASSUME FlowInv, NEW r \in Requests, NEW op \in {"callback", "sts"},
           NEW flow \in Logins \cup {None}, NEW received \in Logins \cup {SdkCode},
           Await(r, op, flow, received),
           UNCHANGED <<now, ready, jar, login, code, spent>>,
           op = "callback" => /\ flow \in Logins /\ received = flow
                              /\ login[flow] # None
                              /\ now - login[flow] <= FlowTtl,
           op = "sts" => received = SdkCode
    PROVE  FlowInv'
<1>1. now \in 0 .. MaxTime
  BY DEF FlowInv, FlowType
<1>2. \E q \in HandlerType :
        /\ q.at = "exchange" /\ q.op = op /\ q.flow = flow
        /\ q.code = received /\ q.since = now
        /\ request' = [request EXCEPT ![r] = q]
  <2> DEFINE q == [at |-> "exchange", op |-> op, flow |-> flow,
                   code |-> received, since |-> now]
  <2>1. q \in HandlerType
    BY <1>1 DEF HandlerType, InHandler
  <2>2. request' = [request EXCEPT ![r] = q]
    BY DEF Await
  <2> QED  BY <2>1, <2>2
<1>3. PICK q \in HandlerType :
        /\ q.at = "exchange" /\ q.op = op /\ q.flow = flow
        /\ q.code = received /\ q.since = now
        /\ request' = [request EXCEPT ![r] = q]
  BY <1>2
<1>4. HandlerOk(q)'
  BY <1>1, <1>3 DEF HandlerOk
<1> QED  BY <1>3, <1>4, CodeStays, RequestMoves

\* GET /oidc/callback up to the code exchange: only the answer of the provider
\* to the login in the jar consumes its flow or goes on.
LEMMA CallbackStep ==
    ASSUME FlowInv, NEW r \in Requests, NEW query \in Queries,
           FromProvider(query) \/ FromElsewhere(query), Callback(r, query)
    PROVE  FlowInv'
<1> DEFINE flow == jar.flow
           matches == StateMatches(flow, query)
           own == IF FromProvider(query) /\ query.state = flow
                  THEN flow ELSE None
<1>0. UNCHANGED <<now, ready, jar, login, code, spent>> /\ CodeGoesOn
  BY CodeStays DEF Callback
<1>1. flow \in Logins \cup {None} /\ own \in Logins \cup {None}
  BY DEF FlowInv, FlowType
<1>2. matches => /\ flow \in Logins /\ own = flow /\ own # None
                 /\ FromProvider(query) /\ query.state = flow
                 /\ login[flow] # None
  <2> HAVE matches
  <2>1. flow \in Logins /\ query.state = flow
    BY <1>1 DEF StateMatches
  <2>2. ~FromElsewhere(query)
    BY <2>1 DEF FromElsewhere
  <2>3. login[flow] # None
    BY <2>1 DEF FlowInv, JarInv
  <2> QED  BY <2>1, <2>2, <2>3
<1>3. CASE Reply(r, own, NoCookies)
  BY <1>0, <1>1, <1>3, RepliesPlainly
<1>4. CASE matches /\ Reply(r, own, CallbackFailure(TRUE))
  BY <1>0, <1>1, <1>2, <1>4, RepliesPlainly
<1>5. CASE /\ ~query.error /\ matches /\ FlowIsFresh(flow)
           /\ query.code # None
           /\ Await(r, "callback", flow, query.code)
  <2>1. query.code = flow
    BY <1>2, <1>5 DEF FromProvider
  <2>2. now - login[flow] <= FlowTtl
    BY <1>5 DEF FlowIsFresh
  <2> HIDE DEF flow, matches, own
  <2> QED  BY <1>0, <1>2, <1>5, <2>1, <2>2, Awaits
<1>6. CallbackFailure(FALSE) = NoCookies
  BY PlainAnswers
<1>7. CallbackFailure(matches) = CallbackFailure(TRUE) \/ ~matches
  OBVIOUS
<1>8. ~matches => CallbackFailure(matches) = NoCookies
  BY DEF CallbackFailure, NoCookies
<1> QED  BY <1>3, <1>4, <1>5, <1>6, <1>7, <1>8 DEF Callback

\* POST /sts/login sets no cookie.
LEMMA StsLoginStep ==
    ASSUME FlowInv, NEW r \in Requests, NEW allowed \in BOOLEAN,
           StsLogin(r, allowed)
    PROVE  FlowInv'
<1>0. UNCHANGED <<now, ready, jar, login, code, spent>> /\ CodeGoesOn
  BY CodeStays DEF StsLogin
<1>1. CASE Await(r, "sts", None, SdkCode)
  BY <1>0, <1>1, Awaits
<1>2. CASE Reply(r, None, NoCookies)
  BY <1>0, <1>2, RepliesPlainly
<1> QED  BY <1>1, <1>2 DEF StsLogin

\* What is known of a request whose handler waits.
LEMMA Waiting ==
    ASSUME FlowInv, NEW r \in Requests, request[r].at \in InHandler
    PROVE  /\ request[r] \in HandlerType /\ HandlerOk(request[r])
           /\ request[r].op = "callback" =>
                 request[r].flow \in Logins /\ request[r].code = request[r].flow
           /\ request[r].op \in {"callback", "sts"}
           /\ (IF request[r].code = request[r].flow
               THEN request[r].flow ELSE None) \in Logins \cup {None}
<1>1. request[r] \in {Idle} \cup AnsweredType \cup HandlerType
  BY DEF FlowInv, FlowType
<1>2. request[r] \in HandlerType
  BY <1>1 DEF Idle, AnsweredType, InHandler
<1> QED  BY <1>2 DEF FlowInv, HandlerInv, HandlerOk, HandlerType

\* A handler that ends without a session.
LEMMA HandlerEnds ==
    ASSUME FlowInv, CodeGoesOn, NEW r \in Requests,
           request[r].at \in InHandler,
           UNCHANGED <<now, ready, jar, login, spent>>,
           FinishFails(r) \/ Finish(r, NoCookies)
    PROVE  FlowInv'
<1>1. PICK flow \in Logins \cup {None} :
        /\ flow = IF request[r].code = request[r].flow
                  THEN request[r].flow ELSE None
        /\ request[r].op = "callback" => flow # None
  BY Waiting
<1>2. CASE Finish(r, NoCookies)
  <2>1. Reply(r, flow, NoCookies)
    BY <1>1, <1>2 DEF Finish
  <2> QED  BY <2>1, RepliesPlainly
<1>3. CASE request[r].op = "callback" /\ Finish(r, CallbackFailure(TRUE))
  <2>1. Reply(r, flow, CallbackFailure(TRUE)) /\ flow # None
    BY <1>1, <1>3 DEF Finish
  <2> QED  BY <2>1, RepliesPlainly
<1> QED  BY <1>2, <1>3 DEF FinishFails

\* exchange_code.
LEMMA ExchangeStep ==
    ASSUME FlowInv, NEW r \in Requests, ExchangeCode(r)
    PROVE  FlowInv'
<1>0. /\ request[r].at = "exchange" /\ request[r].at \in InHandler
      /\ UNCHANGED <<now, ready, jar, login, spent>>
  BY DEF ExchangeCode, InHandler
<1>1. CASE UNCHANGED code /\ FinishFails(r)
  BY <1>0, <1>1, CodeStays, HandlerEnds
<1>2. CASE Redeems(r) /\ Redeemed(r)
  <2>1. CodeGoesOn
    BY <1>2, CodeStays DEF Redeems, Redeemed, CodeGoesOn, FlowInv, FlowType
  <2>2. CASE FinishFails(r)
    BY <1>0, <2>1, <2>2, HandlerEnds
  <2>3. CASE request' = [request EXCEPT ![r].at = "verify"]
    <3>1. \E q \in HandlerType :
            /\ request' = [request EXCEPT ![r] = q]
            /\ q.at = "verify" /\ q.op = request[r].op
            /\ q.flow = request[r].flow /\ q.code = request[r].code
            /\ q.since = request[r].since
      <4> DEFINE q == [request[r] EXCEPT !.at = "verify"]
      <4>1. request[r] \in HandlerType
        BY <1>0, Waiting
      <4>2. q \in HandlerType
        BY <4>1 DEF HandlerType, InHandler
      <4>3. /\ q.at = "verify" /\ q.op = request[r].op
            /\ q.flow = request[r].flow /\ q.code = request[r].code
            /\ q.since = request[r].since
        BY <4>1 DEF HandlerType
      <4>4. request' = [request EXCEPT ![r] = q]
        BY <2>3 DEF FlowInv, FlowType
      <4> HIDE DEF q
      <4> QED  BY <4>2, <4>3, <4>4
    <3>2. PICK q \in HandlerType :
            /\ request' = [request EXCEPT ![r] = q]
            /\ q.at = "verify" /\ q.op = request[r].op
            /\ q.flow = request[r].flow /\ q.code = request[r].code
            /\ q.since = request[r].since
      BY <3>1
    <3>3. HandlerOk(request[r])
      BY <1>0, Waiting
    <3>4. q.op = "callback" => code'[q.flow] = "redeemed"
      BY <1>2, <3>2, <3>3 DEF HandlerOk, Redeemed, FlowInv, FlowType
    <3>5. HandlerOk(q)'
      BY <1>0, <3>2, <3>3, <3>4 DEF HandlerOk
    <3> QED  BY <1>0, <2>1, <3>2, <3>5, RequestMoves
  <2> QED  BY <1>2, <2>2, <2>3, <1>0 DEF ExchangeCode
<1> QED  BY <1>1, <1>2 DEF ExchangeCode

\* The rest of finish_login, and of the STS login.
LEMMA FinishStep ==
    ASSUME FlowInv, NEW r \in Requests, FinishLogin(r) \/ FinishSts(r)
    PROVE  FlowInv'
<1>0. /\ request[r].at = "verify" /\ request[r].at \in InHandler
      /\ UNCHANGED <<now, ready, jar, login, code, spent>> /\ CodeGoesOn
  BY CodeStays DEF FinishLogin, FinishSts, InHandler
<1>1. CASE FinishFails(r) \/ Finish(r, NoCookies)
  BY <1>0, <1>1, HandlerEnds
<1>2. CASE request[r].op = "callback"
           /\ Finish(r, LoginOutcome(request[r].code))
  <2>1. PICK l \in Logins : request[r].code = l /\ request[r].flow = l
                            /\ code[l] = "redeemed"
    BY <1>0, <1>2, Waiting DEF HandlerOk
  <2>2. Reply(r, l, LoginOutcome(l))
    BY <1>2, <2>1 DEF Finish
  <2>3. LoginOutcome(l) \in Cookies /\ AnswerOk(l, LoginOutcome(l))'
        /\ LoginOutcome(l).flow \notin Logins
    BY <1>0, <2>1 DEF LoginOutcome, Answer, Cookies, Changes, AnswerOk
  <2> QED  BY <1>0, <2>2, <2>3, Replies
<1> QED  BY <1>1, <1>2 DEF FinishLogin, FinishSts

\* The timeout layer, a logout, and a connection that breaks.
LEMMA EndStep ==
    ASSUME FlowInv, NEW r \in Requests, Timeout(r) \/ Logout(r) \/ Lose(r)
    PROVE  FlowInv'
<1>0. UNCHANGED <<now, ready, jar, login, code, spent>> /\ CodeGoesOn
  BY CodeStays DEF Timeout, Logout, Lose
<1>1. CASE Timeout(r)
  BY <1>0, <1>1, HandlerEnds DEF Timeout
<1>2. CASE Logout(r)
  <2>1. PICK a : a = LogoutAnswer
    OBVIOUS
  <2>2. Reply(r, None, a)
    BY <1>2, <2>1 DEF Logout
  <2> QED  BY <1>0, <2>1, <2>2, LogoutTakes, Replies
<1>3. CASE Lose(r)
  <2>1. Idle.at = "idle" /\ Idle.at # "answered" /\ Idle.at \notin InHandler
    BY DEF Idle, InHandler
  <2> QED  BY <1>0, <1>3, <2>1, RequestMoves DEF Lose
<1> QED  BY <1>1, <1>2, <1>3

\* An answer reaches the browser.
LEMMA DeliverStep ==
    ASSUME FlowInv, NEW r \in Requests, Deliver(r)
    PROVE  FlowInv'
<1>1. request[r] \in AnsweredType /\ request[r].at = "answered"
  <2>1. request[r] \in {Idle} \cup AnsweredType \cup HandlerType
        /\ request[r].at = "answered"
    BY DEF FlowInv, FlowType, Deliver
  <2> QED  BY <2>1 DEF Idle, HandlerType, InHandler
<1>2. PICK a \in Cookies : a = request[r].answer
  BY <1>1 DEF AnsweredType
<1>3. AnswerOk(request[r].flow, a)
  BY <1>1, <1>2 DEF FlowInv, AnswerInv
<1>4. /\ a.flow \in Logins \cup {None, Keep}
      /\ a.session \in Logins \cup {None, Keep}
      /\ a.idToken \in Logins \cup {None, Keep}
  BY DEF Cookies, Changes
<1>5. /\ jar' = [flow |-> Apply(jar.flow, a.flow),
                 session |-> Apply(jar.session, a.session),
                 idToken |-> Apply(jar.idToken, a.idToken)]
      /\ code' = IF a.flow \in Logins THEN [code EXCEPT ![a.flow] = "asked"]
                 ELSE code
      /\ spent' = spent \cup ({a.session} \cap Logins)
      /\ request' = [request EXCEPT ![r] = Idle]
      /\ UNCHANGED <<now, ready, login>>
  BY <1>2 DEF Deliver
<1>6. FlowType'
  <2>1. jar' \in [flow : Logins \cup {None}, session : Logins \cup {None},
                  idToken : Logins \cup {None}]
    BY <1>4, <1>5 DEF FlowInv, FlowType, Apply
  <2>2. code' \in
          [Logins -> {"none", "asked", "issued", "refused", "redeemed"}]
    BY <1>5 DEF FlowInv, FlowType
  <2>3. request' \in [Requests -> {Idle} \cup AnsweredType \cup HandlerType]
    BY <1>5 DEF FlowInv, FlowType
  <2> QED  BY <1>5, <2>1, <2>2, <2>3 DEF FlowInv, FlowType
<1>7. \A l \in Logins : code'[l] = code[l]
                        \/ (l = a.flow /\ code[l] = "none" /\ login[l] # None)
  BY <1>3, <1>5 DEF FlowInv, FlowType, AnswerOk
<1>8. /\ request'[r] = Idle /\ Idle.at = "idle"
      /\ \A s \in Requests : s # r => request'[s] = request[s]
  BY <1>5 DEF FlowInv, FlowType, Idle
<1>9. AnswerInv'
  <2>1. ASSUME NEW s \in Requests, request'[s].at = "answered"
        PROVE  AnswerOk(request[s].flow, request[s].answer)'
    <3>1. s # r /\ request'[s] = request[s]
      BY <1>8, <2>1
    <3>2. AnswerOk(request[s].flow, request[s].answer)
      BY <2>1, <3>1 DEF FlowInv, AnswerInv
    <3>3. request[s].answer.flow \in Logins => request[s].answer.flow # a.flow
      BY <1>1, <1>2, <2>1, <3>1 DEF FlowInv, AnswerInv
    <3>4. request[s].answer.flow \in Logins =>
             code'[request[s].answer.flow] = "none"
      BY <1>7, <3>2, <3>3 DEF AnswerOk
    <3>5. request[s].answer.session \in Logins =>
             code'[request[s].answer.session] = "redeemed"
      BY <1>7, <3>2 DEF AnswerOk
    <3> QED
      BY <1>5, <3>1, <3>2, <3>4, <3>5 DEF AnswerOk
  <2>2. \A s, t \in Requests :
          /\ request'[s].at = "answered" /\ request'[t].at = "answered"
          /\ request'[s].answer.flow \in Logins
          /\ request'[s].answer.flow = request'[t].answer.flow
          => s = t
    BY <1>8 DEF FlowInv, AnswerInv
  <2> QED  BY <2>1, <2>2 DEF AnswerInv
<1>10. HandlerInv'
  <2>1. ASSUME NEW s \in Requests, request'[s].at \in InHandler
        PROVE  HandlerOk(request[s])'
    <3>1. s # r /\ request'[s] = request[s]
      BY <1>8, <2>1 DEF InHandler
    <3>2. HandlerOk(request[s])
      BY <2>1, <3>1 DEF FlowInv, HandlerInv
    <3>3. request[s].op = "callback" /\ request[s].at = "verify" =>
             code'[request[s].flow] = "redeemed"
      BY <1>7, <3>2 DEF HandlerOk
    <3> QED  BY <1>5, <3>1, <3>2, <3>3 DEF HandlerOk
  <2> QED  BY <2>1 DEF HandlerInv, InHandler
<1>11. JarInv'
  <2> USE DEF FlowInv, FlowType, JarInv
  <2>1. /\ jar'.flow = Apply(jar.flow, a.flow)
        /\ jar'.session = Apply(jar.session, a.session)
        /\ jar'.idToken = Apply(jar.idToken, a.idToken)
    BY <1>5
  <2>2. jar'.flow # None => login'[jar'.flow] # None
    BY <1>3, <1>4, <1>5, <2>1 DEF Apply, AnswerOk
  <2>3. \A l \in Logins : login'[l] = None => code'[l] = "none"
    BY <1>5, <1>7
  <2>4. \A l \in spent' : code'[l] = "redeemed"
    BY <1>3, <1>5, <1>7 DEF AnswerOk
  <2>5. FlowUsedOnce'
    <3>1. CASE a.flow = None
      BY <2>1, <3>1 DEF FlowUsedOnce, Apply
    <3>2. CASE a.flow = Keep
      BY <1>3, <1>5, <2>1, <3>2 DEF FlowUsedOnce, Apply, AnswerOk
    <3>3. CASE a.flow \in Logins
      <4>1. spent' = spent /\ code[a.flow] = "none"
        BY <1>3, <1>5, <3>3 DEF AnswerOk
      <4> QED  BY <2>1, <3>3, <4>1 DEF FlowUsedOnce, Apply
    <3> QED  BY <1>4, <3>1, <3>2, <3>3
  <2> QED  BY <2>2, <2>3, <2>4, <2>5
<1> QED  BY <1>6, <1>9, <1>10, <1>11 DEF FlowInv

\* Steps that leave the requests and the logins as they are.
LEMMA RequestsStay ==
    ASSUME FlowInv, CodeGoesOn, FlowType', JarInv',
           UNCHANGED <<now, request, login>>
    PROVE  FlowInv'
<1>1. \A r \in Requests : request'[r].at = "answered" =>
        AnswerOk(request[r].flow, request[r].answer)'
  BY OthersStay
<1>2. \A r \in Requests : request'[r].at \in InHandler =>
        HandlerOk(request[r])'
  BY OthersStay
<1> QED  BY <1>1, <1>2 DEF FlowInv, AnswerInv, HandlerInv, InHandler

\* The provider answers, a cookie expires, the discovery succeeds.
LEMMA BrowserStep ==
    ASSUME FlowInv,
           \/ \E l \in Logins : ProviderAnswers(l)
           \/ FlowExpires \/ SessionExpires \/ Discover
    PROVE  FlowInv'
<1> USE DEF FlowInv, FlowType, JarInv, FlowUsedOnce
<1>1. ASSUME NEW l \in Logins, ProviderAnswers(l) PROVE FlowInv'
  <2>1. /\ UNCHANGED <<now, ready, jar, request, login, spent>>
        /\ code[l] = "asked"
        /\ \E outcome \in {"issued", "refused"} :
              code' = [code EXCEPT ![l] = outcome]
    BY <1>1 DEF ProviderAnswers
  <2>2. CodeGoesOn
    BY <2>1 DEF CodeGoesOn
  <2>3. FlowType' /\ JarInv'
    BY <2>1, <2>2 DEF CodeGoesOn
  <2> QED  BY <2>1, <2>2, <2>3, RequestsStay
<1>2. CASE FlowExpires
  <2>1. /\ UNCHANGED <<now, ready, request, login, code, spent>>
        /\ jar' = [jar EXCEPT !.flow = None]
    BY <1>2 DEF FlowExpires
  <2>2. FlowType' /\ JarInv'
    BY <2>1
  <2> QED  BY <2>1, <2>2, CodeStays, RequestsStay
<1>3. CASE SessionExpires
  <2>1. /\ UNCHANGED <<now, ready, request, login, code, spent>>
        /\ \/ jar' = [jar EXCEPT !.session = None, !.idToken = None]
           \/ jar' = [jar EXCEPT !.idToken = None]
    BY <1>3 DEF SessionExpires
  <2>2. FlowType' /\ JarInv'
    BY <2>1
  <2> QED  BY <2>1, <2>2, CodeStays, RequestsStay
<1>4. CASE Discover
  <2>1. /\ UNCHANGED <<now, jar, request, login, code, spent>>
        /\ ready' = TRUE
    BY <1>4 DEF Discover
  <2>2. ready' \in BOOLEAN
    BY <2>1
  <2>3. FlowType' /\ JarInv'
    BY <2>1, <2>2
  <2> QED  BY <2>1, <2>3, CodeStays, RequestsStay
<1> QED  BY <1>1, <1>2, <1>3, <1>4

\* The server starts again without its connections.
LEMMA RestartStep ==
    ASSUME FlowInv, RestartServer
    PROVE  FlowInv'
<1>1. /\ UNCHANGED <<now, jar, login, code, spent>>
      /\ ready' = FALSE /\ request' = [r \in Requests |-> Idle]
  BY DEF RestartServer
<1>2. ready' \in BOOLEAN
  BY <1>1
<1>3. FlowType'
  BY <1>1, <1>2 DEF FlowInv, FlowType
<1>4. \A r \in Requests : request'[r].at = "idle"
  BY <1>1 DEF Idle
<1>5. AnswerInv' /\ HandlerInv'
  BY <1>4 DEF AnswerInv, HandlerInv, InHandler
<1>6. JarInv'
  BY <1>1 DEF FlowInv, JarInv, FlowUsedOnce
<1> QED  BY <1>3, <1>5, <1>6 DEF FlowInv

\* Time passes, but not past a timeout that is due.
LEMMA TickStep ==
    ASSUME FlowInv, Tick
    PROVE  FlowInv'
<1>1. /\ UNCHANGED <<ready, jar, request, login, code, spent>>
      /\ now' = now + 1 /\ now < MaxTime
      /\ \A r \in Requests : request[r].at \in InHandler =>
            now - request[r].since < RequestTimeout
  BY DEF Tick
<1>2. FlowType'
  BY <1>1 DEF FlowInv, FlowType
<1>3. AnswerInv'
  BY <1>1 DEF FlowInv, AnswerInv, AnswerOk
<1>4. ASSUME NEW r \in Requests, request[r].at \in InHandler
      PROVE  HandlerOk(request[r])'
  <2>1. HandlerOk(request[r]) /\ request[r].since \in 0 .. MaxTime
    BY <1>4, Waiting DEF HandlerType
  <2>2. now \in 0 .. MaxTime /\ now - request[r].since < RequestTimeout
    BY <1>1, <1>4 DEF FlowInv, FlowType
  <2>3. request[r].since <= now' /\ now' - request[r].since <= RequestTimeout
    BY <1>1, <2>1, <2>2 DEF HandlerOk
  <2> QED  BY <1>1, <2>1, <2>3 DEF HandlerOk
<1>5. HandlerInv'
  BY <1>1, <1>4 DEF HandlerInv, InHandler
<1>6. JarInv'
  BY <1>1 DEF FlowInv, JarInv, FlowUsedOnce
<1> QED  BY <1>2, <1>3, <1>5, <1>6 DEF FlowInv

\* Every step keeps the invariant.
LEMMA FlowStep == FlowInv /\ [LoginNext]_loginVars => FlowInv'
<1> SUFFICES ASSUME FlowInv, [LoginNext]_loginVars PROVE FlowInv'
  OBVIOUS
<1>1. CASE UNCHANGED loginVars
  <2>1. UNCHANGED <<now, ready, jar, request, login, code, spent>>
    BY <1>1 DEF loginVars
  <2>2. FlowType' /\ JarInv'
    BY <2>1 DEF FlowInv, FlowType, JarInv, FlowUsedOnce
  <2> QED  BY <2>1, <2>2, CodeStays, RequestsStay
<1>2. CASE LoginNext
  BY <1>2, LoginStep, CallbackStep, StsLoginStep, ExchangeStep, FinishStep,
     EndStep, DeliverStep, BrowserStep, RestartStep, TickStep
     DEF LoginNext, Handle
<1> QED  BY <1>1, <1>2

\* The invariant holds in every state that the browser and the server reach.
THEOREM FlowInvariant == LoginSpec => []FlowInv
BY FlowInit, FlowStep, PTL DEF LoginSpec

\* Request q will bring the session of login l to the browser, unless it fails.
Brings(q, l) ==
    \/ q.at = "verify" /\ q.op = "callback" /\ q.flow = l
    \/ q.at = "answered" /\ q.answer.session = l

\* A logout that leaves the ID token alone found none that it knew of.
LeavesNewer(q, idToken) ==
    q.at = "answered" /\ IsLogout(q.answer) /\ q.answer.idToken = Keep =>
        idToken = None \/ idToken \notin q.before

\* The session of a login comes once, and the logouts on their way know of
\* sessions that have come.
OnceInv ==
    /\ \A r \in Requests : request[r].at = "answered" => request[r].before \subseteq spent
    /\ \A r \in Requests, l \in Logins : Brings(request[r], l) => l \notin spent
    /\ \A r, s \in Requests, l \in Logins :
          Brings(request[r], l) /\ Brings(request[s], l) => r = s
    /\ \A r \in Requests : LeavesNewer(request[r], jar.idToken)

\* A login whose session is on its way has redeemed its code.
LEMMA RedeemedFirst ==
    ASSUME FlowInv, NEW s \in Requests, NEW l \in Logins, Brings(request[s], l)
    PROVE  code[l] = "redeemed"
<1>1. CASE request[s].at = "verify" /\ request[s].op = "callback"
           /\ request[s].flow = l
  BY <1>1, Waiting DEF InHandler, HandlerOk
<1>2. CASE request[s].at = "answered" /\ request[s].answer.session = l
  BY <1>2 DEF FlowInv, AnswerInv, AnswerOk
<1> QED  BY <1>1, <1>2 DEF Brings

\* Initially nothing is on its way.
LEMMA OnceInit == LoginInit => OnceInv
<1> SUFFICES ASSUME LoginInit PROVE OnceInv
  OBVIOUS
<1>1. \A r \in Requests : request[r].at = "idle"
  BY DEF LoginInit, Idle
<1> QED  BY <1>1 DEF OnceInv, Brings, LeavesNewer

\* Request r becomes q, which brings a session only if no other request does.
LEMMA OnceMoves ==
    ASSUME FlowInv, OnceInv, NEW r \in Requests, NEW q,
           request' = [request EXCEPT ![r] = q],
           UNCHANGED <<jar, spent>>,
           q.at = "answered" => q.before = spent,
           LeavesNewer(q, jar.idToken),
           \A l \in Logins : Brings(q, l) =>
              l \notin spent /\ \A s \in Requests : s # r => ~Brings(request[s], l)
    PROVE  OnceInv'
<1>1. request'[r] = q
      /\ \A s \in Requests : s # r => request'[s] = request[s]
  BY DEF FlowInv, FlowType
<1>2. \A s \in Requests : request'[s].at = "answered" => request'[s].before \subseteq spent'
  BY <1>1 DEF OnceInv
<1>3. ASSUME NEW s \in Requests PROVE LeavesNewer(request[s], jar.idToken)'
  <2>1. CASE s = r
    BY <1>1, <2>1 DEF LeavesNewer
  <2>2. CASE s # r
    BY <1>1, <2>2 DEF LeavesNewer, OnceInv
  <2> QED  BY <2>1, <2>2
<1>4. ASSUME NEW s \in Requests, NEW l \in Logins
      PROVE  Brings(request[s], l)' <=> Brings(IF s = r THEN q ELSE request[s], l)
  BY <1>1 DEF Brings
<1>5. \A s \in Requests, l \in Logins : Brings(request[s], l)' => l \notin spent'
  BY <1>4 DEF OnceInv
<1>6. \A s, t \in Requests, l \in Logins :
        Brings(request[s], l)' /\ Brings(request[t], l)' => s = t
  BY <1>4 DEF OnceInv
<1> QED  BY <1>2, <1>3, <1>5, <1>6 DEF OnceInv

\* Request r is answered with a, which carries no session.
LEMMA OnceReplies ==
    ASSUME FlowInv, OnceInv, NEW r \in Requests, NEW flow, NEW a,
           Reply(r, flow, a), UNCHANGED <<jar, spent>>,
           a.session \notin Logins,
           IsLogout(a) => a.idToken = Removal(jar.idToken)
    PROVE  OnceInv'
<1>1. \E q : /\ q.at = "answered" /\ q.answer = a /\ q.before = spent
             /\ request' = [request EXCEPT ![r] = q]
  BY DEF Reply
<1>2. PICK q : /\ q.at = "answered" /\ q.answer = a /\ q.before = spent
               /\ request' = [request EXCEPT ![r] = q]
  BY <1>1
<1>3. LeavesNewer(q, jar.idToken)
  BY <1>2 DEF LeavesNewer, Removal
<1>4. \A l \in Logins : ~Brings(q, l)
  BY <1>2 DEF Brings
<1> QED  BY <1>2, <1>3, <1>4, OnceMoves

\* The same for the answers of the failures.
LEMMA OnceFails ==
    ASSUME FlowInv, OnceInv, NEW r \in Requests, UNCHANGED <<jar, spent>>,
           \/ \E own, flow : Reply(r, own, Answer(flow, Keep, Keep))
           \/ FinishFails(r) \/ Finish(r, NoCookies)
    PROVE  OnceInv'
<1>1. \E own, flow : Reply(r, own, Answer(flow, Keep, Keep))
  BY DEF FinishFails, Finish, NoCookies, CallbackFailure
<1>2. PICK own, flow : Reply(r, own, Answer(flow, Keep, Keep))
  BY <1>1
<1>3. Answer(flow, Keep, Keep).session = Keep
  BY DEF Answer
<1> QED  BY <1>2, <1>3, OnceReplies DEF IsLogout

\* Request r goes on, or away, without an answer.
LEMMA OnceWaits ==
    ASSUME FlowInv, OnceInv, NEW r \in Requests, UNCHANGED <<jar, spent>>,
           \/ \E op, flow, received : Await(r, op, flow, received)
           \/ Lose(r)
    PROVE  OnceInv'
<1>1. \E q : q.at \in {"idle", "exchange"} /\ request' = [request EXCEPT ![r] = q]
  BY DEF Await, Lose, Idle
<1>2. PICK q : q.at \in {"idle", "exchange"} /\ request' = [request EXCEPT ![r] = q]
  BY <1>1
<1>3. LeavesNewer(q, jar.idToken) /\ \A l \in Logins : ~Brings(q, l)
  BY <1>2 DEF LeavesNewer, Brings
<1> QED  BY <1>2, <1>3, OnceMoves

\* A code that is redeemed now has brought no session, and no other request
\* brings one for it.
LEMMA OnceExchange ==
    ASSUME FlowInv, OnceInv, NEW r \in Requests, ExchangeCode(r)
    PROVE  OnceInv'
<1>0. request[r].at = "exchange" /\ UNCHANGED <<jar, spent>>
  BY DEF ExchangeCode
<1>1. CASE FinishFails(r)
  BY <1>0, <1>1, OnceFails
<1>2. CASE Redeems(r) /\ request' = [request EXCEPT ![r].at = "verify"]
  <2>0. request[r] \in HandlerType /\ HandlerOk(request[r])
    BY <1>0, Waiting DEF InHandler
  <2>1. \E q : /\ request' = [request EXCEPT ![r] = q]
               /\ q.at = "verify" /\ q.op = request[r].op
               /\ q.flow = request[r].flow
    <3> DEFINE q == [request[r] EXCEPT !.at = "verify"]
    <3>1. q.at = "verify" /\ q.op = request[r].op /\ q.flow = request[r].flow
      BY <2>0 DEF HandlerType
    <3>2. request' = [request EXCEPT ![r] = q]
      BY <1>2 DEF FlowInv, FlowType
    <3> HIDE DEF q
    <3> QED  BY <3>1, <3>2
  <2>2. PICK q : /\ request' = [request EXCEPT ![r] = q]
                 /\ q.at = "verify" /\ q.op = request[r].op
                 /\ q.flow = request[r].flow
    BY <2>1
  <2>3. LeavesNewer(q, jar.idToken)
    BY <2>2 DEF LeavesNewer
  <2>4. ASSUME NEW l \in Logins, Brings(q, l)
        PROVE  code[l] = "issued"
    <3>1. q.op = "callback" /\ q.flow = l
      BY <2>2, <2>4 DEF Brings
    <3>2. request[r].code = l
      BY <2>0, <2>2, <3>1 DEF HandlerOk
    <3> QED  BY <1>2, <3>2 DEF Redeems
  <2>5. ASSUME NEW l \in Logins, Brings(q, l)
        PROVE  l \notin spent
    BY <2>4, <2>5 DEF FlowInv, JarInv
  <2>6. ASSUME NEW l \in Logins, Brings(q, l), NEW s \in Requests
        PROVE  ~Brings(request[s], l)
    BY <2>4, <2>6, RedeemedFirst
  <2> QED  BY <1>0, <2>2, <2>3, <2>5, <2>6, OnceMoves
<1> QED  BY <1>1, <1>2 DEF ExchangeCode

\* The handler that waited for the session of its login answers it.
LEMMA OnceFinish ==
    ASSUME FlowInv, OnceInv, NEW r \in Requests, FinishLogin(r) \/ FinishSts(r)
    PROVE  OnceInv'
<1>0. request[r].at = "verify" /\ UNCHANGED <<jar, spent>>
  BY DEF FinishLogin, FinishSts
<1>1. CASE FinishFails(r) \/ Finish(r, NoCookies)
  BY <1>0, <1>1, OnceFails
<1>2. CASE request[r].op = "callback"
           /\ Finish(r, LoginOutcome(request[r].code))
  <2>1. PICK l \in Logins : request[r].code = l /\ request[r].flow = l
    BY <1>0, <1>2, Waiting DEF InHandler
  <2>2. Reply(r, l, LoginOutcome(l))
    BY <1>2, <2>1 DEF Finish
  <2>3. LoginOutcome(l).session = l
    BY DEF LoginOutcome, Answer
  <2>4. \E q : /\ q.at = "answered" /\ q.answer.session = l /\ q.before = spent
               /\ request' = [request EXCEPT ![r] = q]
    BY <2>2, <2>3 DEF Reply
  <2>5. PICK q : /\ q.at = "answered" /\ q.answer.session = l /\ q.before = spent
                 /\ request' = [request EXCEPT ![r] = q]
    BY <2>4
  <2>6. LeavesNewer(q, jar.idToken)
    BY <2>5 DEF LeavesNewer, IsLogout
  <2>7. Brings(request[r], l)
    BY <1>0, <1>2, <2>1 DEF Brings
  <2>8. \A m \in Logins : Brings(q, m) => m = l
    BY <2>5 DEF Brings
  <2>9. l \notin spent /\ \A s \in Requests : s # r => ~Brings(request[s], l)
    BY <2>7 DEF OnceInv
  <2> QED  BY <1>0, <2>5, <2>6, <2>8, <2>9, OnceMoves
<1> QED  BY <1>1, <1>2 DEF FinishLogin, FinishSts

\* The session that reaches the browser is on its way nowhere else, and no
\* logout knew of it when it was sent.
LEMMA OnceDeliver ==
    ASSUME FlowInv, OnceInv, NEW r \in Requests, Deliver(r)
    PROVE  OnceInv'
<1>1. /\ request[r].at = "answered"
      /\ request' = [request EXCEPT ![r] = Idle]
      /\ jar'.idToken = Apply(jar.idToken, request[r].answer.idToken)
      /\ spent' = spent \cup ({request[r].answer.session} \cap Logins)
  BY DEF Deliver
<1>2. /\ request'[r] = Idle /\ Idle.at = "idle"
      /\ \A s \in Requests : s # r => request'[s] = request[s]
  BY <1>1 DEF FlowInv, FlowType, Idle
<1>3. \A s \in Requests : request'[s].at = "answered" => request'[s].before \subseteq spent'
  BY <1>1, <1>2 DEF OnceInv
<1>4. ASSUME NEW s \in Requests, NEW l \in Logins, Brings(request[s], l)'
      PROVE  s # r /\ Brings(request[s], l)
  BY <1>2, <1>4 DEF Brings
<1>5. ASSUME NEW s \in Requests, NEW l \in Logins, Brings(request[s], l)'
      PROVE  l \notin spent'
  <2>1. s # r /\ Brings(request[s], l) /\ l \notin spent
    BY <1>4, <1>5 DEF OnceInv
  <2>2. request[r].answer.session = l => Brings(request[r], l)
    BY <1>1 DEF Brings
  <2> QED  BY <1>1, <2>1, <2>2 DEF OnceInv
<1>6. \A s, t \in Requests, l \in Logins :
        Brings(request[s], l)' /\ Brings(request[t], l)' => s = t
  BY <1>4 DEF OnceInv
<1>7. ASSUME NEW s \in Requests PROVE LeavesNewer(request[s], jar.idToken)'
  <2> SUFFICES ASSUME request'[s].at = "answered", IsLogout(request'[s].answer),
                      request'[s].answer.idToken = Keep
               PROVE  jar'.idToken = None \/ jar'.idToken \notin request'[s].before
    BY DEF LeavesNewer, IsLogout
  <2>1. s # r /\ request'[s] = request[s]
    BY <1>2
  <2>2. jar.idToken = None \/ jar.idToken \notin request[s].before
    BY <2>1 DEF OnceInv, LeavesNewer
  <2>3. request[r].answer.idToken \in Logins => request[r].answer.idToken \notin spent
    <3>1. AnswerOk(request[r].flow, request[r].answer)
      BY <1>1 DEF FlowInv, AnswerInv
    <3>2. ASSUME request[r].answer.idToken \in Logins
          PROVE  Brings(request[r], request[r].answer.idToken)
      BY <1>1, <3>1, <3>2 DEF AnswerOk, Brings
    <3> QED  BY <3>2 DEF OnceInv
  <2>4. request[s].before \subseteq spent
    BY <2>1 DEF OnceInv
  <2>5. request[r].answer.idToken \in Logins \cup {None, Keep}
    <3>1. request[r] \in {Idle} \cup AnsweredType \cup HandlerType
      BY DEF FlowInv, FlowType
    <3>2. request[r] \in AnsweredType
      BY <1>1, <3>1 DEF Idle, HandlerType, InHandler
    <3> QED  BY <3>2 DEF AnsweredType, Cookies, Changes
  <2> QED  BY <1>1, <2>1, <2>2, <2>3, <2>4, <2>5 DEF Apply
<1> QED  BY <1>3, <1>5, <1>6, <1>7 DEF OnceInv

\* Steps that leave the requests as they are, but may take the ID token away.
LEMMA OnceStays ==
    ASSUME OnceInv, UNCHANGED <<request, spent>>,
           jar'.idToken = None \/ jar'.idToken = jar.idToken
    PROVE  OnceInv'
<1>1. \A r \in Requests, l \in Logins : Brings(request[r], l)' <=> Brings(request[r], l)
  BY DEF Brings
<1>2. \A r \in Requests : LeavesNewer(request[r], jar.idToken)'
  BY DEF LeavesNewer, OnceInv, IsLogout
<1> QED  BY <1>1, <1>2 DEF OnceInv

\* Every step keeps the invariant.
LEMMA OnceStep == FlowInv /\ OnceInv /\ [LoginNext]_loginVars => OnceInv'
<1> SUFFICES ASSUME FlowInv, OnceInv, [LoginNext]_loginVars PROVE OnceInv'
  OBVIOUS
<1>1. ASSUME NEW r \in Requests, NEW l \in Logins, Login(r, l) PROVE OnceInv'
  BY <1>1, OnceFails DEF Login, NoCookies
<1>2. ASSUME NEW r \in Requests, NEW query \in Queries, Callback(r, query)
      PROVE  OnceInv'
  BY <1>2, OnceFails, OnceWaits DEF Callback, CallbackFailure
<1>3. ASSUME NEW r \in Requests, NEW allowed \in BOOLEAN, StsLogin(r, allowed)
      PROVE  OnceInv'
  BY <1>3, OnceFails, OnceWaits DEF StsLogin, NoCookies
<1>4. ASSUME NEW r \in Requests, Timeout(r) PROVE OnceInv'
  BY <1>4, OnceFails DEF Timeout
<1>5. ASSUME NEW r \in Requests, Logout(r) PROVE OnceInv'
  <2>1. PICK a : a = LogoutAnswer
    OBVIOUS
  <2>2. Reply(r, None, a) /\ UNCHANGED <<jar, spent>>
    BY <1>5, <2>1 DEF Logout
  <2> QED  BY <2>1, <2>2, LogoutTakes, OnceReplies DEF IsLogout
<1>6. ASSUME NEW r \in Requests, Lose(r) PROVE OnceInv'
  BY <1>6, OnceWaits DEF Lose
<1>7. CASE RestartServer
  <2>1. \A r \in Requests : request'[r].at = "idle"
    BY <1>7 DEF RestartServer, Idle
  <2>2. \A r \in Requests, l \in Logins : ~Brings(request[r], l)'
    BY <2>1 DEF Brings
  <2> QED  BY <2>1, <2>2 DEF OnceInv, LeavesNewer
<1>8. CASE FlowExpires \/ SessionExpires
  BY <1>8, OnceStays DEF FlowExpires, SessionExpires, FlowInv, FlowType
<1>9. CASE UNCHANGED <<request, spent, jar>>
  BY <1>9, OnceStays
<1>10. (\E l \in Logins : ProviderAnswers(l)) \/ Discover \/ Tick \/ UNCHANGED loginVars
       => UNCHANGED <<request, spent, jar>>
  BY DEF ProviderAnswers, Discover, Tick, loginVars
<1> QED
  BY <1>1, <1>2, <1>3, <1>4, <1>5, <1>6, <1>7, <1>8, <1>9, <1>10,
     OnceExchange, OnceFinish, OnceDeliver DEF LoginNext, Handle

\* The session of a login reaches the browser once.
THEOREM SessionsComeOnce == LoginSpec => []OnceInv
BY OnceInit, OnceStep, FlowInvariant, PTL DEF LoginSpec

\* For any number of tabs and logins, however their answers are lost, delayed
\* and reordered: only a code of the own flow is exchanged, and a flow makes one
\* session, after which the jar never holds it again.
THEOREM FlowsAreUsedOnce == LoginSpec => []LoginInv
<1>1. FlowInv /\ OnceInv => LoginInv
  <2> SUFFICES ASSUME FlowInv, OnceInv PROVE LoginInv
    OBVIOUS
  <2>1. FlowType
    BY DEF FlowInv
  <2>2. ASSUME NEW r \in Requests
        PROVE  \/ request[r] = Idle
               \/ /\ request[r].at = "answered"
                  /\ request[r].flow \in Logins \cup {None}
                  /\ request[r].answer \in
                        [flow : Changes, session : Changes, idToken : Changes]
                  /\ request[r].before \subseteq spent
               \/ /\ request[r].at \in InHandler
                  /\ \/ request[r].op = "callback" /\ request[r].flow \in Logins
                        /\ request[r].code = request[r].flow
                     \/ request[r].op = "sts" /\ request[r].code = SdkCode
    <3>1. CASE request[r] = Idle
      BY <3>1
    <3>2. CASE request[r] \in AnsweredType
      BY <3>2 DEF AnsweredType, Cookies, OnceInv
    <3>3. CASE request[r] \in HandlerType
      <4>1. request[r].at \in InHandler
        BY <3>3 DEF HandlerType
      <4> QED  BY <4>1, Waiting DEF HandlerOk
    <3> QED  BY <2>1, <3>1, <3>2, <3>3 DEF FlowType
  <2>3. FlowUsedOnce
    BY DEF FlowInv, JarInv
  <2> QED  BY <2>1, <2>2, <2>3 DEF LoginInv, LoginTypeOK, FlowType
<1> QED  BY <1>1, FlowInvariant, SessionsComeOnce, PTL

\* The answer of a request that is delivered is the only one that changes the
\* flow in the jar, but for the age of the cookie itself.
LEMMA FlowLeaves ==
    ASSUME FlowInv, LoginNext, jar.flow # None, jar'.flow = None
    PROVE  (\E r \in Requests : Deliver(r)) \/ FlowExpires
<1>1. jar' # jar
  OBVIOUS
<1>2. CASE UNCHANGED jar
  BY <1>1, <1>2
<1>3. CASE SessionExpires
  <2>1. jar'.flow = jar.flow
    BY <1>3 DEF SessionExpires, FlowInv, FlowType
  <2> QED  BY <2>1
<1>4. \/ UNCHANGED jar
      \/ SessionExpires
      \/ FlowExpires
      \/ \E r \in Requests : Deliver(r)
  BY DEF LoginNext, Login, Callback, StsLogin, Handle, ExchangeCode,
         FinishLogin, FinishSts, Timeout, Logout, Lose, ProviderAnswers,
         Discover, RestartServer, Tick
<1> QED  BY <1>2, <1>3, <1>4

\* A callback that is not the provider's answer to a login of this browser
\* does not cancel the login in progress, in any order of the answers: what
\* takes a flow away is its age, a logout, or such an answer (callback_failure
\* keeps the flow when the state does not match).
THEOREM LoginsAreNotCancelled == LoginSpec => NotCancelledFromElsewhere
<1> DEFINE A == jar.flow # None /\ jar'.flow = None =>
          \/ now - login[jar.flow] >= FlowTtl
          \/ \E r \in Requests :
                /\ request[r] # Idle /\ request'[r] = Idle
                /\ IsLogout(request[r].answer) \/ request[r].flow # None
<1>1. FlowInv /\ [LoginNext]_loginVars => [A]_loginVars
  <2> SUFFICES ASSUME FlowInv, LoginNext, jar.flow # None, jar'.flow = None
               PROVE  A
    OBVIOUS
  <2>1. CASE FlowExpires
    BY <2>1 DEF FlowExpires
  <2>2. CASE \E r \in Requests : Deliver(r)
    <3>1. PICK r \in Requests : Deliver(r)
      BY <2>2
    <3>2. /\ request[r].at = "answered"
          /\ jar'.flow = Apply(jar.flow, request[r].answer.flow)
          /\ request' = [request EXCEPT ![r] = Idle]
      BY <3>1 DEF Deliver
    <3>3. request[r].answer.flow = None
      BY <3>2 DEF Apply
    <3>4. IsLogout(request[r].answer) \/ request[r].flow # None
      BY <3>2, <3>3 DEF FlowInv, AnswerInv, AnswerOk
    <3>5. request[r] # Idle /\ request'[r] = Idle
      BY <3>2 DEF Idle, FlowInv, FlowType
    <3> QED  BY <3>4, <3>5
  <2> QED  BY <2>1, <2>2, FlowLeaves
<1> QED  BY <1>1, FlowInvariant, PTL DEF LoginSpec, NotCancelledFromElsewhere

\* The session of the jar ends only with an answer that is delivered, or with
\* its own age.
LEMMA SessionLeaves ==
    ASSUME FlowInv, LoginNext, jar.session # None, jar'.session = None
    PROVE  (\E r \in Requests : Deliver(r)) \/ jar'.idToken = None
<1>1. CASE UNCHANGED jar
  BY <1>1
<1>2. CASE FlowExpires
  <2>1. jar'.session = jar.session
    BY <1>2 DEF FlowExpires, FlowInv, FlowType
  <2> QED  BY <2>1
<1>3. CASE SessionExpires
  BY <1>3 DEF SessionExpires, FlowInv, FlowType
<1>4. \/ UNCHANGED jar
      \/ SessionExpires
      \/ FlowExpires
      \/ \E r \in Requests : Deliver(r)
  BY DEF LoginNext, Login, Callback, StsLogin, Handle, ExchangeCode,
         FinishLogin, FinishSts, Timeout, Logout, Lose, ProviderAnswers,
         Discover, RestartServer, Tick
<1> QED  BY <1>1, <1>2, <1>3, <1>4

\* A session ends together with the ID token in the jar, in any order of the
\* answers of any number of tabs: only a logout that was sent before the session
\* of that ID token had come leaves it behind (logout removes the cookies that
\* its request carried).
THEOREM IdTokensEndWithSessions == LoginSpec => IdTokenEndsWithSession
<1> DEFINE A == jar.session # None /\ jar'.session = None /\ jar'.idToken # None =>
          \E r \in Requests :
             /\ request[r].at = "answered" /\ request'[r] = Idle
             /\ IsLogout(request[r].answer)
             /\ jar'.idToken \notin request[r].before
<1>1. FlowInv /\ OnceInv /\ [LoginNext]_loginVars => [A]_loginVars
  <2> SUFFICES ASSUME FlowInv, OnceInv, LoginNext,
                      jar.session # None, jar'.session = None,
                      jar'.idToken # None
               PROVE  \E r \in Requests :
                         /\ request[r].at = "answered" /\ request'[r] = Idle
                         /\ IsLogout(request[r].answer)
                         /\ jar'.idToken \notin request[r].before
    OBVIOUS
  <2>1. PICK r \in Requests : Deliver(r)
    BY SessionLeaves
  <2>2. /\ request[r].at = "answered"
        /\ jar'.session = Apply(jar.session, request[r].answer.session)
        /\ jar'.idToken = Apply(jar.idToken, request[r].answer.idToken)
        /\ request' = [request EXCEPT ![r] = Idle]
    BY <2>1 DEF Deliver
  <2>3. request'[r] = Idle
    BY <2>2 DEF FlowInv, FlowType
  <2>4. IsLogout(request[r].answer)
    BY <2>2 DEF Apply, IsLogout
  <2>5. AnswerOk(request[r].flow, request[r].answer)
    BY <2>2 DEF FlowInv, AnswerInv
  <2>6. request[r].answer.idToken \in Logins \cup {None, Keep}
    <3>1. request[r] \in {Idle} \cup AnsweredType \cup HandlerType
      BY DEF FlowInv, FlowType
    <3>2. request[r] \in AnsweredType
      BY <2>2, <3>1 DEF Idle, HandlerType, InHandler
    <3> QED  BY <3>2 DEF AnsweredType, Cookies, Changes
  <2>7. request[r].answer.idToken = Keep
    BY <2>2, <2>4, <2>5, <2>6 DEF AnswerOk, IsLogout, Apply
  <2>8. jar'.idToken = jar.idToken
    BY <2>2, <2>7 DEF Apply
  <2>9. LeavesNewer(request[r], jar.idToken)
    BY DEF OnceInv
  <2>10. jar'.idToken \notin request[r].before
    BY <2>2, <2>4, <2>7, <2>8, <2>9 DEF LeavesNewer
  <2> QED  BY <2>2, <2>3, <2>4, <2>10
<1> QED
  BY <1>1, FlowInvariant, SessionsComeOnce, PTL DEF LoginSpec, IdTokenEndsWithSession

\* A request that goes from its last await to its answer does so by its own
\* handler, or by the timeout.
LEMMA AnswerAfterVerify ==
    ASSUME FlowInv, LoginNext, NEW r \in Requests,
           request[r].at = "verify", request'[r].at = "answered"
    PROVE  FinishLogin(r) \/ FinishSts(r) \/ Timeout(r)
<1>1. request[r] # Idle
  BY DEF Idle
<1>2. request'[r] # request[r]
  OBVIOUS
<1>3. request \in [Requests -> {Idle} \cup AnsweredType \cup HandlerType]
  BY DEF FlowInv, FlowType
<1>4. ASSUME NEW s \in Requests, NEW v, request' = [request EXCEPT ![s] = v]
      PROVE  s = r
  BY <1>2, <1>3, <1>4
<1>5. ASSUME NEW s \in Requests,
             \/ \E l \in Logins : Login(s, l)
             \/ \E query \in Queries : Callback(s, query)
             \/ \E allowed \in BOOLEAN : StsLogin(s, allowed)
             \/ Logout(s)
      PROVE  FALSE
  <2>1. request[s] = Idle
    BY <1>5 DEF Login, Callback, StsLogin, Logout, Fresh
  <2>2. \E v : request' = [request EXCEPT ![s] = v]
    BY <1>5 DEF Login, Callback, StsLogin, Logout, Reply, Await
  <2> QED  BY <1>1, <1>4, <2>1, <2>2
<1>6. ASSUME NEW s \in Requests, ExchangeCode(s)
      PROVE  FALSE
  <2>1. request[s].at = "exchange"
    BY <1>6 DEF ExchangeCode
  <2>2. \/ \E v : request' = [request EXCEPT ![s] = v]
        \/ request' = [request EXCEPT ![s].at = "verify"]
    BY <1>6 DEF ExchangeCode, FinishFails, Finish, Reply
  <2>3. \E v : request' = [request EXCEPT ![s] = v]
    BY <2>2
  <2> QED  BY <1>4, <2>1, <2>3
<1>7. ASSUME NEW s \in Requests, Deliver(s) \/ Lose(s)
      PROVE  FALSE
  <2>1. request' = [request EXCEPT ![s] = Idle]
    BY <1>7 DEF Deliver, Lose
  <2>2. request'[r] = Idle
    BY <1>3, <1>4, <2>1
  <2> QED  BY <2>2 DEF Idle
<1>8. ASSUME NEW s \in Requests, FinishLogin(s) \/ FinishSts(s) \/ Timeout(s)
      PROVE  FinishLogin(r) \/ FinishSts(r) \/ Timeout(r)
  <2>1. \E v : request' = [request EXCEPT ![s] = v]
    BY <1>8 DEF FinishLogin, FinishSts, Timeout, FinishFails, Finish, Reply
  <2> QED  BY <1>4, <1>8, <2>1
<1>9. CASE RestartServer
  <2>1. request'[r] = Idle
    BY <1>9 DEF RestartServer
  <2> QED  BY <2>1 DEF Idle
<1>10. CASE UNCHANGED request
  BY <1>2, <1>10
<1>11. \/ \E s \in Requests :
             \/ \E l \in Logins : Login(s, l)
             \/ \E query \in Queries : Callback(s, query)
             \/ \E allowed \in BOOLEAN : StsLogin(s, allowed)
             \/ ExchangeCode(s) \/ FinishLogin(s) \/ FinishSts(s)
             \/ Timeout(s) \/ Logout(s) \/ Deliver(s) \/ Lose(s)
       \/ RestartServer
       \/ UNCHANGED request
  BY DEF LoginNext, Handle, ProviderAnswers, FlowExpires, SessionExpires,
         Discover, Tick
<1> QED  BY <1>5, <1>6, <1>7, <1>8, <1>9, <1>10, <1>11

\* No session comes out of a login that began more than FLOW_TTL and one
\* request timeout ago: the age of the flow is checked when the callback is
\* let in, and the timeout layer ends every handler.
THEOREM SessionsComeInTime == LoginSpec => SessionInTime
<1> DEFINE A == \A r \in Requests :
          request[r].at = "verify" /\ request'[r].at = "answered" =>
            \A l \in Logins : request'[r].answer.session = l =>
                now - login[l] <= FlowTtl + RequestTimeout
<1>1. FlowInv /\ [LoginNext]_loginVars => [A]_loginVars
  <2> SUFFICES ASSUME FlowInv, LoginNext, NEW r \in Requests,
                      request[r].at = "verify", request'[r].at = "answered",
                      NEW l \in Logins, request'[r].answer.session = l
               PROVE  now - login[l] <= FlowTtl + RequestTimeout
    OBVIOUS
  <2>1. /\ HandlerOk(request[r]) /\ request[r] \in HandlerType
        /\ request \in [Requests -> {Idle} \cup AnsweredType \cup HandlerType]
    BY Waiting DEF InHandler, FlowInv, FlowType
  <2>2. ASSUME NEW a, Finish(r, a)
        PROVE  request'[r].answer = a
    BY <2>1, <2>2 DEF Finish, Reply
  <2>3. ASSUME Finish(r, NoCookies) \/ FinishFails(r)
        PROVE  FALSE
    <3>1. request'[r].answer.session = Keep
      BY <2>2, <2>3
         DEF FinishFails, NoCookies, CallbackFailure, Answer
    <3> QED  BY <3>1
  <2>4. CASE /\ request[r].op = "callback"
             /\ Finish(r, LoginOutcome(request[r].code))
    <3>1. l = request[r].flow
      BY <2>1, <2>2, <2>4 DEF LoginOutcome, Answer, HandlerOk
    <3>2. /\ login[l] \in 0 .. MaxTime
          /\ request[r].since \in 0 .. MaxTime
          /\ now \in 0 .. MaxTime
      BY <2>1, <2>4, <3>1 DEF HandlerOk, HandlerType, FlowInv, FlowType
    <3>3. /\ request[r].since - login[l] <= FlowTtl
          /\ now - request[r].since <= RequestTimeout
      BY <2>1, <2>4, <3>1 DEF HandlerOk
    <3> QED  BY <3>2, <3>3
  <2> QED  BY <2>3, <2>4, AnswerAfterVerify DEF FinishLogin, FinishSts, Timeout
<1> QED  BY <1>1, FlowInvariant, PTL DEF LoginSpec, SessionInTime

=============================================================================
