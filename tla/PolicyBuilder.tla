--------------------------- MODULE PolicyBuilder ---------------------------
(***************************************************************************)
(* The write route of the policy builder page (policy_builder.rs           *)
(* create_policy, lakefs.rs create_policy): guard the origin, find the     *)
(* caller's lakeFS session, validate, send the policy to lakeFS with that  *)
(* session, and turn lakeFS's answer, or the lack of one, into a status.   *)
(*                                                                         *)
(* A header that is not sent is "".  What lakeFS does with a policy it     *)
(* receives is an input: whether it stored it and what it answered.        *)
(***************************************************************************)
EXTENDS TextRules

LakefsSession == "internal_auth_session"

\* The browser's own verdict wins; without it Origin must name this server; a
\* request with neither header did not come from a page.
SameOrigin(headers) ==
    IF headers.site # ""
    THEN headers.site \in {"same-origin", "none"}
    ELSE headers.origin = "" \/ headers.origin = headers.host

\* The value of the first pair of the Cookie header that is a session cookie.
Session(headers) ==
    LET named == {i \in DOMAIN headers.cookies : headers.cookies[i].name = LakefsSession}
    IN  IF named = {} THEN ""
        ELSE headers.cookies[CHOOSE i \in named : \A j \in named : i <= j].value

\* Fault: a failed request shown as lakeFS's refusal.
LakeFsCreate_LostIsRefusal(answer) ==
    CASE answer.kind = "created" -> "ok"
      [] answer.kind = "status" -> "rejected"
      [] answer.kind \in {"unreadable", "none"} -> "invalid"

\* An answer is created, with a body that names the policy or an unreadable
\* one, another status, or none (a connection error or the timeout).
LakeFsCreate(answer) ==
    CASE answer.kind = "created" -> "ok"
      [] answer.kind = "unreadable" -> "transport"
      [] answer.kind = "status" -> "rejected"
      [] answer.kind = "none" -> "transport"

BadGateway == 502

\* BuilderError as a status: what lakeFS decided keeps its own status.
StatusOf(error, answer) ==
    CASE error = "no lakeFS" -> 404
      [] error = "no session" -> 401
      [] error = "cross origin" -> 403
      [] error = "invalid" -> 400
      [] error = "rejected" -> answer.status
      [] error = "transport" -> BadGateway

\* The whole route: its status, and the session the policy was sent with.
CreatePolicy(request, answer) ==
    LET session == Session(request.headers)
        Fail(error) == [status |-> StatusOf(error, answer), sentAs |-> ""]
        result == LakeFsCreate(answer)
    IN  CASE ~SameOrigin(request.headers) -> Fail("cross origin")
          [] SameOrigin(request.headers) /\ ~request.endpoint -> Fail("no lakeFS")
          [] SameOrigin(request.headers) /\ request.endpoint /\ session = "" ->
                 Fail("no session")
          [] SameOrigin(request.headers) /\ request.endpoint /\ session # ""
                /\ ~ValidPolicy(request.name, request.statements) -> Fail("invalid")
          [] OTHER -> [status |-> IF result = "ok" THEN 201 ELSE StatusOf(result, answer),
                       sentAs |-> session]

\* The answers lakeFS gives with what it did: it stores what it says it
\* created and nothing it refuses; a lost or failed answer leaves both open.
Possible(answer, stored) ==
    /\ answer.kind \in {"created", "unreadable"} => stored
    /\ answer.kind = "status" /\ answer.status < 500 => ~stored

(***************************************************************************)
(* The property, of one input.                                             *)
(***************************************************************************)

\* The page is told the truth about the policy: 201 only if lakeFS stored it,
\* a 4xx only if this request stored nothing, whether lakeFS refused it, its
\* answer was lost or unreadable, or it was never asked.  And lakeFS is asked
\* only with the caller's own session, about a policy the API would accept
\* too, for a request that a page of another origin cannot have made.
BuilderTellsTheTruth(in) ==
    LET answer == CreatePolicy(in.request, in.answer)
        stored == answer.sentAs # "" /\ in.stored
        headers == in.request.headers
    IN  Possible(in.answer, in.stored) =>
            /\ answer.status = 201 => stored
            /\ answer.status \in 400..499 => ~stored
            /\ answer.sentAs # "" =>
                  /\ \E i \in DOMAIN headers.cookies :
                        /\ headers.cookies[i] = [name |-> LakefsSession, value |-> answer.sentAs]
                        /\ \A j \in 1..(i - 1) : headers.cookies[j].name # LakefsSession
                  /\ ValidEntityId(in.request.name) /\ ValidStatements(in.request.statements)
                  /\ headers.site \notin {"cross-site", "same-site"}
                  /\ headers.site = "" => headers.origin \in {"", headers.host}
=============================================================================
