---------------------------- MODULE Provisioning ----------------------------
(***************************************************************************)
(* Logins that provision their user (lakefs-authn/src/provision.rs and     *)
(* lakefs-authz-client/src/lib.rs) against the authorization server        *)
(* (AuthzStore), over HTTP.                                                *)
(*                                                                         *)
(* Each login looks its identity up by external id.  When nothing is found *)
(* it creates the user in a task of its own, adds the groups one by one,   *)
(* and deletes the user again when a membership fails.  A call is a        *)
(* request that the server serves in steps of its own and a reply that the *)
(* client receives; between the two, every other login may run.            *)
(*                                                                         *)
(* Failures: the server answers 408 or 500 without effect, a connection    *)
(* cannot be made, a reply is lost after the server ran the request or     *)
(* before, a request of which the client gave up runs later, the browser   *)
(* drops the request, the authentication server crashes.  Each has its own *)
(* bound.  Refused inserts burn no identity value here (see BurnUserId in  *)
(* AuthzStore): nothing in a login depends on the gaps.                    *)
(***************************************************************************)
EXTENDS AuthzStore, Sequences

CONSTANTS
    Logins,
    Claims,             \* Claims[l]: what the ID token of login l says
    PersistFriendlyName,
    AutoProvision,
    MaxRetries,         \* AuthzClientConfig::max_retries
    MaxServerErrors,    \* bound: 408 and 500 answers
    MaxLost,            \* bound: connections, requests and replies lost
    MaxDrops,           \* bound: requests dropped by the browser
    MaxCrashes,         \* bound: logins ended by a crash
    LateRequests        \* may a request outlive the client that sent it?

\* The claims after derive_username, verified_email and resolve_groups.
LoginClaims ==
    [sub : ExternalIds, username : Usernames, email : Optional(Emails),
     friendly_name : Optional(FriendlyNames), groups : Seq(Groups)]

ASSUME ProvisioningAssumption ==
    /\ \A l \in Logins : Claims[l] \in LoginClaims
    /\ MaxRetries \in Nat
    /\ {PersistFriendlyName, AutoProvision, LateRequests} \subseteq BOOLEAN
    /\ {MaxServerErrors, MaxLost, MaxDrops, MaxCrashes} \subseteq Nat

VARIABLES
    login,      \* login[l]: the login task
    net,        \* the requests at the server and the replies on their way
    spent       \* how much of each bound is used up

provVars == <<users, next_user_id, groups, policies, group_members,
              user_policies, group_policies, credentials,
              external_principals, login, net, spent>>

-----------------------------------------------------------------------------
(* The login task and its requests. *)

\* Where a login waits for a reply, and how it ends.
Waiting == {"lookup", "rename", "create", "readback", "holder",
            "create_without_email", "add_group", "rollback"}

Ended == {"done", "unknown_identity", "collision", "failed", "crashed",
          "dropped"}

Operations == {"find_by_external_id", "find_by_email", "create_user",
               "delete_user", "add_membership", "update_friendly_name"}

\* What a reply says about a user.
Row(n) == [username |-> n, user_id |-> users[n].user_id,
           external_id |-> users[n].external_id,
           friendly_name |-> users[n].friendly_name]

NewLogin(l) ==
    [pc |-> "start", call |-> 0, op |-> "find_by_external_id", attempt |-> 0,
     email |-> Claims[l].email, group |-> 1, user |-> None,
     created |-> FALSE, gone |-> FALSE]

Request(l, t) ==
    [login |-> l, call |-> t.call, op |-> t.op, email |-> t.email,
     group |-> t.group, user |-> t.user, phase |-> "sent", code |-> 0,
     row |-> None]

FriendlyName(l) ==
    IF PersistFriendlyName THEN Claims[l].friendly_name ELSE None

\* The body of the create, and the row it asks for.
Creation(r) ==
    [username |-> Claims[r.login].username, email |-> r.email,
     external_id |-> Claims[r.login].sub,
     friendly_name |-> FriendlyName(r.login)]

Awaited(r) ==
    login[r.login].pc \in Waiting /\ login[r.login].call = r.call

\* The call of login l that it waits for.
Pending(l, r) == r.login = l /\ Awaited(r)

-----------------------------------------------------------------------------
(* The authorization server. *)

Answer(r, code, row) ==
    /\ net' = (net \ {r}) \cup
                 IF Awaited(r)
                 THEN {[r EXCEPT !.phase = "answered", !.code = code,
                                 !.row = row]}
                 ELSE {}
    /\ UNCHANGED <<login, spent>>

Found(names) == IF names = {} THEN None ELSE Row(CHOOSE n \in names : TRUE)

ServeFind(r) ==
    /\ r.phase = "sent"
    /\ \/ /\ r.op = "find_by_external_id"
          /\ Answer(r, 200, Found(FindUserByExternalId(Claims[r.login].sub)))
       \/ /\ r.op = "find_by_email"
          /\ Answer(r, 200, Found(FindUserByEmail(r.email)))
    /\ UNCHANGED vars

\* POST /auth/users, first call: the insert.
ServeCreate(r) ==
    /\ r.phase = "sent" /\ r.op = "create_user"
    /\ LET new == Creation(r) IN
       \/ /\ CreateUser(new)
          /\ Answer(r, 201, Row(new.username)')
       \/ /\ UserConflict(new)
          /\ net' = (net \ {r}) \cup {[r EXCEPT !.phase = "reread"]}
          /\ UNCHANGED <<login, spent>>
          /\ UNCHANGED vars

\* Fault: a row that vanished is waited for.
ServeReread_WaitsForRow(r) ==
    /\ r.phase = "reread"
    /\ LET new == Creation(r)
           n == new.username
       IN /\ n \in DOMAIN users
          /\ IF SameUser(new, users[n])
             THEN Answer(r, 201, Row(n))
             ELSE Answer(r, 409, None)
    /\ UNCHANGED vars

\* POST /auth/users, second call: a row that matches counts as created.
ServeReread(r) ==
    /\ r.phase = "reread"
    /\ LET new == Creation(r)
           n == new.username
       IN IF n \in DOMAIN users /\ SameUser(new, users[n])
          THEN Answer(r, 201, Row(n))
          ELSE Answer(r, 409, None)
    /\ UNCHANGED vars

ServeDelete(r) ==
    /\ r.phase = "sent" /\ r.op = "delete_user"
    /\ LET n == r.user.username IN
       \/ DeleteUser(n) /\ Answer(r, 204, None)
       \/ n \notin DOMAIN users /\ Answer(r, 404, None) /\ UNCHANGED vars

ServeAddMembership(r) ==
    /\ r.phase = "sent" /\ r.op = "add_membership"
    /\ LET g == Claims[r.login].groups[r.group]
           n == r.user.username
       IN \/ AddMembership(g, n) /\ Answer(r, 201, None)
          \/ /\ <<g, n>> \in DOMAIN group_members
             /\ Answer(r, 201, None)
             /\ UNCHANGED vars
          \/ /\ g \notin DOMAIN groups \/ n \notin DOMAIN users
             /\ Answer(r, 404, None)
             /\ UNCHANGED vars

ServeUpdateFriendlyName(r) ==
    /\ r.phase = "sent" /\ r.op = "update_friendly_name"
    /\ LET n == r.user.username IN
       \/ /\ SetFriendlyName(n, Claims[r.login].friendly_name)
          /\ Answer(r, 204, None)
       \/ n \notin DOMAIN users /\ Answer(r, 404, None) /\ UNCHANGED vars

\* The server answers 500, or 408 from its timeout layer, before the request
\* has an effect, or between the two calls of a create.
ServerError(r) ==
    /\ r.phase \in {"sent", "reread"}
    /\ spent.errors < MaxServerErrors
    /\ \E code \in {408, 500} :
          net' = (net \ {r}) \cup
                    IF Awaited(r)
                    THEN {[r EXCEPT !.phase = "answered", !.code = code]}
                    ELSE {}
    /\ spent' = [spent EXCEPT !.errors = @ + 1]
    /\ UNCHANGED login
    /\ UNCHANGED vars

Serve(r) ==
    \/ ServeFind(r) \/ ServeCreate(r) \/ ServeReread(r) \/ ServeDelete(r)
    \/ ServeAddMembership(r) \/ ServeUpdateFriendlyName(r)

-----------------------------------------------------------------------------
(* The client.  `t` is the next state of the task, `rest` the network      *)
(* without the call that ended.                                            *)

Call(l, t, pc, op, rest) ==
    LET next == [t EXCEPT !.pc = pc, !.op = op, !.call = @ + 1, !.attempt = 0]
    IN /\ login' = [login EXCEPT ![l] = next]
       /\ net' = rest \cup {Request(l, next)}

End(l, t, pc, rest) ==
    /\ login' = [login EXCEPT ![l] = [t EXCEPT !.pc = pc]]
    /\ net' = rest

\* The next group of a user that exists, or the end of the login.
AddGroups(l, t, rest) ==
    IF t.group <= Len(Claims[l].groups)
    THEN Call(l, t, "add_group", "add_membership", rest)
    ELSE End(l, t, "done", rest)

\* The user exists: created by this login.
Created(l, t, row, rest) ==
    AddGroups(l, [t EXCEPT !.user = row, !.created = TRUE], rest)

\* Provisioner::ensure_user after the lookup by external id.
AfterLookup(l, t, code, row, rest) ==
    /\ t.pc = "lookup"
    /\ CASE code # 200 -> End(l, t, "failed", rest)
         [] code = 200 /\ row # None ->
              LET known == [t EXCEPT !.user = row] IN
              IF FriendlyName(l) # None /\ FriendlyName(l) # row.friendly_name
              THEN Call(l, known, "rename", "update_friendly_name", rest)
              ELSE End(l, known, "done", rest)
         [] code = 200 /\ row = None ->
              IF AutoProvision THEN Call(l, t, "create", "create_user", rest)
              ELSE End(l, t, "unknown_identity", rest)

\* A failed update of the friendly name is logged only.
AfterRename(l, t, code, row, rest) ==
    /\ t.pc = "rename"
    /\ End(l, t, "done", rest)

AfterCreate(l, t, code, row, rest) ==
    /\ t.pc = "create"
    /\ CASE code = 201 -> Created(l, t, row, rest)
         [] code = 409 ->
              Call(l, t, "readback", "find_by_external_id", rest)
         [] OTHER -> End(l, t, "failed", rest)

\* After a 409: a concurrent login made the user, or another one holds the
\* email, or the username.
AfterReadback(l, t, code, row, rest) ==
    /\ t.pc = "readback"
    /\ CASE code # 200 -> End(l, t, "failed", rest)
         [] code = 200 /\ row # None ->
              End(l, [t EXCEPT !.user = row], "done", rest)
         [] code = 200 /\ row = None ->
              IF t.email # None
              THEN Call(l, t, "holder", "find_by_email", rest)
              ELSE End(l, t, "collision", rest)

\* Fault: the holder of the email is taken for the user of this login.
AfterHolder_TakesHolder(l, t, code, row, rest) ==
    /\ t.pc = "holder"
    /\ CASE code # 200 -> End(l, t, "failed", rest)
         [] code = 200 /\ row # None -> Created(l, t, row, rest)
         [] OTHER -> End(l, t, "collision", rest)

AfterHolder(l, t, code, row, rest) ==
    /\ t.pc = "holder"
    /\ CASE code # 200 -> End(l, t, "failed", rest)
         [] code = 200 /\ row # None /\ row.external_id # Claims[l].sub ->
              Call(l, [t EXCEPT !.email = None], "create_without_email",
                   "create_user", rest)
         [] OTHER -> End(l, t, "collision", rest)

AfterCreateWithoutEmail(l, t, code, row, rest) ==
    /\ t.pc = "create_without_email"
    /\ CASE code = 201 -> Created(l, t, row, rest)
         [] code = 409 -> End(l, t, "collision", rest)
         [] OTHER -> End(l, t, "failed", rest)

\* Fault: a failed membership ends the loop as if it had been added.
AfterAddGroup_StopsEarly(l, t, code, row, rest) ==
    /\ t.pc = "add_group"
    /\ IF code \in {201, 404, 409}
       THEN End(l, t, "done", rest)
       ELSE Call(l, t, "rollback", "delete_user", rest)

\* A membership that exists, or a group that does not, is passed over; any
\* other failure rolls the create back.
AfterAddGroup(l, t, code, row, rest) ==
    /\ t.pc = "add_group"
    /\ IF code \in {201, 404, 409}
       THEN AddGroups(l, [t EXCEPT !.group = @ + 1], rest)
       ELSE Call(l, t, "rollback", "delete_user", rest)

\* Best effort: whatever the delete answers, the login fails.
AfterRollback(l, t, code, row, rest) ==
    /\ t.pc = "rollback"
    /\ End(l, t, "failed", rest)

Continue(l, code, row, rest) ==
    LET t == login[l] IN
    \/ AfterLookup(l, t, code, row, rest)
    \/ AfterRename(l, t, code, row, rest)
    \/ AfterCreate(l, t, code, row, rest)
    \/ AfterReadback(l, t, code, row, rest)
    \/ AfterHolder(l, t, code, row, rest)
    \/ AfterCreateWithoutEmail(l, t, code, row, rest)
    \/ AfterAddGroup(l, t, code, row, rest)
    \/ AfterRollback(l, t, code, row, rest)

Idempotent(r) == r.op # "create_user"

\* send_with_retry: the next attempt of the same call.
Resend(l, rest) ==
    LET next == [login[l] EXCEPT !.call = @ + 1, !.attempt = @ + 1]
    IN /\ login' = [login EXCEPT ![l] = next]
       /\ net' = rest \cup {Request(l, next)}

StartLogin(l) ==
    /\ login[l].pc = "start"
    /\ Call(l, login[l], "lookup", "find_by_external_id", net)
    /\ UNCHANGED spent
    /\ UNCHANGED vars

\* A reply arrives: a 5xx of an idempotent request is retried while attempts
\* are left, everything else is an outcome.
Receive(l) ==
    /\ \E r \in net :
          /\ Pending(l, r) /\ r.phase = "answered"
          /\ IF r.code = 500 /\ Idempotent(r) /\ login[l].attempt < MaxRetries
             THEN Resend(l, net \ {r})
             ELSE Continue(l, r.code, r.row, net \ {r})
    /\ UNCHANGED spent
    /\ UNCHANGED vars

\* Fault: one attempt too many.
ConnectError_ExtraAttempt(l) ==
    /\ spent.lost < MaxLost
    /\ \E r \in net :
          /\ Pending(l, r) /\ r.phase = "sent"
          /\ IF login[l].attempt <= MaxRetries
             THEN Resend(l, net \ {r})
             ELSE Continue(l, 0, None, net \ {r})
    /\ spent' = [spent EXCEPT !.lost = @ + 1]
    /\ UNCHANGED vars

\* The connection could not be made: the request never left, any method is
\* retried.
ConnectError(l) ==
    /\ spent.lost < MaxLost
    /\ \E r \in net :
          /\ Pending(l, r) /\ r.phase = "sent"
          /\ IF login[l].attempt < MaxRetries
             THEN Resend(l, net \ {r})
             ELSE Continue(l, 0, None, net \ {r})
    /\ spent' = [spent EXCEPT !.lost = @ + 1]
    /\ UNCHANGED vars

\* A timeout or a broken connection after the request left: a POST is not
\* retried, because the server may have committed it.
LostReply(l) ==
    /\ spent.lost < MaxLost
    /\ \E r \in net :
          /\ Pending(l, r)
          /\ LET rest == IF LateRequests /\ r.phase # "answered"
                         THEN net ELSE net \ {r}
             IN IF Idempotent(r) /\ login[l].attempt < MaxRetries
                THEN Resend(l, rest)
                ELSE Continue(l, 0, None, rest)
    /\ spent' = [spent EXCEPT !.lost = @ + 1]
    /\ UNCHANGED vars

\* The browser goes away, or the request times out.  A login still in its
\* lookup ends; once the create runs in its own task, the task goes on.
DropRequest(l) ==
    /\ login[l].pc \in Waiting /\ ~login[l].gone
    /\ spent.drops < MaxDrops
    /\ spent' = [spent EXCEPT !.drops = @ + 1]
    /\ IF login[l].pc \in {"lookup", "rename"}
       THEN End(l, login[l], "dropped",
                {r \in net : LateRequests \/ ~Pending(l, r)})
       ELSE /\ login' = [login EXCEPT ![l].gone = TRUE]
            /\ UNCHANGED net
    /\ UNCHANGED vars

\* The authentication server stops with the login half done.
Crash(l) ==
    /\ login[l].pc \in Waiting
    /\ spent.crashes < MaxCrashes
    /\ spent' = [spent EXCEPT !.crashes = @ + 1]
    /\ End(l, login[l], "crashed", {r \in net : LateRequests \/ ~Pending(l, r)})
    /\ UNCHANGED vars

\* An administrator removes a group meanwhile.
AdminDeleteGroup(g) ==
    /\ DeleteGroup(g)
    /\ UNCHANGED <<login, net, spent>>

-----------------------------------------------------------------------------

\* The groups exist, no user does.
ProvInit ==
    /\ users = EmptyTable
    /\ next_user_id = 0
    /\ groups = [g \in Groups |-> [description |-> None]]
    /\ policies = EmptyTable
    /\ group_members = EmptyTable
    /\ user_policies = EmptyTable
    /\ group_policies = {}
    /\ credentials = EmptyTable
    /\ external_principals = EmptyTable
    /\ login = [l \in Logins |-> NewLogin(l)]
    /\ net = {}
    /\ spent = [errors |-> 0, lost |-> 0, drops |-> 0, crashes |-> 0]

ServerStep == \E r \in net : Serve(r)

ClientStep(l) == StartLogin(l) \/ Receive(l)

ProvNext ==
    \/ ServerStep
    \/ \E r \in net : ServerError(r)
    \/ \E l \in Logins :
          \/ ClientStep(l)
          \/ ConnectError(l) \/ LostReply(l) \/ DropRequest(l) \/ Crash(l)
    \/ \E g \in Groups : AdminDeleteGroup(g)

\* The runtimes of both servers run every task that can run.
Fairness ==
    /\ WF_provVars(ServerStep)
    /\ \A l \in Logins : WF_provVars(ClientStep(l))

ProvSpec == ProvInit /\ [][ProvNext]_provVars /\ Fairness

-----------------------------------------------------------------------------
(* Properties. *)

\* The login tasks, the requests and the bounds have their types.
ProvTypeOK ==
    /\ TypeOK
    /\ \A l \in Logins : /\ login[l].pc \in Waiting \cup Ended \cup {"start"}
                         /\ login[l].attempt \in 0 .. MaxRetries
                         /\ login[l].op \in Operations
    /\ \A r \in net : /\ r.login \in Logins
                      /\ r.op \in Operations
                      /\ r.phase \in {"sent", "reread", "answered"}

\* A login never ends up with the user of another identity, also when two
\* identities derive the same username or share an email, whatever fails.
SessionIsOwn ==
    \A l \in Logins :
        login[l].pc = "done" => login[l].user.external_id = Claims[l].sub

\* What holds of the logins under every failure: no call has more attempts than
\* max_retries allows, and no login ends with the user of another identity.
ProvInv == ProvTypeOK /\ SessionIsOwn

GroupsOf(x) ==
    UNION {{Claims[l].groups[i] : i \in DOMAIN Claims[l].groups} :
              l \in {k \in Logins : Claims[k].sub = x}}

\* No user is a member of a group that its own identity does not bring.
GroupsAreOwn ==
    \A k \in DOMAIN group_members :
        k[1] \in GroupsOf(users[k[2]].external_id)

\* No login of the identity x is under way.
Quiet(x) ==
    \A l \in Logins : Claims[l].sub = x => login[l].pc \notin Waiting

\* Once no login of an identity is under way, its user is a member of every
\* group that exists and that its claims name: there is no user that was
\* created and then left without its groups.
NoUserWithoutGroups ==
    \A n \in DOMAIN users :
        LET x == users[n].external_id IN
        Quiet(x) => \A g \in GroupsOf(x) \cap DOMAIN groups :
                        <<g, n>> \in DOMAIN group_members

\* A rollback deletes only a user whose creation could not be completed: the
\* user of a login that ended well is still there.
RollbackSparesFinished ==
    \A l \in Logins :
        login[l].pc = "done" =>
            \E n \in DOMAIN users : users[n].user_id = login[l].user.user_id

\* Every login comes to an end: no call is waited for without bound.
EveryLoginEnds ==
    \A l \in Logins : <>(login[l].pc \in Ended)

=============================================================================
