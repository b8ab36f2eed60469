---------------------------- MODULE AuthzService ----------------------------
(***************************************************************************)
(* The request handlers of the authorization server that make more than    *)
(* one store call (service.rs, and the owned lists of store/pg/mod.rs).    *)
(* Nothing is held between two calls, so any other request may run in      *)
(* between.  Handlers that make a single call are the actions of           *)
(* AuthzStore, taken here by OtherRequest.                                 *)
(*                                                                         *)
(*   create_user, create_group, create_policy                              *)
(*       insert; when the row conflicts, read the row of that name and     *)
(*       answer 201 if it matches the request, 409 otherwise               *)
(*   update_policy                                                         *)
(*       read the policy, then write the row with the fields that the body *)
(*       leaves out taken from what was read                               *)
(*   the lists of a user or a group                                        *)
(*       read the page; when it is empty, check that the owner exists      *)
(***************************************************************************)
EXTENDS AuthzStore

CONSTANTS
    Handlers,       \* requests in flight at the same time
    Operations      \* the operations the handlers run

ASSUME OperationsAssumption ==
    Operations \subseteq {"create_user", "create_group", "create_policy",
                          "update_policy", "list"}

VARIABLES
    req,    \* req[h]: the request of handler h and how far it is
    seen    \* seen[h]: auxiliary, what the store held while h was running

serviceVars == <<users, next_user_id, groups, policies, group_members,
                 user_policies, group_policies, credentials,
                 external_principals, req, seen>>

-----------------------------------------------------------------------------
(* Requests and answers. *)

Lists == {"user_groups", "user_policies", "effective_policies",
          "credentials", "principals", "group_members", "group_policies"}

ListOwners(list) ==
    IF list \in {"group_members", "group_policies"} THEN Groups ELSE Usernames

Bodies(op) ==
    CASE op = "create_user" -> NewUser
      [] op = "create_group" ->
            [id : Groups, description : Optional(Descriptions)]
      [] op = "create_policy" ->
            [name : Policies, creation_date : Dates, statement : Statements,
             acl : Optional(Acls)]
      [] op = "update_policy" ->
            [name : Policies, creation_date : Optional(Dates),
             statement : Statements, acl : Optional(Acls)]
      [] op = "list" ->
            UNION {[list : {l}, owner : ListOwners(l)] : l \in Lists}

Idle == [op |-> "idle"]

Request(op, body, phase, read, code, answer) ==
    [op |-> op, body |-> body, phase |-> phase, read |-> read,
     code |-> code, answer |-> answer]

Start(op, body) == Request(op, body, "first", None, 0, None)

Second(r, read) == Request(r.op, r.body, "second", read, 0, None)

Done(r, code, answer) == Request(r.op, r.body, "done", r.read, code, answer)

Running(r) == r.op # "idle"

Finished(r) == r.op # "idle" /\ r.phase = "done"

-----------------------------------------------------------------------------
(* Matching of a create of a policy with the stored row. *)

SamePolicy(body, existing) ==
    /\ body.statement = existing.statement
    /\ SameIfGiven(body.acl, existing.acl)

-----------------------------------------------------------------------------
(* Reads of the owned lists. *)

OwnerExists(list, owner) ==
    IF list \in {"group_members", "group_policies"}
    THEN owner \in DOMAIN groups
    ELSE owner \in DOMAIN users

ListRows(list, owner) ==
    CASE list = "user_groups" ->
            {g \in DOMAIN groups : <<g, owner>> \in DOMAIN group_members}
      [] list = "user_policies" ->
            {p \in DOMAIN policies : <<owner, p>> \in DOMAIN user_policies}
      [] list = "effective_policies" -> ListEffectiveUserPolicies(owner)
      [] list = "credentials" ->
            {k \in DOMAIN credentials : credentials[k].username = owner}
      [] list = "principals" ->
            {i \in DOMAIN external_principals :
                external_principals[i].username = owner}
      [] list = "group_members" ->
            {n \in DOMAIN users : <<owner, n>> \in DOMAIN group_members}
      [] list = "group_policies" ->
            {p \in DOMAIN policies : <<owner, p>> \in group_policies}

\* At one moment: the answer of a list, or the fields an update may keep.
NotFound == [code |-> 404]

Truth(r) ==
    CASE r.op = "list" ->
            IF OwnerExists(r.body.list, r.body.owner)
            THEN [code |-> 200, rows |-> ListRows(r.body.list, r.body.owner)]
            ELSE NotFound
      [] r.op = "update_policy" ->
            IF r.body.name \in DOMAIN policies
            THEN [code |-> 200, acl |-> policies[r.body.name].acl,
                  creation_date |-> policies[r.body.name].creation_date]
            ELSE NotFound

\* seen' collects the truth of every state a list or an update lives through;
\* what an update itself writes is not among them.
Observe ==
    seen' = [h \in Handlers |->
                CASE req'[h].op \notin {"list", "update_policy"} -> {}
                  [] req'[h].op = "update_policy" /\ Finished(req'[h]) ->
                        seen[h]
                  [] OTHER -> (IF Running(req[h]) THEN seen[h] ELSE {})
                                  \cup {Truth(req[h])'}]

Set(h, r) == req' = [req EXCEPT ![h] = r]

-----------------------------------------------------------------------------
(* The handlers. *)

Receive(h, op, body) ==
    /\ ~Running(req[h])
    /\ Set(h, Start(op, body))
    /\ UNCHANGED vars
    /\ Observe

At(h, op, phase) ==
    req[h].op = op /\ req[h].phase = phase

\* Fault: the insert of a username that exists updates its email in place.
InsertUser_Upserts(h) ==
    /\ At(h, "create_user", "first")
    /\ LET new == req[h].body IN
       \/ /\ CreateUser(new)
          /\ Set(h, Done(req[h], 201, users'[new.username]))
       \/ /\ new.username \in DOMAIN users
          /\ users' = [users EXCEPT ![new.username].email = new.email]
          /\ UNCHANGED <<next_user_id, groups, policies, group_members,
                         user_policies, group_policies, credentials,
                         external_principals>>
          /\ Set(h, Done(req[h], 201, users'[new.username]))
    /\ Observe

\* The first call of a create: the insert, or the discovery of a conflict.
InsertUser(h) ==
    /\ At(h, "create_user", "first")
    /\ LET new == req[h].body IN
       \/ /\ CreateUser(new)
          /\ Set(h, Done(req[h], 201, users'[new.username]))
       \/ /\ UserConflict(new)
          /\ BurnUserId(new) \/ UNCHANGED vars
          /\ Set(h, Second(req[h], None))
    /\ Observe

InsertGroup(h) ==
    /\ At(h, "create_group", "first")
    /\ LET b == req[h].body
           record == [description |-> b.description]
       IN \/ /\ CreateGroup(b.id, record)
             /\ Set(h, Done(req[h], 201, record))
          \/ /\ b.id \in DOMAIN groups
             /\ UNCHANGED vars
             /\ Set(h, Second(req[h], None))
    /\ Observe

InsertPolicy(h) ==
    /\ At(h, "create_policy", "first")
    /\ LET b == req[h].body
           record == [creation_date |-> b.creation_date,
                      statement |-> b.statement, acl |-> b.acl]
       IN \/ /\ CreatePolicy(b.name, record)
             /\ Set(h, Done(req[h], 201, record))
          \/ /\ b.name \in DOMAIN policies
             /\ UNCHANGED vars
             /\ Set(h, Second(req[h], None))
    /\ Observe

\* The outcome of a conflicting create, from a re-read of the row by its key.
CreateOrExisting(h, table, key, matches) ==
    /\ Set(h, IF key \in DOMAIN table /\ matches
              THEN Done(req[h], 201, table[key])
              ELSE Done(req[h], 409, None))
    /\ UNCHANGED vars
    /\ Observe

RereadUser(h) ==
    /\ At(h, "create_user", "second")
    /\ LET new == req[h].body
       IN CreateOrExisting(h, users, new.username,
             new.username \in DOMAIN users
                /\ SameUser(new, users[new.username]))

RereadGroup(h) ==
    /\ At(h, "create_group", "second")
    /\ LET b == req[h].body
       IN CreateOrExisting(h, groups, b.id,
             b.id \in DOMAIN groups
                /\ SameIfGiven(b.description, groups[b.id].description))

RereadPolicy(h) ==
    /\ At(h, "create_policy", "second")
    /\ LET b == req[h].body
       IN CreateOrExisting(h, policies, b.name,
             b.name \in DOMAIN policies
                /\ SamePolicy(b, policies[b.name]))

\* update_policy, first call: the row the omitted fields are taken from.
GetPolicy(h) ==
    /\ At(h, "update_policy", "first")
    /\ LET p == req[h].body.name
       IN Set(h, IF p \in DOMAIN policies
                 THEN Second(req[h], policies[p])
                 ELSE Done(req[h], 404, None))
    /\ UNCHANGED vars
    /\ Observe

\* Fault: an omitted field is reset instead of taken from the row read.
ValidatedPolicy_ResetsAcl(body, existing) ==
    [creation_date |-> IF body.creation_date # None
                       THEN body.creation_date ELSE existing.creation_date,
     statement |-> body.statement,
     acl |-> body.acl]

\* Fault: the creation date is written as the body gives it, or not at all.
ValidatedPolicy_DateFromBody(body, existing) ==
    [creation_date |-> body.creation_date,
     statement |-> body.statement,
     acl |-> IF body.acl # None THEN body.acl ELSE existing.acl]

ValidatedPolicy(body, existing) ==
    [creation_date |-> IF body.creation_date # None
                       THEN body.creation_date ELSE existing.creation_date,
     statement |-> body.statement,
     acl |-> IF body.acl # None THEN body.acl ELSE existing.acl]

\* update_policy, second call: the write.
PutPolicy(h) ==
    /\ At(h, "update_policy", "second")
    /\ LET b == req[h].body
           record == ValidatedPolicy(b, req[h].read)
       IN \/ /\ UpdatePolicy(b.name, record)
             /\ Set(h, Done(req[h], 200, record))
          \/ /\ b.name \notin DOMAIN policies
             /\ UNCHANGED vars
             /\ Set(h, Done(req[h], 404, None))
    /\ Observe

\* fetch_owned_page, first call: the page.
FetchPage(h) ==
    /\ At(h, "list", "first")
    /\ LET rows == ListRows(req[h].body.list, req[h].body.owner)
       IN Set(h, IF rows # {} THEN Done(req[h], 200, rows)
                 ELSE Second(req[h], None))
    /\ UNCHANGED vars
    /\ Observe

\* Fault: the owner is not checked after an empty page.
CheckOwner_Skipped(h) ==
    /\ At(h, "list", "second")
    /\ Set(h, Done(req[h], 200, {}))
    /\ UNCHANGED vars
    /\ Observe

\* fetch_owned_page, second call: an empty page of a missing owner is a 404.
CheckOwner(h) ==
    /\ At(h, "list", "second")
    /\ Set(h, IF OwnerExists(req[h].body.list, req[h].body.owner)
              THEN Done(req[h], 200, {}) ELSE Done(req[h], 404, None))
    /\ UNCHANGED vars
    /\ Observe

\* A store call fails: the request answers 500.  A call that takes effect
\* although its result is lost is that call as an OtherRequest, and this step.
BackendError(h) ==
    /\ Running(req[h]) /\ ~Finished(req[h])
    /\ Set(h, Done(req[h], 500, None))
    /\ UNCHANGED vars
    /\ Observe

\* The timeout layer drops the handler between two calls and answers 408.
RequestTimeout(h) ==
    /\ Running(req[h]) /\ ~Finished(req[h])
    /\ Set(h, Done(req[h], 408, None))
    /\ UNCHANGED vars
    /\ Observe

Reply(h) ==
    /\ Finished(req[h])
    /\ Set(h, Idle)
    /\ UNCHANGED vars
    /\ Observe

\* A request that takes one store call.
OtherRequest ==
    /\ Next
    /\ UNCHANGED req
    /\ Observe

Step(h) ==
    \/ InsertUser(h) \/ RereadUser(h)
    \/ InsertGroup(h) \/ RereadGroup(h)
    \/ InsertPolicy(h) \/ RereadPolicy(h)
    \/ GetPolicy(h) \/ PutPolicy(h)
    \/ FetchPage(h) \/ CheckOwner(h)
    \/ BackendError(h) \/ RequestTimeout(h)

ServiceInit ==
    /\ Init
    /\ req = [h \in Handlers |-> Idle]
    /\ seen = [h \in Handlers |-> {}]

ServiceNext ==
    \/ \E h \in Handlers : \E op \in Operations : \E body \in Bodies(op) :
          Receive(h, op, body)
    \/ \E h \in Handlers : Step(h) \/ Reply(h)
    \/ OtherRequest

ServiceSpec == ServiceInit /\ [][ServiceNext]_serviceVars

-----------------------------------------------------------------------------
(* Properties. *)

\* The requests are of the form the handlers expect.
ServiceTypeOK ==
    /\ TypeOK
    /\ \A h \in Handlers : Running(req[h]) =>
          /\ req[h].op \in Operations
          /\ req[h].body \in Bodies(req[h].op)
          /\ req[h].phase \in {"first", "second", "done"}
          /\ req[h].code \in {0, 200, 201, 404, 408, 409, 500}

\* Two calls, one answer: what a list of a user or a group answers was true at
\* one moment of the request, though the page and the owner are read by two
\* statements (fetch_owned_page).  An owner created in between has no rows yet.
ListAnswersTrue ==
    \A h \in Handlers :
        req[h].op = "list" /\ Finished(req[h]) =>
            /\ req[h].code = 200 =>
                  [code |-> 200, rows |-> req[h].answer] \in seen[h]
            /\ req[h].code = 404 => NotFound \in seen[h]

\* What update_policy writes for the fields the body leaves out was stored
\* together in one row at some moment of the request before the write: a row
\* never mixes the acl of one version with the creation date of another.
KeptFieldsWereStored ==
    \A h \in Handlers :
        /\ req[h].op = "update_policy"
        /\ Finished(req[h])
        /\ req[h].code = 200
        => LET b == req[h].body
               written == req[h].answer
           IN \E t \in seen[h] :
                 /\ t.code = 200
                 /\ b.acl = None => written.acl = t.acl
                 /\ b.creation_date = None =>
                       written.creation_date = t.creation_date

\* The state invariant of the handlers of several calls: their types, and what
\* update_policy keeps.
ServiceInv == ServiceTypeOK /\ KeptFieldsWereStored

\* When two creates are both told 201 for the same user, they agree on the
\* email and on the external id wherever both give one: two identities that
\* derive one username are never both told that the user is theirs.
OneIdentityPerUser ==
    \A g, h \in Handlers :
        /\ req[g].op = "create_user" /\ req[h].op = "create_user"
        /\ Finished(req[g]) /\ Finished(req[h])
        /\ req[g].code = 201 /\ req[h].code = 201
        /\ req[g].answer.user_id = req[h].answer.user_id
        => /\ \/ None \in {req[g].body.email, req[h].body.email}
              \/ req[g].body.email = req[h].body.email
           /\ \/ None \in {req[g].body.external_id, req[h].body.external_id}
              \/ req[g].body.external_id = req[h].body.external_id

\* The claim of the documentation of update_policy: a creation_date or acl
\* that the body leaves out keeps its stored value.  The write overwrites them
\* with the values of the earlier read, so a concurrent update is undone.
OmittedFieldsKept ==
    [][ \A h \in Handlers :
          At(h, "update_policy", "second") /\ Finished(req'[h])
              /\ req'[h].code = 200
          => LET p == req[h].body.name IN
             /\ req[h].body.acl = None => policies'[p].acl = policies[p].acl
             /\ req[h].body.creation_date = None =>
                   policies'[p].creation_date = policies[p].creation_date
      ]_serviceVars

\* However the handlers interleave, the tables only ever make the steps of the
\* store: every handler step is one store call or a read.
ImplementsStore == Spec

=============================================================================
