-------------------------- MODULE ProvisioningProofs --------------------------
(***************************************************************************)
(* Logins that provision their user, for any number of logins, any claims  *)
(* and any bounds on the failures.                                         *)
(*                                                                         *)
(* Two things hold under every fault.  Whatever the logins and the network *)
(* do, the tables change only by steps of the store, so the invariant of   *)
(* AuthzStore carries over.  And a login that ends well has the user of    *)
(* its own identity.  The latter rests on what a reply may say: TasksInv   *)
(* ties the request that a login waits for to the call it made, although   *)
(* requests of calls it has given up are still around, and RequestOk says  *)
(* that the row in a reply to a lookup or a create is of the identity that *)
(* asked, also when the server found it on its second look.                *)
(***************************************************************************)
EXTENDS Provisioning, AuthzStoreProofs

UserRow ==
    [username : Usernames, user_id : UserIds,
     external_id : Optional(ExternalIds),
     friendly_name : Optional(FriendlyNames)]

TaskType ==
    [pc : Waiting \cup Ended \cup {"start"}, call : Nat, op : Operations,
     attempt : 0 .. MaxRetries, email : Optional(Emails), group : Nat,
     user : Optional(UserRow), created : BOOLEAN, gone : BOOLEAN]

Codes == {0, 200, 201, 204, 404, 408, 409, 500}

RequestType ==
    [login : Logins, call : Nat, op : Operations, email : Optional(Emails),
     group : Nat, user : Optional(UserRow),
     phase : {"sent", "reread", "answered"}, code : Codes,
     row : Optional(UserRow)]

\* The operation that a login waits for.
CallOf ==
    [lookup |-> "find_by_external_id", rename |-> "update_friendly_name",
     create |-> "create_user", readback |-> "find_by_external_id",
     holder |-> "find_by_email", create_without_email |-> "create_user",
     add_group |-> "add_membership", rollback |-> "delete_user"]

\* A task waits for the operation of its place, and has a user from its own
\* identity where it has one.
TaskOk(l, t) ==
    /\ t.pc \in Waiting => t.op = CallOf[t.pc]
    /\ t.pc = "rename" => Claims[l].friendly_name \in FriendlyNames
    /\ t.pc \in {"rename", "add_group", "rollback", "done"} =>
          t.user.external_id = Claims[l].sub

\* A reply to a lookup or to a create tells of a user of the own identity.
RequestOk(r) ==
    /\ r.op = "update_friendly_name" =>
          Claims[r.login].friendly_name \in FriendlyNames
    /\ r.phase = "reread" => r.op = "create_user"
    /\ r.phase = "answered" /\ r.op = "find_by_external_id" /\ r.code = 200 =>
          r.row = None \/ r.row.external_id = Claims[r.login].sub
    /\ r.phase = "answered" /\ r.op = "create_user" /\ r.code = 201 =>
          r.row.external_id = Claims[r.login].sub

\* No request is from a call that its login has yet to make; the request of
\* the call it made last is for the operation of that call.
CallOk(r, t) == r.call <= t.call /\ (r.call = t.call => r.op = t.op)

TasksInv ==
    /\ login \in [Logins -> TaskType]
    /\ net \subseteq RequestType
    /\ \A l \in Logins : TaskOk(l, login[l])
    /\ \A r \in net : RequestOk(r) /\ CallOk(r, login[r.login])

ProvisioningInv == TypeOK /\ Links /\ TasksInv
USE ProvisioningAssumption, MaxUserIdAssumption

-----------------------------------------------------------------------------
(* The tasks and the network. *)

\* A task that ends, or goes on without a call, sends nothing; what it has
\* given up may stay on the network.
LEMMA TaskRests ==
    ASSUME TasksInv, NEW l \in Logins, NEW next \in TaskType, TaskOk(l, next),
           next.call = login[l].call, next.op = login[l].op,
           NEW rest, rest \subseteq net,
           login' = [login EXCEPT ![l] = next], net' = rest
    PROVE  TasksInv'
<1>1. /\ login' \in [Logins -> TaskType]
      /\ \A k \in Logins : login'[k] = IF k = l THEN next ELSE login[k]
  BY DEF TasksInv
<1>2. net' \subseteq RequestType /\ net' \subseteq net
  BY DEF TasksInv
<1>3. \A k \in Logins : TaskOk(k, login'[k])
  BY <1>1 DEF TasksInv
<1>4. ASSUME NEW r \in net'
      PROVE  RequestOk(r) /\ CallOk(r, login'[r.login])
  <2>1. RequestOk(r) /\ CallOk(r, login[r.login]) /\ r.login \in Logins
    BY <1>2 DEF TasksInv, RequestType
  <2> QED  BY <1>1, <2>1 DEF CallOk
<1> QED  BY <1>1, <1>2, <1>3, <1>4 DEF TasksInv

\* A task that makes its next call.
LEMMA TaskCalls ==
    ASSUME TasksInv, NEW l \in Logins, NEW next \in TaskType, TaskOk(l, next),
           next.pc \in Waiting, next.call = login[l].call + 1,
           NEW rest, rest \subseteq net,
           login' = [login EXCEPT ![l] = next],
           net' = rest \cup {Request(l, next)}
    PROVE  TasksInv'
<1> DEFINE new == Request(l, next)
<1>1. /\ login' \in [Logins -> TaskType]
      /\ \A k \in Logins : login'[k] = IF k = l THEN next ELSE login[k]
      /\ login[l].call \in Nat
  BY DEF TasksInv, TaskType
<1>2. /\ new.login = l /\ new.call = next.call /\ new.op = next.op
      /\ new.phase = "sent"
  BY DEF Request
<1>3. new \in RequestType
  BY DEF Request, RequestType, TaskType, Codes, Optional
<1>4. RequestOk(new)
  <2>1. next.op = "update_friendly_name" => next.pc = "rename"
    BY DEF TaskOk, Waiting, CallOf
  <2> HIDE DEF new
  <2> QED  BY <1>2, <2>1 DEF RequestOk, TaskOk
<1> HIDE DEF new
<1>5. \A k \in Logins : TaskOk(k, login'[k])
  BY <1>1 DEF TasksInv
<1>6. ASSUME NEW r \in net, NEW t, t = login'[r.login]
      PROVE  RequestOk(r) /\ CallOk(r, t)
  <2>1. /\ RequestOk(r) /\ CallOk(r, login[r.login]) /\ r.login \in Logins
        /\ r.call \in Nat
    BY DEF TasksInv, RequestType
  <2>2. CASE r.login = l
    <3>1. r.call <= login[l].call /\ t = next
      BY <1>1, <1>6, <2>1, <2>2 DEF CallOk
    <3>2. r.call <= next.call /\ r.call # next.call
      BY <1>1, <2>1, <3>1
    <3> QED  BY <2>1, <3>1, <3>2 DEF CallOk
  <2>3. CASE r.login # l
    BY <1>1, <1>6, <2>1, <2>3
  <2> QED  BY <2>2, <2>3
<1>7. RequestOk(new) /\ CallOk(new, login'[new.login])
  <2>1. next.call \in Nat
    BY DEF TaskType
  <2> QED  BY <1>1, <1>2, <1>4, <2>1 DEF CallOk
<1>8. net' \subseteq net \cup {new} /\ net' \subseteq RequestType
  <2>1. net' = rest \cup {new}
    BY DEF new
  <2> QED  BY <1>3, <2>1 DEF TasksInv
<1>9. \A r \in net' : RequestOk(r) /\ CallOk(r, login'[r.login])
  BY <1>6, <1>7, <1>8
<1> QED  BY <1>1, <1>5, <1>8, <1>9 DEF TasksInv

\* A call of the client.
LEMMA CallKeeps ==
    ASSUME TasksInv, NEW l \in Logins, NEW t \in TaskType,
           t.call = login[l].call, NEW pc \in Waiting,
           pc = "rename" => Claims[l].friendly_name \in FriendlyNames,
           pc \in {"rename", "add_group", "rollback"} =>
              t.user.external_id = Claims[l].sub,
           NEW rest, rest \subseteq net, Call(l, t, pc, CallOf[pc], rest)
    PROVE  TasksInv'
<1> DEFINE next == [t EXCEPT !.pc = pc, !.op = CallOf[pc], !.call = t.call + 1,
                             !.attempt = 0]
<1>1. /\ login' = [login EXCEPT ![l] = next]
      /\ net' = rest \cup {Request(l, next)}
  BY DEF Call
<1>2. CallOf[pc] \in Operations
  BY DEF CallOf, Operations, Waiting
<1>3. next \in TaskType
  <2>1. t.call + 1 \in Nat
    BY DEF TaskType
  <2>2. 0 \in 0 .. MaxRetries
    OBVIOUS
  <2> QED  BY <1>2, <2>1, <2>2 DEF TaskType
<1>4. /\ next.pc = pc /\ next.op = CallOf[pc] /\ next.call = login[l].call + 1
      /\ next.user = t.user
  BY DEF TaskType
<1> HIDE DEF next
<1>5. TaskOk(l, next)
  <2>1. pc # "done"
    BY DEF Waiting
  <2> QED  BY <1>4, <2>1 DEF TaskOk
<1> QED  BY <1>1, <1>3, <1>4, <1>5, TaskCalls

\* The end of a login.
LEMMA EndKeeps ==
    ASSUME TasksInv, NEW l \in Logins, NEW t \in TaskType,
           t.call = login[l].call, t.op = login[l].op, NEW pc \in Ended,
           pc = "done" => t.user.external_id = Claims[l].sub,
           NEW rest, rest \subseteq net, End(l, t, pc, rest)
    PROVE  TasksInv'
<1> DEFINE next == [t EXCEPT !.pc = pc]
<1>1. login' = [login EXCEPT ![l] = next] /\ net' = rest
  BY DEF End
<1>2. next \in TaskType
  BY DEF TaskType
<1>3. /\ next.pc = pc /\ next.op = login[l].op /\ next.call = login[l].call
      /\ next.user = t.user
  BY DEF TaskType
<1> HIDE DEF next
<1>4. TaskOk(l, next)
  <2>1. pc \notin Waiting \cup {"rename", "add_group", "rollback"}
    BY DEF Waiting, Ended
  <2> QED  BY <1>3, <2>1 DEF TaskOk
<1> QED  BY <1>1, <1>2, <1>3, <1>4, TaskRests

\* The next attempt of a call.
LEMMA ResendKeeps ==
    ASSUME TasksInv, NEW l \in Logins, login[l].pc \in Waiting,
           login[l].attempt < MaxRetries,
           NEW rest, rest \subseteq net, Resend(l, rest)
    PROVE  TasksInv'
<1> DEFINE t == login[l]
           next == [t EXCEPT !.call = t.call + 1, !.attempt = t.attempt + 1]
<1>1. t \in TaskType /\ TaskOk(l, t)
  BY DEF TasksInv
<1>2. /\ login' = [login EXCEPT ![l] = next]
      /\ net' = rest \cup {Request(l, next)}
  BY DEF Resend
<1>3. t.attempt + 1 \in 0 .. MaxRetries
  BY <1>1 DEF TaskType
<1> HIDE DEF t
<1>4. next \in TaskType
  <2>1. t.call + 1 \in Nat
    BY <1>1 DEF TaskType
  <2> QED  BY <1>1, <1>3, <2>1 DEF TaskType
<1>5. /\ next.pc = t.pc /\ next.op = t.op /\ next.call = t.call + 1
      /\ next.user = t.user
  BY <1>1 DEF TaskType
<1> HIDE DEF next
<1>6. TaskOk(l, next)
  BY <1>1, <1>5 DEF TaskOk
<1> QED  BY <1>2, <1>4, <1>5, <1>6, TaskCalls DEF t

\* The groups of a user of the own identity.
LEMMA AddGroupsKeeps ==
    ASSUME TasksInv, NEW l \in Logins, NEW t \in TaskType,
           t.call = login[l].call, t.op = login[l].op,
           t.user.external_id = Claims[l].sub,
           NEW rest, rest \subseteq net, AddGroups(l, t, rest)
    PROVE  TasksInv'
<1>1. CASE Call(l, t, "add_group", "add_membership", rest)
  <2>1. "add_group" \in Waiting /\ CallOf["add_group"] = "add_membership"
    BY DEF Waiting, CallOf
  <2> QED  BY <1>1, <2>1, CallKeeps
<1>2. CASE End(l, t, "done", rest)
  BY <1>2, EndKeeps DEF Ended
<1> QED  BY <1>1, <1>2 DEF AddGroups
-----------------------------------------------------------------------------
(* The outcome of a call. *)

\* What a login may rely on when the call it waits for has the outcome `code`
\* with `row`.
OutcomeOk(l, op, code, row) ==
    /\ op = "find_by_external_id" /\ code = 200 =>
          row = None \/ row.external_id = Claims[l].sub
    /\ op = "create_user" /\ code = 201 => row.external_id = Claims[l].sub

\* ensure_user goes on after a call: whatever the outcome, the task keeps what
\* TaskOk says.
LEMMA ContinueKeeps ==
    ASSUME TasksInv, NEW l \in Logins, login[l].pc \in Waiting,
           NEW code, NEW row \in Optional(UserRow),
           OutcomeOk(l, login[l].op, code, row),
           NEW rest, rest \subseteq net, Continue(l, code, row, rest)
    PROVE  TasksInv'
<1> DEFINE t == login[l]
<1>1. t \in TaskType /\ TaskOk(l, t)
  BY DEF TasksInv
<1>2. t.op = CallOf[t.pc]
  BY <1>1 DEF TaskOk
<1>3. /\ t.call = login[l].call /\ t.op = login[l].op
      /\ OutcomeOk(l, t.op, code, row)
      /\ {"done", "failed", "collision", "unknown_identity"} \subseteq Ended
  BY DEF Ended
<1> DEFINE known == [t EXCEPT !.user = row]
           created == [t EXCEPT !.user = row, !.created = TRUE]
<1>4. /\ known \in TaskType /\ known.call = t.call /\ known.op = t.op
      /\ known.user = row
  BY <1>1 DEF TaskType
<1>5. /\ created \in TaskType /\ created.call = t.call /\ created.op = t.op
      /\ created.user = row
  BY <1>1 DEF TaskType
<1>6. CASE AfterLookup(l, t, code, row, rest)
  <2>1. t.pc = "lookup" /\ t.op = "find_by_external_id"
    BY <1>2, <1>6 DEF AfterLookup, CallOf
  <2>2. CASE End(l, t, "failed", rest) \/ End(l, t, "unknown_identity", rest)
    <3> HIDE DEF t
    <3> QED  BY <1>1, <1>3, <2>2, EndKeeps
  <2>3. CASE code = 200 /\ row # None /\ End(l, known, "done", rest)
    <3>1. row.external_id = Claims[l].sub
      BY <1>3, <2>1, <2>3 DEF OutcomeOk
    <3> HIDE DEF t, known
    <3> QED  BY <1>3, <1>4, <2>3, <3>1, EndKeeps
  <2>4. CASE /\ code = 200 /\ row # None /\ FriendlyName(l) # None
             /\ Call(l, known, "rename", "update_friendly_name", rest)
    <3>1. row.external_id = Claims[l].sub
      BY <1>3, <2>1, <2>4 DEF OutcomeOk
    <3>2. Claims[l].friendly_name \in FriendlyNames
      BY <2>4 DEF FriendlyName, LoginClaims, Optional
    <3>3. "rename" \in Waiting /\ CallOf["rename"] = "update_friendly_name"
      BY DEF Waiting, CallOf
    <3> HIDE DEF t, known
    <3> QED  BY <1>3, <1>4, <2>4, <3>1, <3>2, <3>3, CallKeeps
  <2>5. CASE Call(l, t, "create", "create_user", rest)
    <3>1. "create" \in Waiting /\ CallOf["create"] = "create_user"
      BY DEF Waiting, CallOf
    <3> HIDE DEF t
    <3> QED  BY <1>1, <1>3, <2>5, <3>1, CallKeeps
  <2> QED  BY <1>6, <2>2, <2>3, <2>4, <2>5 DEF AfterLookup
<1>7. CASE AfterRename(l, t, code, row, rest)
  <2>1. t.user.external_id = Claims[l].sub /\ End(l, t, "done", rest)
    BY <1>1, <1>7 DEF AfterRename, TaskOk
  <2> HIDE DEF t
  <2> QED  BY <1>1, <1>3, <2>1, EndKeeps
<1>8. ASSUME Created(l, t, row, rest), row.external_id = Claims[l].sub
      PROVE  TasksInv'
  <2>1. AddGroups(l, created, rest)
    BY <1>8 DEF Created
  <2> HIDE DEF t, created
  <2> QED  BY <1>3, <1>5, <1>8, <2>1, AddGroupsKeeps
<1>9. CASE AfterCreate(l, t, code, row, rest)
  <2>1. t.op = "create_user"
    BY <1>2, <1>9 DEF AfterCreate, CallOf
  <2>2. CASE code = 201 /\ Created(l, t, row, rest)
    BY <1>3, <1>8, <2>1, <2>2 DEF OutcomeOk
  <2>3. CASE Call(l, t, "readback", "find_by_external_id", rest)
    <3>1. "readback" \in Waiting /\ CallOf["readback"] = "find_by_external_id"
      BY DEF Waiting, CallOf
    <3> HIDE DEF t
    <3> QED  BY <1>1, <1>3, <2>3, <3>1, CallKeeps
  <2>4. CASE End(l, t, "failed", rest)
    <3> HIDE DEF t
    <3> QED  BY <1>1, <1>3, <2>4, EndKeeps
  <2> QED  BY <1>9, <2>2, <2>3, <2>4 DEF AfterCreate
<1>10. CASE AfterReadback(l, t, code, row, rest)
  <2>1. t.op = "find_by_external_id"
    BY <1>2, <1>10 DEF AfterReadback, CallOf
  <2>2. CASE End(l, t, "failed", rest) \/ End(l, t, "collision", rest)
    <3> HIDE DEF t
    <3> QED  BY <1>1, <1>3, <2>2, EndKeeps
  <2>3. CASE code = 200 /\ row # None /\ End(l, known, "done", rest)
    <3>1. row.external_id = Claims[l].sub
      BY <1>3, <2>1, <2>3 DEF OutcomeOk
    <3> HIDE DEF t, known
    <3> QED  BY <1>3, <1>4, <2>3, <3>1, EndKeeps
  <2>4. CASE Call(l, t, "holder", "find_by_email", rest)
    <3>1. "holder" \in Waiting /\ CallOf["holder"] = "find_by_email"
      BY DEF Waiting, CallOf
    <3> HIDE DEF t
    <3> QED  BY <1>1, <1>3, <2>4, <3>1, CallKeeps
  <2> QED  BY <1>10, <2>2, <2>3, <2>4 DEF AfterReadback
<1>11. CASE AfterHolder(l, t, code, row, rest)
  <2>1. CASE End(l, t, "failed", rest) \/ End(l, t, "collision", rest)
    <3> HIDE DEF t
    <3> QED  BY <1>1, <1>3, <2>1, EndKeeps
  <2> DEFINE anonymous == [t EXCEPT !.email = None]
  <2>2. CASE Call(l, anonymous, "create_without_email", "create_user", rest)
    <3>1. anonymous \in TaskType /\ anonymous.call = t.call
      BY <1>1 DEF TaskType, Optional
    <3>2. /\ "create_without_email" \in Waiting
          /\ CallOf["create_without_email"] = "create_user"
      BY DEF Waiting, CallOf
    <3> HIDE DEF t, anonymous
    <3> QED  BY <1>3, <2>2, <3>1, <3>2, CallKeeps
  <2> QED  BY <1>11, <2>1, <2>2 DEF AfterHolder
<1>12. CASE AfterCreateWithoutEmail(l, t, code, row, rest)
  <2>1. t.op = "create_user"
    BY <1>2, <1>12 DEF AfterCreateWithoutEmail, CallOf
  <2>2. CASE code = 201 /\ Created(l, t, row, rest)
    BY <1>3, <1>8, <2>1, <2>2 DEF OutcomeOk
  <2>3. CASE End(l, t, "failed", rest) \/ End(l, t, "collision", rest)
    <3> HIDE DEF t
    <3> QED  BY <1>1, <1>3, <2>3, EndKeeps
  <2> QED  BY <1>12, <2>2, <2>3 DEF AfterCreateWithoutEmail
<1>13. CASE AfterAddGroup(l, t, code, row, rest)
  <2>1. t.user.external_id = Claims[l].sub
    BY <1>1, <1>13 DEF AfterAddGroup, TaskOk
  <2> DEFINE added == [t EXCEPT !.group = t.group + 1]
  <2>2. CASE AddGroups(l, added, rest)
    <3>1. t.group + 1 \in Nat
      BY <1>1 DEF TaskType
    <3>2. /\ added \in TaskType /\ added.call = t.call /\ added.op = t.op
          /\ added.user = t.user
      BY <1>1, <3>1 DEF TaskType
    <3> HIDE DEF t, added
    <3> QED  BY <1>3, <2>1, <2>2, <3>2, AddGroupsKeeps
  <2>3. CASE Call(l, t, "rollback", "delete_user", rest)
    <3>1. "rollback" \in Waiting /\ CallOf["rollback"] = "delete_user"
      BY DEF Waiting, CallOf
    <3> HIDE DEF t
    <3> QED  BY <1>1, <1>3, <2>1, <2>3, <3>1, CallKeeps
  <2> QED  BY <1>13, <2>2, <2>3 DEF AfterAddGroup
<1>14. CASE AfterRollback(l, t, code, row, rest)
  <2>1. End(l, t, "failed", rest)
    BY <1>14 DEF AfterRollback
  <2> HIDE DEF t
  <2> QED  BY <1>1, <1>3, <2>1, EndKeeps
<1> QED  BY <1>6, <1>7, <1>9, <1>10, <1>11, <1>12, <1>13, <1>14 DEF Continue

\* The client's own steps: a reply is received or lost, a connection fails, the
\* browser goes away, the server crashes.
LEMMA ClientKeeps ==
    ASSUME TasksInv, NEW l \in Logins,
           \/ ClientStep(l) \/ ConnectError(l) \/ LostReply(l)
           \/ DropRequest(l) \/ Crash(l)
    PROVE  TasksInv'
<1>1. login[l] \in TaskType /\ TaskOk(l, login[l])
  BY DEF TasksInv
<1>2. CASE StartLogin(l)
  <2>1. "lookup" \in Waiting /\ CallOf["lookup"] = "find_by_external_id"
    BY DEF Waiting, CallOf
  <2> QED  BY <1>1, <1>2, <2>1, CallKeeps DEF StartLogin
<1>3. ASSUME NEW r \in net, Pending(l, r)
      PROVE  /\ login[l].pc \in Waiting /\ r.op = login[l].op
             /\ r.row \in Optional(UserRow) /\ r.login = l
             /\ r.phase = "answered" => OutcomeOk(l, login[l].op, r.code, r.row)
             /\ OutcomeOk(l, login[l].op, 0, None)
  BY <1>3 DEF Pending, Awaited, TasksInv, CallOk, RequestOk, OutcomeOk, RequestType
<1>4. None \in Optional(UserRow)
  BY DEF Optional
<1>5. CASE Receive(l)
  <2>1. PICK r \in net :
          /\ Pending(l, r) /\ r.phase = "answered"
          /\ \/ login[l].attempt < MaxRetries /\ Resend(l, net \ {r})
             \/ Continue(l, r.code, r.row, net \ {r})
    BY <1>5 DEF Receive
  <2> QED  BY <1>3, <2>1, ResendKeeps, ContinueKeeps
<1>6. CASE ConnectError(l)
  <2>1. PICK r \in net :
          /\ Pending(l, r)
          /\ \/ login[l].attempt < MaxRetries /\ Resend(l, net \ {r})
             \/ Continue(l, 0, None, net \ {r})
    BY <1>6 DEF ConnectError
  <2> QED  BY <1>3, <1>4, <2>1, ResendKeeps, ContinueKeeps
<1>7. CASE LostReply(l)
  <2>1. PICK r \in net, rest \in SUBSET net :
          /\ Pending(l, r)
          /\ \/ login[l].attempt < MaxRetries /\ Resend(l, rest)
             \/ Continue(l, 0, None, rest)
    BY <1>7 DEF LostReply
  <2> QED  BY <1>3, <1>4, <2>1, ResendKeeps, ContinueKeeps
<1>8. CASE DropRequest(l)
  <2>1. CASE End(l, login[l], "dropped", {r \in net : LateRequests \/ ~Pending(l, r)})
    BY <1>1, <2>1, EndKeeps DEF Ended
  <2>2. CASE login' = [login EXCEPT ![l].gone = TRUE] /\ UNCHANGED net
    <3> DEFINE next == [login[l] EXCEPT !.gone = TRUE]
    <3>1. /\ next \in TaskType /\ next.call = login[l].call
          /\ next.op = login[l].op /\ next.pc = login[l].pc
          /\ next.user = login[l].user
      BY <1>1 DEF TaskType
    <3>2. login' = [login EXCEPT ![l] = next] /\ net' = net
      BY <2>2
    <3> HIDE DEF next
    <3>3. TaskOk(l, next)
      BY <1>1, <3>1 DEF TaskOk
    <3> QED  BY <3>1, <3>2, <3>3, TaskRests
  <2> QED  BY <1>8, <2>1, <2>2 DEF DropRequest
<1>9. CASE Crash(l)
  <2>1. End(l, login[l], "crashed", {r \in net : LateRequests \/ ~Pending(l, r)})
    BY <1>9 DEF Crash
  <2> QED  BY <1>1, <2>1, EndKeeps DEF Ended
<1> QED  BY <1>2, <1>5, <1>6, <1>7, <1>8, <1>9 DEF ClientStep
-----------------------------------------------------------------------------
(* The authorization server. *)

\* What a reply says about a row of the table `u` of users.
LEMMA RowOfTable ==
    ASSUME NEW u, IsTable(u, Usernames, UserRecord), NEW n \in DOMAIN u
    PROVE  [username |-> n, user_id |-> u[n].user_id,
            external_id |-> u[n].external_id,
            friendly_name |-> u[n].friendly_name] \in UserRow
<1>1. n \in Usernames /\ u[n] \in UserRecord
  BY DEF IsTable
<1> QED  BY <1>1 DEF UserRecord, UserRow

\* A request leaves the server answered, or goes back to it for a second look.
LEMMA ServedKeeps ==
    ASSUME TasksInv, NEW r \in net, NEW served \in RequestType,
           served.login = r.login, served.op = r.op, served.call = r.call,
           served.phase = "reread" => r.op = "create_user",
           served.phase = "answered" =>
              OutcomeOk(r.login, r.op, served.code, served.row),
           net' \subseteq net \cup {served}, UNCHANGED login
    PROVE  TasksInv'
<1>1. RequestOk(r) /\ CallOk(r, login[r.login])
  BY DEF TasksInv
<1>2. RequestOk(served) /\ CallOk(served, login[served.login])
  BY <1>1 DEF RequestOk, OutcomeOk, CallOk
<1>3. net' \subseteq RequestType
  BY DEF TasksInv
<1>4. \A q \in net' : RequestOk(q) /\ CallOk(q, login'[q.login])
  BY <1>2 DEF TasksInv
<1> QED  BY <1>3, <1>4 DEF TasksInv

\* An answer, which is kept only while the login waits for it.
LEMMA AnswerKeeps ==
    ASSUME TasksInv, NEW r \in net, NEW code \in Codes,
           NEW row \in Optional(UserRow),
           OutcomeOk(r.login, r.op, code, row), Answer(r, code, row)
    PROVE  TasksInv'
<1> DEFINE served == [r EXCEPT !.phase = "answered", !.code = code, !.row = row]
<1>1. net' \subseteq net \cup {served} /\ UNCHANGED login
  BY DEF Answer
<1>2. /\ served \in RequestType
      /\ served.login = r.login /\ served.op = r.op /\ served.call = r.call
      /\ served.phase = "answered" /\ served.code = code /\ served.row = row
  <2>1. r \in RequestType
    BY DEF TasksInv
  <2> QED  BY <2>1 DEF RequestType
<1> HIDE DEF served
<1> QED  BY <1>1, <1>2, ServedKeeps

\* The server's steps are store calls, or change no table, and answer the
\* truth about the identity that asks.
LEMMA ServeKeeps ==
    ASSUME TypeOK, TasksInv, NEW r \in net, Serve(r)
    PROVE  TasksInv' /\ [Next]_vars
<1>1. r \in RequestType /\ RequestOk(r) /\ Claims[r.login] \in LoginClaims
  BY DEF TasksInv, RequestType
<1>2. None \in Optional(UserRow) /\ {200, 201, 204, 404, 409} \subseteq Codes
  BY DEF Optional, Codes
<1>3. DOMAIN users \subseteq Usernames /\ DOMAIN groups \subseteq Groups
  BY DEF TypeOK, IsTable
<1>4. \A n \in DOMAIN users : Row(n) \in Optional(UserRow)
  BY RowOfTable DEF Row, TypeOK, Optional
<1>5. \A n : Row(n).external_id = users[n].external_id
  BY DEF Row
<1>6. CASE ServeFind(r)
  <2>1. UNCHANGED vars
    BY <1>6 DEF ServeFind
  <2>2. ASSUME NEW names \in SUBSET DOMAIN users
        PROVE  /\ Found(names) \in Optional(UserRow)
               /\ names # {} => \E n \in names : Found(names) = Row(n)
               /\ names = {} => Found(names) = None
    BY <1>2, <1>4 DEF Found
  <2>3. CASE /\ r.op = "find_by_external_id"
             /\ Answer(r, 200, Found(FindUserByExternalId(Claims[r.login].sub)))
    <3> DEFINE names == FindUserByExternalId(Claims[r.login].sub)
    <3>1. names \in SUBSET DOMAIN users
      BY DEF FindUserByExternalId
    <3>2. \A n \in names : users[n].external_id = Claims[r.login].sub
      BY DEF FindUserByExternalId
    <3> HIDE DEF names
    <3>3. OutcomeOk(r.login, r.op, 200, Found(names))
      BY <1>5, <2>2, <2>3, <3>1, <3>2 DEF OutcomeOk
    <3>4. Answer(r, 200, Found(names))
      BY <2>3 DEF names
    <3> QED  BY <1>2, <2>1, <2>2, <3>1, <3>3, <3>4, AnswerKeeps
  <2>4. CASE r.op = "find_by_email" /\ Answer(r, 200, Found(FindUserByEmail(r.email)))
    <3> DEFINE names == FindUserByEmail(r.email)
    <3>1. names \in SUBSET DOMAIN users
      BY DEF FindUserByEmail
    <3> HIDE DEF names
    <3>2. OutcomeOk(r.login, r.op, 200, Found(names))
      BY <2>4 DEF OutcomeOk
    <3>3. Answer(r, 200, Found(names))
      BY <2>4 DEF names
    <3> QED  BY <1>2, <2>1, <2>2, <3>1, <3>2, <3>3, AnswerKeeps
  <2> QED  BY <1>6, <2>3, <2>4 DEF ServeFind
<1> DEFINE new == Creation(r)
<1>7. /\ new \in NewUser /\ new.username = Claims[r.login].username
      /\ new.external_id = Claims[r.login].sub
      /\ new.external_id \in ExternalIds
  <2>1. FriendlyName(r.login) \in Optional(FriendlyNames)
    BY <1>1 DEF FriendlyName, LoginClaims, Optional
  <2> QED  BY <1>1, <2>1 DEF Creation, NewUser, LoginClaims, RequestType, Optional
<1>8. CASE ServeCreate(r)
  <2>1. r.op = "create_user"
    BY <1>8 DEF ServeCreate
  <2>2. CASE CreateUser(new) /\ Answer(r, 201, Row(new.username)')
    <3>1. Next
      BY <1>7, <2>2 DEF Next, UserNext
    <3>2. TypeOK'
      BY <3>1, TypeStep
    <3>3. /\ new.username \in DOMAIN users'
          /\ users'[new.username].external_id = Claims[r.login].sub
      BY <1>7, <2>2 DEF CreateUser, Put
    <3>4. Row(new.username)' \in Optional(UserRow)
      <4>1. IsTable(users', Usernames, UserRecord)
        BY <3>2 DEF TypeOK
      <4>2. [username |-> new.username, user_id |-> users'[new.username].user_id,
             external_id |-> users'[new.username].external_id,
             friendly_name |-> users'[new.username].friendly_name] \in UserRow
        <5> HIDE DEF new
        <5> QED  BY <3>3, <4>1, RowOfTable
      <4> QED  BY <4>2 DEF Row, Optional, Creation, FriendlyName
    <3>5. (Row(new.username)').external_id = Claims[r.login].sub
      BY <3>3 DEF Row
    <3>6. OutcomeOk(r.login, r.op, 201, Row(new.username)')
      BY <2>1, <3>5 DEF OutcomeOk
    <3> HIDE DEF new
    <3> QED  BY <1>2, <2>2, <3>1, <3>4, <3>6, AnswerKeeps
  <2>3. CASE /\ net' = (net \ {r}) \cup {[r EXCEPT !.phase = "reread"]}
             /\ UNCHANGED <<login, spent>> /\ UNCHANGED vars
    <3> DEFINE served == [r EXCEPT !.phase = "reread"]
    <3>1. /\ served \in RequestType
          /\ served.login = r.login /\ served.op = r.op
          /\ served.call = r.call /\ served.phase = "reread"
      BY <1>1 DEF RequestType
    <3>2. net' \subseteq net \cup {served} /\ UNCHANGED login
      BY <2>3
    <3> HIDE DEF served
    <3> QED  BY <2>1, <2>3, <3>1, <3>2, ServedKeeps
  <2> QED  BY <1>8, <2>2, <2>3 DEF ServeCreate
<1>9. CASE ServeReread(r)
  <2>1. r.op = "create_user" /\ UNCHANGED vars
    BY <1>1, <1>9 DEF ServeReread, RequestOk
  <2>2. CASE /\ new.username \in DOMAIN users
             /\ SameUser(new, users[new.username])
             /\ Answer(r, 201, Row(new.username))
    <3>1. users[new.username].external_id = Claims[r.login].sub
      BY <1>7, <2>2, NoneAssumption DEF SameUser, SameIfGiven
    <3>2. OutcomeOk(r.login, r.op, 201, Row(new.username))
      BY <1>5, <2>1, <3>1 DEF OutcomeOk
    <3> HIDE DEF new
    <3> QED  BY <1>2, <1>4, <2>1, <2>2, <3>2, AnswerKeeps
  <2>3. CASE Answer(r, 409, None)
    <3>1. OutcomeOk(r.login, r.op, 409, None)
      BY <2>1 DEF OutcomeOk
    <3> QED  BY <1>2, <2>1, <2>3, <3>1, AnswerKeeps
  <2> QED  BY <1>9, <2>2, <2>3 DEF ServeReread
<1>10. ASSUME r.op \notin {"find_by_external_id", "create_user"},
              NEW code \in {201, 204, 404}, Answer(r, code, None)
       PROVE  TasksInv'
  <2>1. OutcomeOk(r.login, r.op, code, None)
    BY <1>10 DEF OutcomeOk
  <2> QED  BY <1>2, <1>10, <2>1, AnswerKeeps
<1>11. CASE ServeDelete(r)
  <2>1. r.op \notin {"find_by_external_id", "create_user"}
    BY <1>11 DEF ServeDelete
  <2>2. TasksInv'
    BY <1>10, <1>11, <2>1 DEF ServeDelete
  <2>3. [Next]_vars
    <3>1. CASE DeleteUser(r.user.username)
      <4>1. r.user.username \in Usernames
        BY <1>3, <3>1 DEF DeleteUser
      <4> QED  BY <3>1, <4>1 DEF Next, UserNext
    <3> QED  BY <1>11, <3>1 DEF ServeDelete
  <2> QED  BY <2>2, <2>3
<1>12. CASE ServeAddMembership(r)
  <2>1. r.op \notin {"find_by_external_id", "create_user"}
    BY <1>12 DEF ServeAddMembership
  <2>2. TasksInv'
    BY <1>10, <1>12, <2>1 DEF ServeAddMembership
  <2>3. [Next]_vars
    <3> DEFINE g == Claims[r.login].groups[r.group]
               n == r.user.username
    <3>1. CASE AddMembership(g, n)
      <4>1. g \in Groups /\ n \in Usernames
        BY <1>3, <3>1 DEF AddMembership
      <4> HIDE DEF g, n
      <4> QED  BY <3>1, <4>1 DEF Next, AttachmentNext
    <3> QED  BY <1>12, <3>1 DEF ServeAddMembership
  <2> QED  BY <2>2, <2>3
<1>13. CASE ServeUpdateFriendlyName(r)
  <2>1. r.op = "update_friendly_name"
    BY <1>13 DEF ServeUpdateFriendlyName
  <2>2. TasksInv'
    BY <1>10, <1>13, <2>1 DEF ServeUpdateFriendlyName
  <2>3. [Next]_vars
    <3>1. CASE SetFriendlyName(r.user.username, Claims[r.login].friendly_name)
      <4>1. /\ r.user.username \in Usernames
            /\ Claims[r.login].friendly_name \in FriendlyNames
        BY <1>1, <1>3, <2>1, <3>1 DEF SetFriendlyName, RequestOk
      <4> QED  BY <3>1, <4>1 DEF Next, UserNext
    <3> QED  BY <1>13, <3>1 DEF ServeUpdateFriendlyName
  <2> QED  BY <2>2, <2>3
<1> QED  BY <1>6, <1>8, <1>9, <1>11, <1>12, <1>13 DEF Serve

\* An answer of the timeout layer or of a failing store has no effect.
LEMMA ServerErrorKeeps ==
    ASSUME TasksInv, NEW r \in net, ServerError(r)
    PROVE  TasksInv' /\ [Next]_vars
<1>1. PICK code \in {408, 500} :
        net' = (net \ {r}) \cup
                  IF Awaited(r)
                  THEN {[r EXCEPT !.phase = "answered", !.code = code]}
                  ELSE {}
  BY DEF ServerError
<1> DEFINE served == [r EXCEPT !.phase = "answered", !.code = code]
<1>2. net' \subseteq net \cup {served}
  BY <1>1
<1>3. /\ served \in RequestType
      /\ served.login = r.login /\ served.op = r.op /\ served.call = r.call
      /\ served.phase = "answered" /\ served.code = code
  <2>1. r \in RequestType /\ code \in Codes
    BY DEF TasksInv, Codes
  <2> QED  BY <2>1 DEF RequestType
<1> HIDE DEF served
<1>4. OutcomeOk(r.login, r.op, served.code, served.row)
  BY <1>3 DEF OutcomeOk
<1>5. UNCHANGED login /\ UNCHANGED vars
  BY DEF ServerError
<1> QED  BY <1>2, <1>3, <1>4, <1>5, ServedKeeps

-----------------------------------------------------------------------------

\* Every step of the system is a step of the store or leaves it alone, and
\* keeps the invariant of the tasks.
LEMMA ProvStep ==
    ASSUME TypeOK, TasksInv, [ProvNext]_provVars
    PROVE  TasksInv' /\ [Next]_vars
<1>1. CASE UNCHANGED provVars
  <2>1. UNCHANGED login /\ UNCHANGED net /\ UNCHANGED vars
    BY <1>1 DEF provVars, vars
  <2> QED  BY <2>1 DEF TasksInv
<1>2. CASE ServerStep
  BY <1>2, ServeKeeps DEF ServerStep
<1>3. CASE \E r \in net : ServerError(r)
  BY <1>3, ServerErrorKeeps
<1>4. ASSUME NEW l \in Logins,
             \/ ClientStep(l) \/ ConnectError(l) \/ LostReply(l)
             \/ DropRequest(l) \/ Crash(l)
      PROVE  TasksInv' /\ [Next]_vars
  <2>1. UNCHANGED vars
    BY <1>4 DEF ClientStep, StartLogin, Receive, ConnectError, LostReply,
                DropRequest, Crash
  <2> QED  BY <1>4, <2>1, ClientKeeps
<1>5. CASE \E g \in Groups : AdminDeleteGroup(g)
  <2>1. Next /\ UNCHANGED login /\ UNCHANGED net
    BY <1>5 DEF AdminDeleteGroup, Next, GroupNext
  <2> QED  BY <2>1 DEF TasksInv
<1> QED  BY <1>1, <1>2, <1>3, <1>4, <1>5 DEF ProvNext

\* Nobody has logged in yet.
LEMMA ProvisioningInit == ProvInit => ProvisioningInv
<1> SUFFICES ASSUME ProvInit PROVE ProvisioningInv
  OBVIOUS
<1>1. TypeOK
  <2>1. IsTable(groups, Groups, GroupRecord)
    BY DEF ProvInit, IsTable, GroupRecord, Optional
  <2> QED  BY <2>1, EmptyIsTable DEF ProvInit, TypeOK
<1>2. Links
  BY DEF ProvInit, Links, ReferentialIntegrity, NoInheritedGrants,
         UniqueIdentities, EmptyTable
<1>3. ASSUME NEW l \in Logins
      PROVE  NewLogin(l) \in TaskType /\ TaskOk(l, NewLogin(l))
  <2>1. Claims[l].email \in Optional(Emails)
    BY DEF LoginClaims
  <2>2. NewLogin(l) \in TaskType
    <3>1. /\ "find_by_external_id" \in Operations /\ 0 \in 0 .. MaxRetries
          /\ None \in Optional(UserRow)
      BY DEF Operations, Optional
    <3> QED  BY <2>1, <3>1 DEF NewLogin, TaskType
  <2>3. NewLogin(l).pc = "start"
    BY DEF NewLogin
  <2> QED  BY <2>2, <2>3 DEF TaskOk, Waiting
<1>4. TasksInv
  BY <1>3 DEF ProvInit, TasksInv
<1> QED  BY <1>1, <1>2, <1>4 DEF ProvisioningInv

\* The invariant holds whatever fails: lost, late and repeated requests,
\* dropped browsers, crashes and server errors, however many of them.
THEOREM ProvisioningInvariant == ProvSpec => []ProvisioningInv
<1>1. ProvisioningInv /\ [ProvNext]_provVars => ProvisioningInv'
  <2> SUFFICES ASSUME ProvisioningInv, [ProvNext]_provVars
               PROVE  ProvisioningInv'
    OBVIOUS
  <2>1. TypeOK /\ Links /\ TasksInv
    BY DEF ProvisioningInv
  <2>2. TasksInv' /\ [Next]_vars
    BY <2>1, ProvStep
  <2>3. TypeOK' /\ Links'
    BY <2>1, <2>2, TypeStep, LinksStep
  <2> QED  BY <2>2, <2>3 DEF ProvisioningInv
<1> QED  BY <1>1, ProvisioningInit, PTL DEF ProvSpec

\* No call has more attempts than max_retries allows, and no login ends with
\* the user of another identity, although lookups, creates and the second look
\* of POST /auth/users are separate steps that other logins run between.
THEOREM LoginsEndWithTheirUser == ProvSpec => []ProvInv
<1>1. ProvisioningInv => ProvInv
  <2> SUFFICES ASSUME ProvisioningInv PROVE ProvInv
    OBVIOUS
  <2>1. TypeOK /\ TasksInv
    BY DEF ProvisioningInv
  <2>2. \A l \in Logins : login[l] \in TaskType /\ TaskOk(l, login[l])
    BY <2>1 DEF TasksInv
  <2>3. \A r \in net : r \in RequestType
    BY <2>1 DEF TasksInv
  <2>4. ProvTypeOK
    BY <2>1, <2>2, <2>3 DEF ProvTypeOK, TaskType, RequestType
  <2>5. SessionIsOwn
    BY <2>2 DEF SessionIsOwn, TaskOk
  <2> QED  BY <2>4, <2>5 DEF ProvInv
<1> QED  BY <1>1, ProvisioningInvariant, PTL

\* Logins over HTTP leave the store as it promises to be: every step of theirs
\* is one step of the store or none, so references, grants and identities stay
\* intact under every failure of the client.
THEOREM LoginsKeepTheStore == ProvSpec => []StoreInv /\ [][Next]_vars
<1>1. ProvisioningInv => StoreInv
  BY DEF ProvisioningInv, Links, StoreInv
<1>2. ProvisioningInv /\ [ProvNext]_provVars => [Next]_vars
  BY ProvStep DEF ProvisioningInv
<1> QED  BY <1>1, <1>2, ProvisioningInvariant, PTL DEF ProvSpec
-----------------------------------------------------------------------------
(***************************************************************************)
(* GroupsAreOwn and NoUserWithoutGroups, while the server answers no error *)
(* and nothing is lost or crashes.  Browsers may go away, requests may     *)
(* outlive them, logins of several identities may share usernames and      *)
(* emails, and groups may be deleted.                                      *)
(*                                                                         *)
(* A user is then never deleted, and from the moment it is created one     *)
(* login answers for it: its reply is on its way, or it is adding the      *)
(* groups, or it has added them all (Answers).  That the reply to a create *)
(* finds its login waiting holds because a request of ensure_user is the   *)
(* only one of its call (OneRequest) and because a browser that goes away  *)
(* does not end the task that creates.                                     *)
(***************************************************************************)

Calm == MaxServerErrors = 0 /\ MaxLost = 0 /\ MaxCrashes = 0

\* All logins of one identity bring the same groups.
SameGroups ==
    \A l, k \in Logins : Claims[l].sub = Claims[k].sub =>
        {Claims[l].groups[i] : i \in DOMAIN Claims[l].groups}
          = {Claims[k].groups[i] : i \in DOMAIN Claims[k].groups}

CalmSpent ==
    /\ spent \in [errors : Nat, lost : Nat, drops : Nat, crashes : Nat]
    /\ spent.errors = 0 /\ spent.lost = 0 /\ spent.crashes = 0

\* The user `u` is in the table, under the identity of login l.
HasUser(l, u) ==
    /\ u.username \in DOMAIN users
    /\ users[u.username].external_id = Claims[l].sub

\* The user n is a member of the first groups of login l, up to the k-th, that
\* still exist.
Added(l, n, k) ==
    \A i \in DOMAIN Claims[l].groups :
        i <= k /\ Claims[l].groups[i] \in DOMAIN groups =>
            <<Claims[l].groups[i], n>> \in DOMAIN group_members

\* A task at `pc` that created its user adds the groups one after the other.
CalmTask(l, pc, t) ==
    /\ t.group >= 1
    /\ pc # "rollback"
    /\ pc = "add_group" => t.created /\ t.group \in DOMAIN Claims[l].groups
    /\ ~t.created => t.group = 1
    /\ t.created =>
          /\ pc \in {"add_group", "done"}
          /\ pc = "done" => t.group > Len(Claims[l].groups)
          /\ HasUser(l, t.user)
          /\ Added(l, t.user.username, t.group - 1)

\* The requests that only the task of a create sends.
Bound == {"create_user", "add_membership"}

CalmRequest(r) ==
    /\ r.op # "delete_user"
    /\ r.op \in Bound => Awaited(r)
    /\ r.op = "create_user" /\ r.phase = "answered" /\ r.code = 201 =>
          HasUser(r.login, r.row)
    /\ r.op = "add_membership" =>
          /\ r.user = login[r.login].user
          /\ r.group = login[r.login].group
          /\ r.phase = "answered" =>
                /\ r.code \in {201, 404}
                /\ Added(r.login, r.user.username, r.group)

OneRequest ==
    \A r, s \in net : r.login = s.login /\ r.call = s.call => r = s

\* Login l answers for the groups of the user it created.
Answers(l) ==
    \/ login[l].created
    \/ \E r \in net : /\ r.login = l /\ r.op = "create_user"
                      /\ r.phase = "answered" /\ r.code = 201

CalmInv ==
    /\ CalmSpent
    /\ \A l \in Logins : CalmTask(l, login[l].pc, login[l])
    /\ \A r \in net : CalmRequest(r)
    /\ OneRequest
    /\ \A n \in DOMAIN users :
          \E l \in Logins : Claims[l].sub = users[n].external_id /\ Answers(l)
    /\ GroupsAreOwn

\* Users stay, under their identity; a membership goes only with its group.
TablesKept ==
    /\ \A n \in DOMAIN users : /\ n \in DOMAIN users'
                               /\ users'[n].external_id = users[n].external_id
    /\ DOMAIN groups' \subseteq DOMAIN groups
    /\ \A k \in DOMAIN group_members :
          k \in DOMAIN group_members' \/ k[1] \notin DOMAIN groups'

\* What was promised of the tables before such a step holds after it.
LEMMA PromisesKept ==
    ASSUME TablesKept, NEW l, NEW u, NEW n, NEW k
    PROVE  /\ HasUser(l, u) => HasUser(l, u)'
           /\ Added(l, n, k) => Added(l, n, k)'
<1>1. HasUser(l, u) => HasUser(l, u)'
  BY DEF TablesKept, HasUser
<1>2. ASSUME Added(l, n, k) PROVE Added(l, n, k)'
  <2> SUFFICES ASSUME NEW i \in DOMAIN Claims[l].groups, i <= k,
                      Claims[l].groups[i] \in DOMAIN groups'
               PROVE  <<Claims[l].groups[i], n>> \in DOMAIN group_members'
    BY DEF Added
  <2> DEFINE m == <<Claims[l].groups[i], n>>
  <2>1. m \in DOMAIN group_members /\ m[1] = Claims[l].groups[i]
    BY <1>2 DEF TablesKept, Added
  <2> HIDE DEF m
  <2>2. m \in DOMAIN group_members'
    BY <2>1 DEF TablesKept
  <2> QED  BY <2>2 DEF m
<1> QED  BY <1>1, <1>2

\* Memberships stay with the groups of their identity when every new one is.
LEMMA OwnKept ==
    ASSUME NoInheritedGrants, TablesKept, GroupsAreOwn,
           \A k \in DOMAIN group_members' \ DOMAIN group_members :
              k[1] \in GroupsOf(users'[k[2]].external_id)
    PROVE  GroupsAreOwn'
<1>1. ASSUME NEW k \in DOMAIN group_members'
      PROVE  k[1] \in GroupsOf(users'[k[2]].external_id)
  <2>1. CASE k \in DOMAIN group_members
    <3>1. k[2] \in DOMAIN users
      BY <2>1 DEF NoInheritedGrants
    <3>2. users'[k[2]].external_id = users[k[2]].external_id
      BY <3>1 DEF TablesKept
    <3> QED  BY <2>1, <3>2 DEF GroupsAreOwn
  <2> QED  BY <2>1
<1> QED  BY <1>1 DEF GroupsAreOwn, GroupsOf

\* A step of the server: the requests of `out` leave it, those of `in` are what
\* it made of them.
LEMMA CalmServed ==
    ASSUME TasksInv, CalmInv, TablesKept, GroupsAreOwn',
           UNCHANGED login, UNCHANGED spent,
           NEW out \in SUBSET net, NEW in, net' = (net \ out) \cup in,
           \A q \in out : q.phase # "answered",
           \A q \in in : CalmRequest(q)',
           \A q \in in : \E r \in out : r.login = q.login /\ r.call = q.call,
           \A p, q \in in : p = q,
           \A n \in DOMAIN users' : n \notin DOMAIN users =>
              \E l \in Logins :
                 Claims[l].sub = users'[n].external_id /\ Answers(l)'
    PROVE  CalmInv'
<1>1. CalmSpent'
  BY DEF CalmInv, CalmSpent
<1>2. ASSUME NEW l \in Logins PROVE CalmTask(l, login[l].pc, login[l])'
  <2> DEFINE t == login[l]
  <2>1. CalmTask(l, t.pc, t) /\ login'[l] = t
    BY DEF CalmInv
  <2>2. PICK u : u = t.user
    OBVIOUS
  <2>3. PICK k : k = t.group - 1
    OBVIOUS
  <2>4. t.created => HasUser(l, u)' /\ Added(l, u.username, k)'
    <3>1. t.created => HasUser(l, u) /\ Added(l, u.username, k)
      BY <2>1, <2>2, <2>3 DEF CalmTask
    <3> QED  BY <3>1, PromisesKept
  <2>5. /\ t.created => HasUser(l, t.user)' /\ Added(l, t.user.username, t.group - 1)'
        /\ login'[l] = login[l]
    BY <2>1, <2>2, <2>3, <2>4 DEF HasUser, Added
  <2> QED  BY <2>1, <2>5 DEF CalmTask
<1>3. ASSUME NEW q \in net' PROVE CalmRequest(q)'
  <2>1. CASE q \in net
    <3>1. CalmRequest(q)
      BY <2>1 DEF CalmInv
    <3>2. Awaited(q) => Awaited(q)'
      BY DEF Awaited
    <3>3. /\ HasUser(q.login, q.row) => HasUser(q.login, q.row)'
          /\ Added(q.login, q.user.username, q.group)
                => Added(q.login, q.user.username, q.group)'
      BY PromisesKept
    <3> QED  BY <3>1, <3>2, <3>3 DEF CalmRequest
  <2> QED  BY <2>1
<1>4. OneRequest'
  BY DEF CalmInv, OneRequest
<1>5. ASSUME NEW n \in DOMAIN users'
      PROVE  \E l \in Logins :
                Claims[l].sub = users'[n].external_id /\ Answers(l)'
  <2>1. CASE n \in DOMAIN users
    <3>1. PICK l \in Logins : Claims[l].sub = users[n].external_id /\ Answers(l)
      BY <2>1 DEF CalmInv
    <3>2. Answers(l)'
      BY <3>1 DEF Answers
    <3> QED  BY <2>1, <3>1, <3>2 DEF TablesKept
  <2> QED  BY <2>1
<1> QED  BY <1>1, <1>2, <1>3, <1>4, <1>5 DEF CalmInv

\* The task of login l moves to `next`, and the network keeps what it has of
\* other logins.
LEMMA CalmMoves ==
    ASSUME TasksInv, CalmInv, CalmSpent', UNCHANGED vars,
           NEW l \in Logins, NEW next \in TaskType,
           CalmTask(l, next.pc, next), Answers(l) => next.created,
           NEW rest \in SUBSET net,
           \A q \in net : q.login # l => q \in rest,
           \A q \in rest : q.login = l => q.op \notin Bound,
           login' = [login EXCEPT ![l] = next],
           \/ net' = rest
           \/ /\ net' = rest \cup {Request(l, next)}
              /\ next.pc \in Waiting
              /\ next.op # "delete_user"
              /\ next.call = login[l].call + 1
    PROVE  CalmInv'
<1> DEFINE new == Request(l, next)
<1>1. /\ login \in [Logins -> TaskType]
      /\ \A k \in Logins : login'[k] = IF k = l THEN next ELSE login[k]
      /\ login[l].call \in Nat
  BY DEF TasksInv, TaskType
<1>2. /\ new.login = l /\ new.op = next.op /\ new.call = next.call
      /\ new.user = next.user /\ new.group = next.group /\ new.phase = "sent"
  BY DEF Request
<1>3. UNCHANGED <<users, groups, group_members>>
  BY DEF vars
<1>4. net' \subseteq net \cup {new} /\ rest \subseteq net' /\ rest \subseteq net
  OBVIOUS
<1>5. new \in net' /\ new \notin rest =>
        /\ next.pc \in Waiting /\ next.op # "delete_user"
        /\ next.call = login[l].call + 1
  OBVIOUS
<1>6. net' = rest \/ net' = rest \cup {new}
  OBVIOUS
<1> HIDE DEF new
<1>7. ASSUME NEW k \in Logins PROVE CalmTask(k, login[k].pc, login[k])'
  <2>1. CASE k = l
    <3>1. login'[k] = next
      BY <1>1, <2>1
    <3>2. CalmTask(k, next.pc, next)'
      BY <1>3, <2>1 DEF CalmTask, HasUser, Added
    <3> QED  BY <3>1, <3>2 DEF CalmTask, HasUser, Added
  <2>2. CASE k # l
    <3>1. login'[k] = login[k] /\ CalmTask(k, login[k].pc, login[k])
      BY <1>1, <2>2 DEF CalmInv
    <3> QED  BY <1>3, <3>1 DEF CalmTask, HasUser, Added
  <2> QED  BY <2>1, <2>2
<1>8. ASSUME NEW q \in rest PROVE CalmRequest(q)'
  <2>1. CalmRequest(q) /\ q.login \in Logins
    BY DEF CalmInv, TasksInv, RequestType
  <2>2. q.op \in Bound => login'[q.login] = login[q.login]
    BY <1>1, <2>1
  <2>3. /\ HasUser(q.login, q.row) => HasUser(q.login, q.row)'
        /\ Added(q.login, q.user.username, q.group)
              => Added(q.login, q.user.username, q.group)'
    BY <1>3 DEF HasUser, Added
  <2>4. q.op \in Bound => Awaited(q)'
    BY <2>1, <2>2 DEF CalmRequest, Awaited
  <2> QED  BY <2>1, <2>2, <2>3, <2>4 DEF CalmRequest, Bound
<1>9. ASSUME new \in net', new \notin rest PROVE CalmRequest(new)'
  <2>1. login'[new.login] = next /\ new.op # "delete_user"
    BY <1>1, <1>2, <1>5, <1>9
  <2>2. Awaited(new)'
    BY <1>2, <1>5, <1>9, <2>1 DEF Awaited, new, Request
  <2> QED  BY <1>2, <2>1, <2>2 DEF CalmRequest, new, Request
<1>10. \A q \in net' : CalmRequest(q)'
  BY <1>6, <1>8, <1>9
<1>11. OneRequest'
  <2>1. ASSUME NEW q \in net, q.login = l PROVE q.call <= login[l].call /\ q.call \in Nat
    BY <2>1 DEF TasksInv, CallOk, RequestType
  <2>2. ASSUME new \in net', new \notin rest, NEW q \in rest, q.login = l
        PROVE  q.call # new.call
    BY <1>1, <1>2, <1>5, <2>1, <2>2
  <2> QED  BY <1>2, <1>6, <2>2 DEF CalmInv, OneRequest
<1>12. ASSUME NEW n \in DOMAIN users'
       PROVE  \E k \in Logins :
                 Claims[k].sub = users'[n].external_id /\ Answers(k)'
  <2>1. PICK k \in Logins : Claims[k].sub = users[n].external_id /\ Answers(k)
    BY <1>3, <1>12 DEF CalmInv
  <2>2. CASE k = l
    BY <1>1, <1>3, <2>1, <2>2 DEF Answers
  <2>3. CASE k # l
    <3>1. login'[k] = login[k]
      BY <1>1, <2>3
    <3>2. \A q \in net : q.login = k => q \in net'
      BY <1>4, <2>3
    <3> QED  BY <1>3, <2>1, <3>1, <3>2 DEF Answers
  <2> QED  BY <2>2, <2>3
<1>13. GroupsAreOwn'
  BY <1>3 DEF CalmInv, GroupsAreOwn, GroupsOf
<1> QED  BY <1>7, <1>10, <1>11, <1>12, <1>13 DEF CalmInv

\* A call or the end of a login.
LEMMA CalmGoes ==
    ASSUME TasksInv, CalmInv, CalmSpent', UNCHANGED vars,
           NEW l \in Logins, NEW t \in TaskType, t.call = login[l].call,
           NEW pc, CalmTask(l, pc, t), Answers(l) => t.created,
           NEW rest \in SUBSET net,
           \A q \in net : q.login # l => q \in rest,
           \A q \in rest : q.login = l => q.op \notin Bound,
           \/ pc \in Waiting /\ Call(l, t, pc, CallOf[pc], rest)
           \/ pc \in Ended /\ End(l, t, pc, rest)
    PROVE  CalmInv'
<1>1. CASE pc \in Waiting /\ Call(l, t, pc, CallOf[pc], rest)
  <2> DEFINE next == [t EXCEPT !.pc = pc, !.op = CallOf[pc], !.call = t.call + 1,
                               !.attempt = 0]
  <2>1. /\ login' = [login EXCEPT ![l] = next]
        /\ net' = rest \cup {Request(l, next)}
    BY <1>1 DEF Call
  <2>2. /\ CallOf[pc] \in Operations
        /\ pc # "rollback" => CallOf[pc] # "delete_user"
    BY <1>1 DEF CallOf, Operations, Waiting
  <2>3. next \in TaskType
    <3>1. t.call + 1 \in Nat /\ 0 \in 0 .. MaxRetries
      BY DEF TaskType
    <3> QED  BY <1>1, <2>2, <3>1 DEF TaskType
  <2>4. /\ next.pc = pc /\ next.op = CallOf[pc] /\ next.call = login[l].call + 1
        /\ next.user = t.user /\ next.group = t.group
        /\ next.created = t.created
    BY DEF TaskType
  <2> HIDE DEF next
  <2>5. CalmTask(l, next.pc, next) /\ pc # "rollback"
    BY <2>4 DEF CalmTask
  <2> QED  BY <1>1, <2>1, <2>2, <2>3, <2>4, <2>5, CalmMoves
<1>2. CASE pc \in Ended /\ End(l, t, pc, rest)
  <2> DEFINE next == [t EXCEPT !.pc = pc]
  <2>1. login' = [login EXCEPT ![l] = next] /\ net' = rest
    BY <1>2 DEF End
  <2>2. next \in TaskType
    BY <1>2 DEF TaskType
  <2>3. /\ next.pc = pc /\ next.user = t.user /\ next.group = t.group
        /\ next.created = t.created
    BY DEF TaskType
  <2> HIDE DEF next
  <2>4. CalmTask(l, next.pc, next)
    BY <2>3 DEF CalmTask
  <2> QED  BY <2>1, <2>2, <2>3, <2>4, CalmMoves
<1> QED  BY <1>1, <1>2

\* A request of a task that creates is the only one of its login.
LEMMA OnlyRequest ==
    ASSUME TasksInv, CalmInv, NEW l \in Logins, NEW r \in net, Pending(l, r),
           NEW q \in net, q.login = l, q.op \in Bound
    PROVE  q = r
<1>1. Awaited(q)
  BY DEF CalmInv, CalmRequest
<1>2. q.call = r.call /\ q.login = r.login
  BY <1>1 DEF Awaited, Pending
<1> QED  BY <1>2 DEF CalmInv, OneRequest

\* The next group of a user that login l has created, or the end.
LEMMA CalmAddGroups ==
    ASSUME TasksInv, CalmInv, CalmSpent', UNCHANGED vars,
           NEW l \in Logins, NEW t \in TaskType, t.call = login[l].call,
           t.created, t.group >= 1, HasUser(l, t.user),
           Added(l, t.user.username, t.group - 1),
           NEW rest \in SUBSET net,
           \A q \in net : q.login # l => q \in rest,
           \A q \in rest : q.login = l => q.op \notin Bound,
           AddGroups(l, t, rest)
    PROVE  CalmInv'
<1>1. /\ "add_group" \in Waiting /\ CallOf["add_group"] = "add_membership"
      /\ "done" \in Ended
  BY DEF Waiting, CallOf, Ended
<1>2. t.group \in Nat /\ Claims[l].groups \in Seq(Groups)
  BY DEF TaskType, LoginClaims
<1>3. CASE /\ t.group <= Len(Claims[l].groups)
           /\ Call(l, t, "add_group", "add_membership", rest)
  <2>1. t.group \in DOMAIN Claims[l].groups
    BY <1>2, <1>3
  <2>2. CalmTask(l, "add_group", t)
    BY <2>1 DEF CalmTask
  <2>3. Call(l, t, "add_group", CallOf["add_group"], rest)
    BY <1>1, <1>3
  <2> QED  BY <1>1, <2>2, <2>3, CalmGoes
<1>4. CASE ~(t.group <= Len(Claims[l].groups)) /\ End(l, t, "done", rest)
  <2>1. t.group > Len(Claims[l].groups)
    BY <1>2, <1>4
  <2>2. CalmTask(l, "done", t)
    BY <2>1 DEF CalmTask
  <2> QED  BY <1>1, <1>4, <2>2, CalmGoes
<1> QED  BY <1>3, <1>4 DEF AddGroups

\* ensure_user goes on after a reply.
LEMMA CalmContinue ==
    ASSUME TasksInv, CalmInv, CalmSpent', UNCHANGED vars,
           NEW l \in Logins, NEW r \in net, Pending(l, r),
           r.phase = "answered", Continue(l, r.code, r.row, net \ {r})
    PROVE  CalmInv'
<1> DEFINE t == login[l]
           code == r.code
           row == r.row
           rest == net \ {r}
<1>1. /\ t \in TaskType /\ CalmTask(l, t.pc, t) /\ t.pc \in Waiting
      /\ r.login = l /\ r.op = CallOf[t.pc] /\ CalmRequest(r)
      /\ row \in Optional(UserRow)
  BY DEF TasksInv, CalmInv, TaskOk, CallOk, Pending, Awaited, RequestType
<1>2. /\ rest \in SUBSET net
      /\ \A q \in net : q.login # l => q \in rest
      /\ \A q \in rest : q.login = l => q.op \notin Bound
  BY <1>1, OnlyRequest
<1>3. ASSUME t.pc # "add_group", ~(r.op = "create_user" /\ code = 201)
      PROVE  ~t.created /\ ~Answers(l) /\ t.group = 1
  <2>1. ~t.created /\ t.group = 1
    BY <1>1, <1>3 DEF CalmTask, Waiting
  <2>2. \A q \in net : q.login = l /\ q.op = "create_user" => q = r
    BY OnlyRequest DEF Bound
  <2> QED  BY <1>3, <2>1, <2>2 DEF Answers
<1>4. ASSUME t.pc # "add_group", ~(r.op = "create_user" /\ code = 201),
             NEW u \in TaskType, u.call = t.call, u.created = t.created,
             u.group = t.group, NEW pc, pc \notin {"add_group", "rollback"},
             \/ pc \in Waiting /\ Call(l, u, pc, CallOf[pc], rest)
             \/ pc \in Ended /\ End(l, u, pc, rest)
      PROVE  CalmInv'
  <2>1. ~u.created /\ ~Answers(l) /\ u.group = 1
    BY <1>3, <1>4
  <2>2. CalmTask(l, pc, u)
    BY <1>4, <2>1 DEF CalmTask
  <2>3. u.call = login[l].call
    BY <1>4
  <2> HIDE DEF t, rest
  <2> QED  BY <1>2, <1>4, <2>1, <2>2, <2>3, CalmGoes
<1>5. {"done", "failed", "collision", "unknown_identity"} \subseteq Ended
  BY DEF Ended
<1>6. /\ {"rename", "create", "readback", "holder", "create_without_email"}
            \subseteq Waiting
      /\ CallOf["rename"] = "update_friendly_name"
      /\ CallOf["create"] = "create_user"
      /\ CallOf["readback"] = "find_by_external_id"
      /\ CallOf["holder"] = "find_by_email"
      /\ CallOf["create_without_email"] = "create_user"
      /\ CallOf["lookup"] = "find_by_external_id"
      /\ CallOf["add_group"] = "add_membership"
  BY DEF Waiting, CallOf
<1> DEFINE known == [t EXCEPT !.user = row]
           anonymous == [t EXCEPT !.email = None]
           made == [t EXCEPT !.user = row, !.created = TRUE]
           added == [t EXCEPT !.group = t.group + 1]
<1>7. /\ known \in TaskType /\ known.call = t.call
      /\ known.created = t.created /\ known.group = t.group
      /\ anonymous \in TaskType /\ anonymous.call = t.call
      /\ anonymous.created = t.created /\ anonymous.group = t.group
  BY <1>1 DEF TaskType, Optional
<1>8. ASSUME r.op = "create_user", code = 201, Created(l, t, row, rest)
      PROVE  CalmInv'
  <2>1. /\ made \in TaskType /\ made.call = t.call /\ made.user = row
        /\ made.created /\ made.group = t.group
    BY <1>1 DEF TaskType
  <2>2. t.group = 1
    <3>1. t.pc \notin {"add_group", "done"}
      BY <1>1, <1>8 DEF CallOf, Waiting
    <3> QED  BY <1>1, <3>1 DEF CalmTask
  <2>3. HasUser(l, row)
    BY <1>1, <1>8 DEF CalmRequest
  <2>4. AddGroups(l, made, rest) /\ made.call = login[l].call
    BY <1>8, <2>1 DEF Created
  <2>5. Added(l, row.username, 0)
    <3>1. Claims[l].groups \in Seq(Groups)
      BY DEF LoginClaims
    <3> QED  BY <3>1 DEF Added
  <2> HIDE DEF t, rest, row, made
  <2>6. Added(l, made.user.username, made.group - 1)
    <3>1. made.group - 1 = 0
      BY <2>1, <2>2
    <3> QED  BY <2>1, <2>5, <3>1
  <2> QED  BY <1>2, <2>1, <2>2, <2>3, <2>4, <2>6, CalmAddGroups
<1>9. CASE AfterLookup(l, t, code, row, rest)
  <2>1. t.pc = "lookup" /\ r.op = "find_by_external_id"
    BY <1>1, <1>6, <1>9 DEF AfterLookup
  <2>2. \/ End(l, t, "failed", rest) \/ End(l, t, "unknown_identity", rest)
        \/ End(l, known, "done", rest)
        \/ Call(l, known, "rename", "update_friendly_name", rest)
        \/ Call(l, t, "create", "create_user", rest)
    BY <1>9 DEF AfterLookup
  <2> HIDE DEF t, code, row, rest, known
  <2> QED  BY <1>1, <1>4, <1>5, <1>6, <1>7, <2>1, <2>2
<1>10. CASE AfterRename(l, t, code, row, rest)
  <2>1. t.pc = "rename" /\ r.op = "update_friendly_name" /\ End(l, t, "done", rest)
    BY <1>1, <1>6, <1>10 DEF AfterRename
  <2> HIDE DEF t, code, row, rest
  <2> QED  BY <1>1, <1>4, <1>5, <2>1
<1>11. CASE AfterCreate(l, t, code, row, rest)
  <2>1. t.pc = "create" /\ r.op = "create_user"
    BY <1>1, <1>6, <1>11 DEF AfterCreate
  <2>2. \/ code = 201 /\ Created(l, t, row, rest)
        \/ /\ code # 201
           /\ \/ Call(l, t, "readback", "find_by_external_id", rest)
              \/ End(l, t, "failed", rest)
    BY <1>11 DEF AfterCreate
  <2> HIDE DEF t, code, row, rest
  <2> QED  BY <1>1, <1>4, <1>5, <1>6, <1>8, <2>1, <2>2
<1>12. CASE AfterReadback(l, t, code, row, rest)
  <2>1. t.pc = "readback" /\ r.op = "find_by_external_id"
    BY <1>1, <1>6, <1>12 DEF AfterReadback
  <2>2. \/ End(l, t, "failed", rest) \/ End(l, t, "collision", rest)
        \/ End(l, known, "done", rest)
        \/ Call(l, t, "holder", "find_by_email", rest)
    BY <1>12 DEF AfterReadback
  <2> HIDE DEF t, code, row, rest, known
  <2> QED  BY <1>1, <1>4, <1>5, <1>6, <1>7, <2>1, <2>2
<1>13. CASE AfterHolder(l, t, code, row, rest)
  <2>1. t.pc = "holder" /\ r.op = "find_by_email"
    BY <1>1, <1>6, <1>13 DEF AfterHolder
  <2>2. \/ End(l, t, "failed", rest) \/ End(l, t, "collision", rest)
        \/ Call(l, anonymous, "create_without_email", "create_user", rest)
    BY <1>13 DEF AfterHolder
  <2> HIDE DEF t, code, row, rest, anonymous
  <2> QED  BY <1>1, <1>4, <1>5, <1>6, <1>7, <2>1, <2>2
<1>14. CASE AfterCreateWithoutEmail(l, t, code, row, rest)
  <2>1. t.pc = "create_without_email" /\ r.op = "create_user"
    BY <1>1, <1>6, <1>14 DEF AfterCreateWithoutEmail
  <2>2. \/ code = 201 /\ Created(l, t, row, rest)
        \/ /\ code # 201
           /\ End(l, t, "collision", rest) \/ End(l, t, "failed", rest)
    BY <1>14 DEF AfterCreateWithoutEmail
  <2> HIDE DEF t, code, row, rest
  <2> QED  BY <1>1, <1>4, <1>5, <1>8, <2>1, <2>2
<1>15. CASE AfterAddGroup(l, t, code, row, rest)
  <2>1. t.pc = "add_group" /\ r.op = "add_membership"
    BY <1>1, <1>6, <1>15 DEF AfterAddGroup
  <2>2. /\ code \in {201, 404} /\ r.user = t.user /\ r.group = t.group
        /\ Added(l, r.user.username, r.group)
    BY <1>1, <2>1 DEF CalmRequest
  <2>3. AddGroups(l, added, rest)
    BY <1>15, <2>2 DEF AfterAddGroup
  <2>4. /\ added \in TaskType /\ added.call = t.call /\ added.user = t.user
        /\ added.created = t.created /\ added.group = t.group + 1
        /\ t.group \in Nat
    <3>1. t.group + 1 \in Nat
      BY <1>1 DEF TaskType
    <3> QED  BY <1>1, <3>1 DEF TaskType
  <2>5. t.created /\ HasUser(l, t.user)
    BY <1>1, <2>1 DEF CalmTask
  <2>6. added.call = login[l].call
    BY <2>4
  <2> HIDE DEF t, code, row, rest, added
  <2>7. Added(l, added.user.username, added.group - 1) /\ added.group >= 1
    <3>1. added.group - 1 = r.group
      BY <2>2, <2>4
    <3> QED  BY <2>2, <2>4, <3>1
  <2> QED  BY <1>2, <2>3, <2>4, <2>5, <2>6, <2>7, CalmAddGroups
<1>16. CASE AfterRollback(l, t, code, row, rest)
  BY <1>1, <1>16 DEF AfterRollback, CalmTask
<1> QED  BY <1>9, <1>10, <1>11, <1>12, <1>13, <1>14, <1>15, <1>16 DEF Continue

\* The steps of a client: a reply, a start, a browser that goes away.
LEMMA CalmClient ==
    ASSUME Calm, TasksInv, CalmInv, NEW l \in Logins,
           \/ ClientStep(l) \/ ConnectError(l) \/ LostReply(l)
           \/ DropRequest(l) \/ Crash(l)
    PROVE  CalmInv'
<1> DEFINE t == login[l]
<1>1. t \in TaskType /\ TaskOk(l, t) /\ CalmTask(l, t.pc, t)
  BY DEF TasksInv, CalmInv
<1>2. ~ConnectError(l) /\ ~LostReply(l) /\ ~Crash(l)
  BY DEF Calm, CalmInv, CalmSpent, ConnectError, LostReply, Crash
<1>3. UNCHANGED vars
  BY <1>2 DEF ClientStep, StartLogin, Receive, DropRequest
<1>4. CalmSpent'
  <2>1. CASE UNCHANGED spent
    BY <2>1 DEF CalmInv, CalmSpent
  <2>2. CASE spent' = [spent EXCEPT !.drops = spent.drops + 1]
    BY <2>2 DEF CalmInv, CalmSpent
  <2> QED  BY <1>2, <2>1, <2>2 DEF ClientStep, StartLogin, Receive, DropRequest
<1>5. ASSUME t.pc \notin {"create", "create_without_email", "add_group", "done"}
      PROVE  /\ ~t.created /\ ~Answers(l) /\ t.group = 1
             /\ \A q \in net : q.login = l => q.op \notin Bound
  <2>1. ~t.created /\ t.group = 1
    BY <1>1, <1>5 DEF CalmTask
  <2>2. ASSUME NEW q \in net, q.login = l, q.op \in Bound PROVE FALSE
    <3>1. Awaited(q) /\ CallOk(q, login[q.login])
      BY <2>2 DEF CalmInv, CalmRequest, TasksInv
    <3>2. q.op = t.op /\ t.pc \in Waiting
      BY <2>2, <3>1 DEF Awaited, CallOk
    <3>3. t.op = CallOf[t.pc]
      BY <1>1, <3>2 DEF TaskOk
    <3> QED  BY <1>5, <2>2, <3>2, <3>3 DEF Waiting, CallOf, Bound
  <2> QED  BY <2>1, <2>2 DEF Answers, Bound
<1>6. CASE StartLogin(l)
  <2>1. t.pc = "start" /\ Call(l, t, "lookup", "find_by_external_id", net)
    BY <1>6 DEF StartLogin
  <2>2. "lookup" \in Waiting /\ CallOf["lookup"] = "find_by_external_id"
    BY DEF Waiting, CallOf
  <2>3. CalmTask(l, "lookup", t)
    BY <1>5, <2>1 DEF CalmTask
  <2>4. t.call = login[l].call
    OBVIOUS
  <2>5. /\ ~Answers(l) /\ \A q \in net : q.login = l => q.op \notin Bound
        /\ Call(l, t, "lookup", CallOf["lookup"], net)
    BY <1>5, <2>1, <2>2
  <2> HIDE DEF t
  <2> QED  BY <1>1, <1>3, <1>4, <2>2, <2>3, <2>4, <2>5, CalmGoes
<1>7. CASE Receive(l)
  <2>1. PICK r \in net :
          /\ Pending(l, r) /\ r.phase = "answered"
          /\ \/ /\ r.code = 500 /\ Idempotent(r) /\ login[l].attempt < MaxRetries
                /\ Resend(l, net \ {r})
             \/ Continue(l, r.code, r.row, net \ {r})
    BY <1>7 DEF Receive
  <2>2. CASE Continue(l, r.code, r.row, net \ {r})
    BY <1>3, <1>4, <2>1, <2>2, CalmContinue
  <2>3. CASE /\ r.code = 500 /\ Idempotent(r) /\ t.attempt < MaxRetries
             /\ Resend(l, net \ {r})
    <3> DEFINE next == [t EXCEPT !.call = t.call + 1, !.attempt = t.attempt + 1]
               rest == net \ {r}
    <3>1. /\ t.pc \in Waiting /\ r.op = t.op /\ t.op = CallOf[t.pc]
          /\ r.login = l
      BY <1>1, <2>1 DEF Pending, Awaited, TasksInv, CallOk, TaskOk
    <3>2. t.pc \notin {"create", "create_without_email", "add_group", "rollback"}
      <4>1. r.op \notin Bound
        BY <2>1, <2>3 DEF Idempotent, CalmInv, CalmRequest, Bound
      <4>2. t.pc # "rollback"
        BY <1>1 DEF CalmTask
      <4> QED  BY <3>1, <4>1, <4>2 DEF CallOf, Bound
    <3>3. t.pc # "done"
      BY <3>1 DEF Waiting
    <3>4. /\ login' = [login EXCEPT ![l] = next]
          /\ net' = rest \cup {Request(l, next)}
      BY <2>3 DEF Resend
    <3>5. next \in TaskType
      <4>1. t.call + 1 \in Nat /\ t.attempt + 1 \in 0 .. MaxRetries
        BY <1>1, <2>3 DEF TaskType
      <4> QED  BY <1>1, <4>1 DEF TaskType
    <3>6. /\ next.pc = t.pc /\ next.op = t.op /\ next.call = login[l].call + 1
          /\ next.user = t.user /\ next.group = t.group
          /\ next.created = t.created
      BY <1>1 DEF TaskType
    <3>7. /\ rest \in SUBSET net
          /\ \A q \in net : q.login # l => q \in rest
          /\ \A q \in rest : q.login = l => q.op \notin Bound
          /\ ~Answers(l) /\ ~t.created /\ t.group = 1
      BY <1>5, <3>1, <3>2, <3>3
    <3>8. next.op # "delete_user"
      BY <3>1, <3>2, <3>6 DEF CallOf, Waiting
    <3> HIDE DEF t, next, rest
    <3>9. CalmTask(l, next.pc, next)
      BY <3>2, <3>6, <3>7 DEF CalmTask
    <3> QED  BY <1>3, <1>4, <3>1, <3>4, <3>5, <3>6, <3>7, <3>8, <3>9, CalmMoves
  <2> QED  BY <2>1, <2>2, <2>3
<1>8. CASE DropRequest(l)
  <2> DEFINE rest == {r \in net : LateRequests \/ ~Pending(l, r)}
  <2>1. CASE t.pc \in {"lookup", "rename"} /\ End(l, t, "dropped", rest)
    <3>1. /\ rest \in SUBSET net
          /\ \A q \in net : q.login # l => q \in rest
          /\ \A q \in rest : q.login = l => q.op \notin Bound
          /\ ~Answers(l) /\ ~t.created /\ t.group = 1
      BY <1>5, <2>1 DEF Pending
    <3>2. CalmTask(l, "dropped", t)
      BY <3>1 DEF CalmTask
    <3>3. t.call = login[l].call /\ "dropped" \in Ended
      BY DEF Ended
    <3> HIDE DEF t, rest
    <3> QED  BY <1>1, <1>3, <1>4, <2>1, <3>1, <3>2, <3>3, CalmGoes
  <2>2. CASE login' = [login EXCEPT ![l].gone = TRUE] /\ UNCHANGED net
    <3> DEFINE next == [t EXCEPT !.gone = TRUE]
    <3>1. \A k \in Logins :
            /\ login'[k].pc = login[k].pc /\ login'[k].call = login[k].call
            /\ login'[k].user = login[k].user
            /\ login'[k].group = login[k].group
            /\ login'[k].created = login[k].created
      <4>1. login' = [login EXCEPT ![l] = next]
        BY <2>2
      <4>2. /\ next.pc = t.pc /\ next.call = t.call /\ next.user = t.user
            /\ next.group = t.group /\ next.created = t.created
        BY <1>1 DEF TaskType
      <4> HIDE DEF next
      <4> QED  BY <4>1, <4>2 DEF TasksInv
    <3>2. UNCHANGED <<users, groups, group_members, net>>
      BY <1>3, <2>2 DEF vars
    <3>3. \A k \in Logins : CalmTask(k, login[k].pc, login[k])'
      BY <3>1, <3>2 DEF CalmInv, CalmTask, HasUser, Added
    <3>4. ASSUME NEW q \in net' PROVE CalmRequest(q)'
      <4>1. CalmRequest(q) /\ q.login \in Logins
        BY <3>2 DEF CalmInv, TasksInv, RequestType
      <4>2. /\ HasUser(q.login, q.row) => HasUser(q.login, q.row)'
            /\ Added(q.login, q.user.username, q.group)
                  => Added(q.login, q.user.username, q.group)'
            /\ Awaited(q) => Awaited(q)'
        BY <3>1, <3>2, <4>1 DEF HasUser, Added, Awaited
      <4> QED  BY <3>1, <4>1, <4>2 DEF CalmRequest
    <3>5. \A k \in Logins : Answers(k) => Answers(k)'
      BY <3>1, <3>2 DEF Answers
    <3>6. OneRequest' /\ GroupsAreOwn'
      BY <3>2 DEF CalmInv, OneRequest, GroupsAreOwn, GroupsOf
    <3> QED  BY <1>4, <3>2, <3>3, <3>4, <3>5, <3>6 DEF CalmInv
  <2> QED  BY <1>8, <2>1, <2>2 DEF DropRequest
<1> QED  BY <1>2, <1>6, <1>7, <1>8 DEF ClientStep

\* The server answers.
LEMMA CalmAnswer ==
    ASSUME TasksInv, CalmInv, TablesKept, GroupsAreOwn',
           NEW r \in net, r.phase # "answered",
           NEW code, NEW row, Answer(r, code, row),
           r.op = "create_user" /\ code = 201 => HasUser(r.login, row)',
           r.op = "add_membership" =>
              code \in {201, 404} /\ Added(r.login, r.user.username, r.group)',
           \A n \in DOMAIN users' : n \notin DOMAIN users =>
              /\ r.op = "create_user" /\ code = 201
              /\ Claims[r.login].sub = users'[n].external_id
    PROVE  CalmInv'
<1> DEFINE served == [r EXCEPT !.phase = "answered", !.code = code, !.row = row]
           in == IF Awaited(r) THEN {served} ELSE {}
<1>1. r \in RequestType /\ CalmRequest(r)
  BY DEF TasksInv, CalmInv
<1>2. /\ served.login = r.login /\ served.call = r.call /\ served.op = r.op
      /\ served.user = r.user /\ served.group = r.group
      /\ served.phase = "answered" /\ served.code = code /\ served.row = row
  BY <1>1 DEF RequestType
<1>3. /\ net' = (net \ {r}) \cup in
      /\ UNCHANGED login /\ UNCHANGED spent
      /\ Awaited(r) => in = {served}
      /\ ~Awaited(r) => in = {}
  BY DEF Answer
<1>4. PICK s : s = served
  OBVIOUS
<1> HIDE DEF served, in
<1>5. Awaited(r) => CalmRequest(s)'
  <2>1. Awaited(r) => Awaited(s)'
    BY <1>2, <1>3, <1>4 DEF Awaited
  <2>2. r.op \in Bound => Awaited(r)
    BY <1>1 DEF CalmRequest
  <2>3. s.op # "delete_user"
    BY <1>1, <1>2, <1>4 DEF CalmRequest
  <2>4. s.op = "create_user" /\ s.code = 201 => HasUser(s.login, s.row)'
    BY <1>2, <1>4
  <2>5. s.op = "add_membership" =>
          /\ s.user = login'[s.login].user /\ s.group = login'[s.login].group
          /\ s.code \in {201, 404}
          /\ Added(s.login, s.user.username, s.group)'
    BY <1>1, <1>2, <1>3, <1>4 DEF CalmRequest
  <2> QED  BY <2>1, <2>3, <2>4, <2>5 DEF CalmRequest
<1>6. \A q \in in : q = s /\ CalmRequest(q)'
  BY <1>3, <1>4, <1>5
<1>7. ASSUME NEW n \in DOMAIN users', n \notin DOMAIN users
      PROVE  \E l \in Logins :
                Claims[l].sub = users'[n].external_id /\ Answers(l)'
  <2>1. /\ r.op = "create_user" /\ code = 201
        /\ Claims[r.login].sub = users'[n].external_id
    BY <1>7
  <2>2. s \in net'
    BY <1>1, <1>3, <1>4, <2>1 DEF CalmRequest, Bound
  <2>3. Answers(r.login)'
    BY <1>2, <1>4, <2>1, <2>2 DEF Answers
  <2> QED  BY <1>1, <2>1, <2>3 DEF RequestType
<1> DEFINE out == {r}
<1>8. /\ out \in SUBSET net /\ net' = (net \ out) \cup in
      /\ \A q \in in : \E p \in out : p.login = q.login /\ p.call = q.call
      /\ \A p, q \in in : p = q
      /\ \A q \in out : q.phase # "answered"
  BY <1>2, <1>3, <1>4, <1>6
<1> HIDE DEF out
<1> QED  BY <1>3, <1>6, <1>7, <1>8, CalmServed

\* The server's steps: nobody asks it to delete a user.
LEMMA CalmServe ==
    ASSUME TypeOK, Links, TasksInv, CalmInv, NEW r \in net, Serve(r)
    PROVE  CalmInv'
<1> DEFINE l == r.login
           t == login[l]
<1>1. /\ r \in RequestType /\ RequestOk(r) /\ CalmRequest(r)
      /\ l \in Logins /\ Claims[l] \in LoginClaims
      /\ NoInheritedGrants /\ GroupsAreOwn
  BY DEF TasksInv, RequestType, CalmInv, Links
<1>2. ASSUME UNCHANGED vars PROVE TablesKept /\ GroupsAreOwn'
  <2>1. UNCHANGED <<users, groups, group_members>>
    BY <1>2 DEF vars
  <2> QED  BY <1>1, <2>1 DEF TablesKept, GroupsAreOwn, GroupsOf
<1>3. ASSUME UNCHANGED vars PROVE \A n \in DOMAIN users' : n \in DOMAIN users
  BY <1>3 DEF vars
<1>4. CASE ServeFind(r)
  <2>1. /\ r.phase = "sent" /\ r.op \notin Bound /\ UNCHANGED vars
        /\ \E row : Answer(r, 200, row)
    BY <1>4 DEF ServeFind, Bound
  <2>2. PICK row : Answer(r, 200, row)
    BY <2>1
  <2> QED  BY <1>2, <1>3, <2>1, <2>2, CalmAnswer DEF Bound
<1> DEFINE new == Creation(r)
<1>5. /\ new.username = Claims[l].username /\ new.external_id = Claims[l].sub
      /\ Claims[l].sub \in ExternalIds
  BY <1>1 DEF Creation, LoginClaims
<1>6. CASE ServeCreate(r)
  <2>1. r.op = "create_user" /\ r.phase = "sent"
    BY <1>6 DEF ServeCreate
  <2>2. CASE CreateUser(new) /\ Answer(r, 201, Row(new.username)')
    <3>1. PICK row : row = Row(new.username)'
      OBVIOUS
    <3>2. /\ DOMAIN users' = DOMAIN users \cup {new.username}
          /\ new.username \notin DOMAIN users
          /\ users'[new.username].external_id = Claims[l].sub
          /\ \A n \in DOMAIN users : users'[n] = users[n]
          /\ UNCHANGED <<groups, group_members>>
      BY <1>5, <2>2 DEF CreateUser, UserConflict, Put
    <3>3. TablesKept
      BY <3>2 DEF TablesKept
    <3>4. GroupsAreOwn'
      BY <1>1, <3>2, <3>3, OwnKept
    <3>5. row.username = new.username
      BY <3>1 DEF Row, Creation
    <3>6. HasUser(l, row)'
      BY <3>2, <3>5 DEF HasUser
    <3>7. Answer(r, 201, row)
      BY <2>2, <3>1
    <3>8. \A n \in DOMAIN users' : n \notin DOMAIN users =>
            Claims[l].sub = users'[n].external_id
      BY <3>2
    <3> HIDE DEF new
    <3> QED  BY <2>1, <3>3, <3>4, <3>6, <3>7, <3>8, CalmAnswer
  <2>3. CASE /\ net' = (net \ {r}) \cup {[r EXCEPT !.phase = "reread"]}
             /\ UNCHANGED <<login, spent>> /\ UNCHANGED vars
    <3>1. PICK s : s = [r EXCEPT !.phase = "reread"]
      OBVIOUS
    <3>2. /\ s.login = r.login /\ s.call = r.call /\ s.op = r.op
          /\ s.phase = "reread"
      BY <1>1, <3>1 DEF RequestType
    <3>3. Awaited(s)'
      BY <1>1, <2>1, <2>3, <3>2 DEF CalmRequest, Bound, Awaited
    <3>4. CalmRequest(s)'
      BY <2>1, <3>2, <3>3 DEF CalmRequest
    <3> DEFINE out == {r}
               in == {s}
    <3>5. /\ net' = (net \ out) \cup in /\ out \in SUBSET net
          /\ \A q \in out : q.phase # "answered"
          /\ \A q \in in : CalmRequest(q)'
          /\ \A q \in in : \E p \in out : p.login = q.login /\ p.call = q.call
          /\ \A p, q \in in : p = q
          /\ UNCHANGED login /\ UNCHANGED spent
      BY <2>1, <2>3, <3>1, <3>2, <3>4
    <3> HIDE DEF out, in, new
    <3>6. /\ TablesKept /\ GroupsAreOwn'
          /\ \A n \in DOMAIN users' : n \in DOMAIN users
      BY <1>2, <1>3, <2>3
    <3>7. \A n \in DOMAIN users' : n \notin DOMAIN users =>
            \E k \in Logins :
               Claims[k].sub = users'[n].external_id /\ Answers(k)'
      BY <3>6
    <3> QED  BY <3>5, <3>6, <3>7, CalmServed
  <2> QED  BY <1>6, <2>2, <2>3 DEF ServeCreate
<1>7. CASE ServeReread(r)
  <2>1. r.op = "create_user" /\ r.phase = "reread" /\ UNCHANGED vars
    BY <1>1, <1>7 DEF ServeReread, RequestOk
  <2>2. CASE /\ new.username \in DOMAIN users
             /\ SameUser(new, users[new.username])
             /\ Answer(r, 201, Row(new.username))
    <3>1. PICK row : row = Row(new.username)
      OBVIOUS
    <3>2. row.username = new.username
      BY <3>1 DEF Row
    <3>3. users[new.username].external_id = Claims[l].sub
      BY <1>5, <2>2, NoneAssumption DEF SameUser, SameIfGiven
    <3>4. HasUser(l, row)
      BY <2>2, <3>2, <3>3 DEF HasUser
    <3>5. HasUser(l, row)'
      BY <1>2, <2>1, <3>4, PromisesKept
    <3>6. Answer(r, 201, row)
      BY <2>2, <3>1
    <3> HIDE DEF new
    <3> QED  BY <1>2, <1>3, <2>1, <3>5, <3>6, CalmAnswer
  <2>3. CASE Answer(r, 409, None)
    BY <1>2, <1>3, <2>1, <2>3, CalmAnswer
  <2> QED  BY <1>7, <2>2, <2>3 DEF ServeReread
<1>8. CASE ServeDelete(r)
  BY <1>1, <1>8 DEF ServeDelete, CalmRequest
<1>9. CASE ServeAddMembership(r)
  <2> DEFINE g == Claims[l].groups[r.group]
             n == r.user.username
  <2>1. r.op = "add_membership" /\ r.phase = "sent"
    BY <1>9 DEF ServeAddMembership
  <2>2. /\ r.user = t.user /\ r.group = t.group /\ t.pc \in Waiting
        /\ t.call = r.call
    BY <1>1, <2>1 DEF CalmRequest, Bound, Awaited
  <2>3. t.pc = "add_group"
    <3>1. t.op = r.op /\ t.op = CallOf[t.pc]
      BY <1>1, <2>2 DEF TasksInv, CallOk, TaskOk
    <3> QED  BY <2>1, <2>2, <3>1 DEF CallOf, Waiting
  <2>4. CalmTask(l, t.pc, t) /\ t.group \in Nat /\ t \in TaskType
    BY <1>1 DEF CalmInv, TasksInv, TaskType
  <2>5. /\ r.group \in DOMAIN Claims[l].groups /\ r.group \in Nat
        /\ HasUser(l, r.user) /\ Added(l, n, r.group - 1)
    BY <2>2, <2>3, <2>4 DEF CalmTask
  <2>6. n \in DOMAIN users /\ users[n].external_id = Claims[l].sub
    BY <2>5 DEF HasUser
  <2>7. g \in GroupsOf(Claims[l].sub)
    BY <1>1, <2>5 DEF GroupsOf
  <2>8. ASSUME TablesKept,
               <<g, n>> \in DOMAIN group_members' \/ g \notin DOMAIN groups'
        PROVE  Added(l, n, r.group)'
    <3>1. PICK k : k = r.group - 1
      OBVIOUS
    <3>2. Added(l, n, k)'
      BY <2>5, <2>8, <3>1, PromisesKept
    <3> SUFFICES ASSUME NEW i \in DOMAIN Claims[l].groups, i <= r.group,
                        Claims[l].groups[i] \in DOMAIN groups'
                 PROVE  <<Claims[l].groups[i], n>> \in DOMAIN group_members'
      BY DEF Added
    <3>3. CASE i = r.group
      BY <2>8, <3>3
    <3>4. CASE i # r.group
      <4>1. Claims[l].groups \in Seq(Groups)
        BY <1>1 DEF LoginClaims
      <4>2. i \in Nat
        BY <4>1
      <4>3. i <= k
        BY <2>5, <3>1, <3>4, <4>2
      <4> QED  BY <3>2, <4>3 DEF Added
    <3> QED  BY <3>3, <3>4
  <2>9. CASE AddMembership(g, n) /\ Answer(r, 201, None)
    <3>1. /\ DOMAIN group_members' = DOMAIN group_members \cup {<<g, n>>}
          /\ UNCHANGED <<users, groups>>
      BY <2>9 DEF AddMembership, Put
    <3>2. TablesKept
      BY <3>1 DEF TablesKept
    <3>3. \A k \in DOMAIN group_members' \ DOMAIN group_members :
            k[1] \in GroupsOf(users'[k[2]].external_id)
      <4>1. users'[n].external_id = Claims[l].sub
        BY <2>6, <3>1
      <4> HIDE DEF g, n
      <4> QED  BY <2>7, <3>1, <4>1
    <3>4. GroupsAreOwn'
      BY <1>1, <3>2, <3>3, OwnKept
    <3>5. Added(l, n, r.group)'
      BY <2>8, <3>1, <3>2
    <3>6. \A m \in DOMAIN users' : m \in DOMAIN users
      BY <3>1
    <3> QED  BY <2>1, <2>9, <3>2, <3>4, <3>5, <3>6, CalmAnswer
  <2>10. ASSUME NEW code \in {201, 404}, Answer(r, code, None), UNCHANGED vars,
                <<g, n>> \in DOMAIN group_members \/ g \notin DOMAIN groups
         PROVE  CalmInv'
    <3>1. <<g, n>> \in DOMAIN group_members' \/ g \notin DOMAIN groups'
      BY <2>10 DEF vars
    <3>2. TablesKept /\ GroupsAreOwn'
      BY <1>2, <2>10
    <3>3. Added(l, n, r.group)'
      BY <2>8, <3>1, <3>2
    <3> QED  BY <1>3, <2>1, <2>10, <3>2, <3>3, CalmAnswer
  <2> QED  BY <1>9, <2>6, <2>9, <2>10 DEF ServeAddMembership
<1>10. CASE ServeUpdateFriendlyName(r)
  <2>1. r.op \notin Bound /\ r.phase = "sent"
    BY <1>10 DEF ServeUpdateFriendlyName, Bound
  <2>2. CASE /\ SetFriendlyName(r.user.username, Claims[l].friendly_name)
             /\ Answer(r, 204, None)
    <3>1. /\ DOMAIN users' = DOMAIN users
          /\ \A n \in DOMAIN users : users'[n].external_id = users[n].external_id
          /\ UNCHANGED <<groups, group_members>>
      <4>1. \A n \in DOMAIN users : users[n] \in UserRecord
        BY DEF TypeOK, IsTable
      <4> QED  BY <2>2, <4>1 DEF SetFriendlyName, UserRecord
    <3>2. TablesKept
      BY <3>1 DEF TablesKept
    <3>3. GroupsAreOwn'
      BY <1>1, <3>1, <3>2, OwnKept
    <3> QED  BY <2>1, <2>2, <3>1, <3>2, <3>3, CalmAnswer DEF Bound
  <2>3. CASE Answer(r, 404, None) /\ UNCHANGED vars
    BY <1>2, <1>3, <2>1, <2>3, CalmAnswer DEF Bound
  <2> QED  BY <1>10, <2>2, <2>3 DEF ServeUpdateFriendlyName
<1> QED  BY <1>4, <1>6, <1>7, <1>8, <1>9, <1>10 DEF Serve

\* Nobody has logged in, and no step but the excluded faults breaks CalmInv.
LEMMA CalmStep ==
    ASSUME Calm, ProvisioningInv, CalmInv, [ProvNext]_provVars
    PROVE  CalmInv'
<1>1. TypeOK /\ Links /\ TasksInv
  BY DEF ProvisioningInv
<1>2. CASE UNCHANGED provVars
  <2>1. UNCHANGED <<users, groups, group_members, login, net, spent>>
    BY <1>2 DEF provVars
  <2> QED
    BY <2>1 DEF CalmInv, CalmSpent, CalmTask, HasUser, Added, CalmRequest,
                Awaited, OneRequest, Answers, GroupsAreOwn, GroupsOf
<1>3. CASE ServerStep
  BY <1>1, <1>3, CalmServe DEF ServerStep
<1>4. CASE \E r \in net : ServerError(r)
  BY <1>4 DEF Calm, CalmInv, CalmSpent, ServerError
<1>5. CASE \E l \in Logins :
             \/ ClientStep(l) \/ ConnectError(l) \/ LostReply(l)
             \/ DropRequest(l) \/ Crash(l)
  BY <1>1, <1>5, CalmClient
<1>6. ASSUME NEW g \in Groups, AdminDeleteGroup(g) PROVE CalmInv'
  <2>1. /\ DOMAIN groups' = DOMAIN groups \ {g}
        /\ DOMAIN group_members' = {k \in DOMAIN group_members : k[1] # g}
        /\ UNCHANGED users /\ UNCHANGED <<login, net, spent>>
    BY <1>6 DEF AdminDeleteGroup, DeleteGroup, CascadeDeleteGroup, Keep
  <2>2. TablesKept
    BY <2>1 DEF TablesKept
  <2>3. GroupsAreOwn'
    <3>1. NoInheritedGrants /\ GroupsAreOwn
      BY <1>1 DEF Links, CalmInv
    <3> QED  BY <2>1, <2>2, <3>1, OwnKept
  <2> DEFINE none == {}
  <2>4. /\ none \in SUBSET net /\ net' = (net \ none) \cup none
        /\ \A q : q \notin none
    BY <2>1
  <2>5. \A n \in DOMAIN users' : n \in DOMAIN users
    BY <2>1
  <2> HIDE DEF none
  <2> QED  BY <1>1, <2>1, <2>2, <2>3, <2>4, <2>5, CalmServed
<1> QED  BY <1>2, <1>3, <1>4, <1>5, <1>6 DEF ProvNext

\* The invariant of the logins that nothing but browsers and administrators
\* disturbs.
THEOREM CalmInvariant == Calm => (ProvSpec => []CalmInv)
<1> SUFFICES ASSUME Calm PROVE ProvSpec => []CalmInv
  OBVIOUS
<1>1. ProvInit => CalmInv
  <2> SUFFICES ASSUME ProvInit PROVE CalmInv
    OBVIOUS
  <2>1. CalmSpent
    BY DEF ProvInit, CalmSpent
  <2>2. ASSUME NEW l \in Logins PROVE CalmTask(l, login[l].pc, login[l])
    <3>1. login[l] = NewLogin(l)
      BY DEF ProvInit
    <3>2. /\ login[l].pc = "start" /\ login[l].group = 1
          /\ login[l].created = FALSE
      BY <3>1 DEF NewLogin
    <3> QED  BY <3>2 DEF CalmTask
  <2>3. DOMAIN users = {} /\ DOMAIN group_members = {} /\ net = {}
    BY DEF ProvInit, EmptyTable
  <2> QED  BY <2>1, <2>2, <2>3 DEF CalmInv, OneRequest, GroupsAreOwn
<1>2. ProvisioningInv /\ CalmInv /\ [ProvNext]_provVars => CalmInv'
  BY CalmStep
<1> QED  BY <1>1, <1>2, ProvisioningInvariant, PTL DEF ProvSpec

\* While no call fails, no user is ever a member of a group that its own
\* identity does not bring, although a username can be derived from two
\* identities and the memberships are added under the username alone.
THEOREM MembershipsAreOwn == Calm => (ProvSpec => []GroupsAreOwn)
<1> SUFFICES ASSUME Calm PROVE ProvSpec => []GroupsAreOwn
  OBVIOUS
<1>1. CalmInv => GroupsAreOwn
  BY DEF CalmInv
<1> QED  BY <1>1, CalmInvariant, PTL

\* While no call fails and the logins of an identity agree on its groups, a
\* user is not left without them: once no login of its identity is under way,
\* it is in every group of its claims that exists, whichever of several
\* concurrent logins created it and whichever browser went away.
THEOREM UsersGetTheirGroups ==
    Calm /\ SameGroups => (ProvSpec => []NoUserWithoutGroups)
<1> SUFFICES ASSUME Calm, SameGroups PROVE ProvSpec => []NoUserWithoutGroups
  OBVIOUS
<1>1. ProvisioningInv /\ CalmInv => NoUserWithoutGroups
  <2> SUFFICES ASSUME ProvisioningInv, CalmInv,
                      NEW n \in DOMAIN users, Quiet(users[n].external_id),
                      NEW g \in GroupsOf(users[n].external_id) \cap DOMAIN groups
               PROVE  <<g, n>> \in DOMAIN group_members
    BY DEF NoUserWithoutGroups
  <2> DEFINE x == users[n].external_id
  <2>1. PICK l \in Logins : Claims[l].sub = x /\ Answers(l)
    BY DEF CalmInv
  <2>2. login[l].pc \notin Waiting
    BY <2>1 DEF Quiet
  <2>3. login[l].created
    <3>1. \A r \in net : r.login = l => r.op # "create_user"
      BY <2>2 DEF CalmInv, CalmRequest, Bound, Awaited
    <3> QED  BY <2>1, <3>1 DEF Answers
  <2>4. CalmTask(l, login[l].pc, login[l])
    BY DEF CalmInv
  <2>5. login[l].pc = "done"
    BY <2>2, <2>3, <2>4 DEF CalmTask, Waiting
  <2> DEFINE m == login[l].user.username
             k == login[l].group - 1
  <2>6. /\ login[l].group > Len(Claims[l].groups)
        /\ m \in DOMAIN users /\ users[m].external_id = Claims[l].sub
        /\ Added(l, m, k)
    BY <2>3, <2>4, <2>5 DEF CalmTask, HasUser
  <2>7. m = n
    <3>1. UniqueIdentities /\ Claims[l].sub \in ExternalIds
      BY DEF ProvisioningInv, Links, LoginClaims
    <3>2. Claims[l].sub # None
      BY <3>1, NoneAssumption
    <3> QED  BY <2>1, <2>6, <3>1, <3>2 DEF UniqueIdentities
  <2>8. PICK j \in Logins : /\ Claims[j].sub = x
                            /\ g \in {Claims[j].groups[i] : i \in DOMAIN Claims[j].groups}
    BY DEF GroupsOf
  <2>9. g \in {Claims[l].groups[i] : i \in DOMAIN Claims[l].groups}
    BY <2>1, <2>8 DEF SameGroups
  <2>10. PICK i \in DOMAIN Claims[l].groups : g = Claims[l].groups[i]
    BY <2>9
  <2>11. i <= k
    <3>1. Claims[l].groups \in Seq(Groups) /\ login[l].group \in Nat
      BY DEF LoginClaims, ProvisioningInv, TasksInv, TaskType
    <3>2. i \in Nat /\ i <= Len(Claims[l].groups) /\ Len(Claims[l].groups) \in Nat
      BY <3>1
    <3> QED  BY <2>6, <3>1, <3>2
  <2> QED  BY <2>6, <2>7, <2>10, <2>11 DEF Added
<1> QED  BY <1>1, CalmInvariant, ProvisioningInvariant, PTL

=============================================================================
