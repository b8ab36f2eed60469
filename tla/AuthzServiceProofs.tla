------------------------- MODULE AuthzServiceProofs -------------------------
(***************************************************************************)
(* The handlers implement the store, so that the store invariant holds     *)
(* under every interleaving of requests; a list answers what was true at   *)
(* one moment of its request; an update keeps fields of one version of the *)
(* policy; and creates that are told of one user agree on who it is.       *)
(***************************************************************************)
EXTENDS AuthzService, AuthzStoreProofs

-----------------------------------------------------------------------------
(* Requests. *)

\* The body of every request is one its operation accepts.
BodyInv ==
    /\ DOMAIN req = Handlers
    /\ \A h \in Handlers : req[h].op # "idle" =>
          req[h].op \in Operations /\ req[h].body \in Bodies(req[h].op)

\* What an update_policy has read is a policy.
ReadInv ==
    \A h \in Handlers :
        At(h, "update_policy", "second") => req[h].read \in PolicyRecord

RequestInv == TypeOK /\ BodyInv /\ ReadInv

\* A step of a handler changes its own request only, and neither its operation
\* nor its body.
LEMMA StepShape ==
    ASSUME DOMAIN req = Handlers, NEW h \in Handlers, Step(h)
    PROVE  /\ DOMAIN req' = Handlers
           /\ req'[h].op = req[h].op
           /\ req'[h].body = req[h].body
           /\ \A k \in Handlers : k # h => req'[k] = req[k]
<1> USE DEF Set, Done, Second, Request
<1>1. CASE InsertUser(h)    BY <1>1 DEF InsertUser
<1>2. CASE InsertGroup(h)   BY <1>2 DEF InsertGroup
<1>3. CASE InsertPolicy(h)  BY <1>3 DEF InsertPolicy
<1>4. CASE RereadUser(h)    BY <1>4 DEF RereadUser, CreateOrExisting
<1>5. CASE RereadGroup(h)   BY <1>5 DEF RereadGroup, CreateOrExisting
<1>6. CASE RereadPolicy(h)  BY <1>6 DEF RereadPolicy, CreateOrExisting
<1>7. CASE GetPolicy(h)     BY <1>7 DEF GetPolicy
<1>8. CASE PutPolicy(h)     BY <1>8 DEF PutPolicy
<1>9. CASE FetchPage(h)     BY <1>9 DEF FetchPage
<1>10. CASE CheckOwner(h)   BY <1>10 DEF CheckOwner
<1>11. CASE BackendError(h) BY <1>11 DEF BackendError
<1>12. CASE RequestTimeout(h) BY <1>12 DEF RequestTimeout
<1> QED
  BY <1>1, <1>2, <1>3, <1>4, <1>5, <1>6, <1>7, <1>8, <1>9, <1>10, <1>11,
     <1>12 DEF Step

\* Every step of the service keeps the bodies well formed.
LEMMA BodyStep == BodyInv /\ [ServiceNext]_serviceVars => BodyInv'
<1> SUFFICES ASSUME BodyInv, [ServiceNext]_serviceVars PROVE BodyInv'
  OBVIOUS
<1>1. ASSUME NEW h \in Handlers, NEW op \in Operations,
             NEW body \in Bodies(op), Receive(h, op, body)
      PROVE  BodyInv'
  <2>1. /\ DOMAIN req' = Handlers
        /\ req'[h].op = op /\ req'[h].body = body
        /\ \A k \in Handlers : k # h => req'[k] = req[k]
    BY <1>1 DEF Receive, Set, Start, Request, BodyInv
  <2> QED  BY <2>1 DEF BodyInv
<1>2. ASSUME NEW h \in Handlers, Step(h) PROVE BodyInv'
  BY <1>2, StepShape DEF BodyInv
<1>3. ASSUME NEW h \in Handlers, Reply(h) PROVE BodyInv'
  BY <1>3 DEF Reply, Set, Idle, BodyInv
<1>4. CASE OtherRequest
  BY <1>4 DEF OtherRequest, BodyInv
<1>5. CASE UNCHANGED serviceVars
  BY <1>5 DEF serviceVars, BodyInv
<1> QED  BY <1>1, <1>2, <1>3, <1>4, <1>5 DEF ServiceNext

-----------------------------------------------------------------------------
(* Refinement. *)

\* A step of a handler is one call of the store, or none.
LEMMA HandlerStep ==
    ASSUME BodyInv, ReadInv, NEW h \in Handlers, Step(h)
    PROVE  [Next]_vars
<1>1. CASE InsertUser(h)
  <2>1. req[h].body \in NewUser
    BY <1>1 DEF InsertUser, At, BodyInv, Bodies
  <2>2. \/ CreateUser(req[h].body) \/ BurnUserId(req[h].body)
        \/ UNCHANGED vars
    BY <1>1 DEF InsertUser
  <2> QED  BY <2>1, <2>2 DEF Next, UserNext
<1>2. CASE InsertGroup(h)
  <2> DEFINE b == req[h].body
             record == [description |-> b.description]
  <2>1. b.id \in Groups /\ record \in GroupRecord
    BY <1>2 DEF InsertGroup, At, BodyInv, Bodies, GroupRecord
  <2>2. CreateGroup(b.id, record) \/ UNCHANGED vars
    BY <1>2 DEF InsertGroup
  <2> HIDE DEF b, record
  <2> QED  BY <2>1, <2>2 DEF Next, GroupNext
<1>3. CASE InsertPolicy(h)
  <2> DEFINE b == req[h].body
             record == [creation_date |-> b.creation_date,
                        statement |-> b.statement, acl |-> b.acl]
  <2>1. b.name \in Policies /\ record \in PolicyRecord
    BY <1>3 DEF InsertPolicy, At, BodyInv, Bodies, PolicyRecord
  <2>2. CreatePolicy(b.name, record) \/ UNCHANGED vars
    BY <1>3 DEF InsertPolicy
  <2> HIDE DEF b, record
  <2> QED  BY <2>1, <2>2 DEF Next, PolicyNext
<1>4. CASE RereadUser(h) \/ RereadGroup(h) \/ RereadPolicy(h)
  BY <1>4 DEF RereadUser, RereadGroup, RereadPolicy, CreateOrExisting
<1>5. CASE GetPolicy(h) \/ FetchPage(h) \/ CheckOwner(h)
  BY <1>5 DEF GetPolicy, FetchPage, CheckOwner
<1>6. CASE BackendError(h) \/ RequestTimeout(h)
  BY <1>6 DEF BackendError, RequestTimeout
<1>7. CASE PutPolicy(h)
  <2> DEFINE b == req[h].body
             record == ValidatedPolicy(b, req[h].read)
  <2>1. /\ b.name \in Policies /\ b.statement \in Statements
        /\ b.creation_date \in Optional(Dates) /\ b.acl \in Optional(Acls)
        /\ req[h].read \in PolicyRecord
    BY <1>7 DEF PutPolicy, At, BodyInv, ReadInv, Bodies
  <2>2. record \in PolicyRecord
    BY <2>1 DEF ValidatedPolicy, PolicyRecord, Optional
  <2>3. UpdatePolicy(b.name, record) \/ UNCHANGED vars
    BY <1>7 DEF PutPolicy
  <2> HIDE DEF b, record
  <2> QED  BY <2>1, <2>2, <2>3 DEF Next, PolicyNext
<1> QED  BY <1>1, <1>2, <1>3, <1>4, <1>5, <1>6, <1>7 DEF Step

\* Every step of the service is one call of the store, or none.
LEMMA ServiceStep ==
    RequestInv /\ [ServiceNext]_serviceVars => [Next]_vars
<1> SUFFICES ASSUME RequestInv, [ServiceNext]_serviceVars PROVE [Next]_vars
  OBVIOUS
<1>1. ASSUME NEW h \in Handlers, NEW op \in Operations,
             NEW body \in Bodies(op), Receive(h, op, body)
      PROVE  UNCHANGED vars
  BY <1>1 DEF Receive
<1>2. ASSUME NEW h \in Handlers, Step(h) PROVE [Next]_vars
  BY <1>2, HandlerStep DEF RequestInv
<1>3. ASSUME NEW h \in Handlers, Reply(h) PROVE UNCHANGED vars
  BY <1>3 DEF Reply
<1>4. CASE OtherRequest
  BY <1>4 DEF OtherRequest
<1>5. CASE UNCHANGED serviceVars
  BY <1>5 DEF serviceVars, vars
<1> QED  BY <1>1, <1>2, <1>3, <1>4, <1>5 DEF ServiceNext

\* A row that update_policy reads is a policy, because the tables are typed.
LEMMA ReadStep == RequestInv /\ [ServiceNext]_serviceVars => ReadInv'
<1> SUFFICES ASSUME RequestInv, [ServiceNext]_serviceVars,
                    NEW k \in Handlers, At(k, "update_policy", "second")'
             PROVE  req'[k].read \in PolicyRecord
  BY DEF ReadInv
<1> USE DEF RequestInv, BodyInv, ReadInv, At, Set, Done, Second, Request
<1>1. CASE req'[k] = req[k]
  BY <1>1
<1>2. ASSUME NEW h \in Handlers, NEW op \in Operations,
             NEW body \in Bodies(op), Receive(h, op, body)
      PROVE  req'[k].read \in PolicyRecord
  BY <1>2 DEF Receive, Start
<1>3. ASSUME NEW h \in Handlers, GetPolicy(h)
      PROVE  req'[k].read \in PolicyRecord
  BY <1>3 DEF GetPolicy, TypeOK, IsTable
<1>4. ASSUME NEW h \in Handlers,
             InsertUser(h) \/ InsertGroup(h) \/ InsertPolicy(h)
      PROVE  req'[k].read \in PolicyRecord
  BY <1>4 DEF InsertUser, InsertGroup, InsertPolicy
<1>5. ASSUME NEW h \in Handlers,
             RereadUser(h) \/ RereadGroup(h) \/ RereadPolicy(h)
      PROVE  req'[k].read \in PolicyRecord
  BY <1>5 DEF RereadUser, RereadGroup, RereadPolicy, CreateOrExisting
<1>6. ASSUME NEW h \in Handlers,
             PutPolicy(h) \/ FetchPage(h) \/ CheckOwner(h)
      PROVE  req'[k].read \in PolicyRecord
  BY <1>6 DEF PutPolicy, FetchPage, CheckOwner
<1>7. ASSUME NEW h \in Handlers, BackendError(h) \/ RequestTimeout(h)
      PROVE  req'[k].read \in PolicyRecord
  BY <1>7 DEF BackendError, RequestTimeout
<1>8. ASSUME NEW h \in Handlers, Reply(h)
      PROVE  req'[k].read \in PolicyRecord
  BY <1>8 DEF Reply, Idle
<1>9. CASE OtherRequest \/ UNCHANGED serviceVars
  BY <1>1, <1>9 DEF OtherRequest, serviceVars
<1> QED
  BY <1>2, <1>3, <1>4, <1>5, <1>6, <1>7, <1>8, <1>9 DEF ServiceNext, Step

\* The requests in flight are well formed and the tables typed, always.
LEMMA RequestsCorrect == ServiceSpec => []RequestInv
<1>1. ServiceInit => RequestInv
  <2> SUFFICES ASSUME ServiceInit PROVE RequestInv
    OBVIOUS
  <2>1. TypeOK
    BY InitTypeOK DEF ServiceInit
  <2>2. BodyInv /\ ReadInv
    BY DEF ServiceInit, BodyInv, ReadInv, At, Idle
  <2> QED  BY <2>1, <2>2 DEF RequestInv
<1>2. RequestInv /\ [ServiceNext]_serviceVars => RequestInv'
  BY ServiceStep, TypeStep, BodyStep, ReadStep DEF RequestInv
<1> QED  BY <1>1, <1>2, PTL DEF ServiceSpec

\* The handlers implement the store: whatever requests interleave, the tables
\* take the steps of AuthzStore only.
THEOREM ServiceImplementsStore == ServiceSpec => ImplementsStore
<1>1. ServiceInit => Init
  BY DEF ServiceInit
<1> QED
  BY <1>1, ServiceStep, RequestsCorrect, PTL
  DEF ServiceSpec, Spec, ImplementsStore

\* So the store invariant holds under every interleaving of the handlers.
THEOREM ServiceKeepsStoreInv == ServiceSpec => []StoreInv
BY ServiceImplementsStore, StoreCorrect DEF ImplementsStore

-----------------------------------------------------------------------------
(* Lists. *)

EmptyPage == [code |-> 200, rows |-> {}]

\* A page with rows proves that its owner exists: the rows of the user or the
\* group went with it when it was deleted.
LEMMA RowsProveOwner ==
    ASSUME StoreInv, NEW list \in Lists, NEW owner,
           ListRows(list, owner) # {}
    PROVE  OwnerExists(list, owner)
BY DEF StoreInv, ReferentialIntegrity, NoInheritedGrants, Lists, ListRows,
       ListEffectiveUserPolicies, OwnerExists

\* A step that makes a user appear leaves the tables of grants alone.
LEMMA NewUserStep ==
    ASSUME [Next]_vars, NEW n, n \notin DOMAIN users, n \in DOMAIN users'
    PROVE  UNCHANGED <<group_members, user_policies, group_policies,
                       credentials, external_principals>>
<1>1. ASSUME UNCHANGED users PROVE FALSE
  BY <1>1
<1>2. CASE UserNext
  BY <1>2 DEF UserNext, CreateUser, BurnUserId, DeleteUser, Keep,
              SetFriendlyName
<1>3. CASE GroupNext \/ PolicyNext
  BY <1>1, <1>3 DEF GroupNext, CreateGroup, DeleteGroup, PolicyNext,
                    CreatePolicy, UpdatePolicy, DeletePolicy
<1>4. CASE AttachmentNext
  BY <1>1, <1>4 DEF AttachmentNext, AddMembership, RemoveMembership,
                    AttachPolicyToUser, DetachPolicyFromUser,
                    AttachPolicyToGroup, DetachPolicyFromGroup
<1>5. CASE CredentialNext
  BY <1>1, <1>5 DEF CredentialNext, CreateCredential, DeleteCredential,
                    CreateExternalPrincipal, DeleteExternalPrincipal
<1>6. CASE UNCHANGED vars
  BY <1>1, <1>6 DEF vars
<1> QED  BY <1>2, <1>3, <1>4, <1>5, <1>6 DEF Next

\* A step that makes a group appear leaves the tables of grants alone.
LEMMA NewGroupStep ==
    ASSUME [Next]_vars, NEW g, g \notin DOMAIN groups, g \in DOMAIN groups'
    PROVE  UNCHANGED <<group_members, group_policies>>
<1>1. ASSUME UNCHANGED groups PROVE FALSE
  BY <1>1
<1>2. CASE GroupNext
  BY <1>2 DEF GroupNext, CreateGroup, DeleteGroup, Keep
<1>3. CASE UserNext \/ PolicyNext
  BY <1>1, <1>3 DEF UserNext, CreateUser, BurnUserId, DeleteUser,
                    SetFriendlyName, PolicyNext, CreatePolicy, UpdatePolicy,
                    DeletePolicy
<1>4. CASE AttachmentNext
  BY <1>1, <1>4 DEF AttachmentNext, AddMembership, RemoveMembership,
                    AttachPolicyToUser, DetachPolicyFromUser,
                    AttachPolicyToGroup, DetachPolicyFromGroup
<1>5. CASE CredentialNext
  BY <1>1, <1>5 DEF CredentialNext, CreateCredential, DeleteCredential,
                    CreateExternalPrincipal, DeleteExternalPrincipal
<1>6. CASE UNCHANGED vars
  BY <1>1, <1>6 DEF vars
<1> QED  BY <1>2, <1>3, <1>4, <1>5, <1>6 DEF Next

\* A user or a group that has just been created has no rows in any list.
LEMMA NewOwnerEmpty ==
    ASSUME StoreInv, [Next]_vars, NEW list \in Lists, NEW owner,
           ~OwnerExists(list, owner), OwnerExists(list, owner)'
    PROVE  ListRows(list, owner)' = {}
<1>1. CASE list \in {"group_members", "group_policies"}
  <2>1. UNCHANGED <<group_members, group_policies>>
    BY <1>1, NewGroupStep DEF OwnerExists
  <2>2. \A k \in DOMAIN group_members : k[1] # owner
    BY <1>1 DEF OwnerExists, StoreInv, ReferentialIntegrity
  <2>3. \A k \in group_policies : k[1] # owner
    BY <1>1 DEF OwnerExists, StoreInv, ReferentialIntegrity
  <2> QED  BY <1>1, <2>1, <2>2, <2>3 DEF ListRows
<1>2. CASE list \notin {"group_members", "group_policies"}
  <2>1. UNCHANGED <<group_members, user_policies, group_policies,
                    credentials, external_principals>>
    BY <1>2, NewUserStep DEF OwnerExists
  <2>2. /\ \A k \in DOMAIN group_members : k[2] # owner
        /\ \A k \in DOMAIN user_policies : k[1] # owner
        /\ \A k \in DOMAIN credentials : credentials[k].username # owner
        /\ \A i \in DOMAIN external_principals :
              external_principals[i].username # owner
    BY <1>2 DEF OwnerExists, StoreInv, NoInheritedGrants
  <2> QED
    BY <1>2, <2>1, <2>2 DEF ListRows, Lists, ListEffectiveUserPolicies
<1> QED  BY <1>1, <1>2

\* While a list waits for its second call, an owner that exists had an empty
\* page at some moment of the request.
WaitingList(h) ==
    At(h, "list", "second") =>
        (OwnerExists(req[h].body.list, req[h].body.owner)
            => EmptyPage \in seen[h])

TrueAnswer(h) ==
    req[h].op = "list" /\ Finished(req[h]) =>
        /\ req[h].code = 200 =>
              [code |-> 200, rows |-> req[h].answer] \in seen[h]
        /\ req[h].code = 404 => NotFound \in seen[h]

ListInv == \A h \in Handlers : WaitingList(h) /\ TrueAnswer(h)

\* A list that goes on keeps what it has seen and adds the present moment.
LEMMA Observed ==
    ASSUME Observe, NEW h \in Handlers,
           req[h].op = "list", req'[h].op = "list", req'[h].body = req[h].body
    PROVE  LET list == req[h].body.list
               owner == req[h].body.owner
           IN /\ seen[h] \subseteq seen'[h]
              /\ OwnerExists(list, owner)' =>
                    [code |-> 200, rows |-> ListRows(list, owner)'] \in seen'[h]
              /\ ~OwnerExists(list, owner)' => NotFound \in seen'[h]
<1>1. seen'[h] = seen[h] \cup {Truth(req[h])'}
  BY DEF Observe, Running
<1>2. Truth(req[h])' =
        IF OwnerExists(req[h].body.list, req[h].body.owner)'
        THEN [code |-> 200,
              rows |-> ListRows(req[h].body.list, req[h].body.owner)']
        ELSE NotFound
  BY DEF Truth, NotFound
<1> QED  BY <1>1, <1>2

\* Every step that changes something is observed.
LEMMA StepsObserved ==
    ASSUME ServiceNext PROVE Observe
BY DEF ServiceNext, Receive, Step, InsertUser, RereadUser, InsertGroup,
       RereadGroup, InsertPolicy, RereadPolicy, CreateOrExisting, GetPolicy,
       PutPolicy, FetchPage, CheckOwner, BackendError, RequestTimeout, Reply,
       OtherRequest

\* The body of a list names one of the lists.
LEMMA ListBody ==
    ASSUME BodyInv, NEW h \in Handlers, req[h].op = "list"
    PROVE  req[h].body.list \in Lists
<1>1. req[h].body \in UNION {[list : {l}, owner : ListOwners(l)] : l \in Lists}
  BY DEF BodyInv, Bodies
<1>2. PICK l \in Lists : req[h].body \in [list : {l}, owner : ListOwners(l)]
  BY <1>1
<1> QED  BY <1>2

\* A list whose own request does not move keeps its invariant: an owner that
\* appears meanwhile has no rows, so its empty page is seen.
LEMMA ListWaits ==
    ASSUME StoreInv, BodyInv, [Next]_vars, Observe, NEW h \in Handlers,
           WaitingList(h), TrueAnswer(h), req'[h] = req[h]
    PROVE  WaitingList(h)' /\ TrueAnswer(h)'
<1>1. CASE req[h].op # "list"
  BY <1>1 DEF WaitingList, TrueAnswer, At
<1>2. CASE req[h].op = "list"
  <2> DEFINE list == req[h].body.list
             owner == req[h].body.owner
  <2>1. list \in Lists
    BY <1>2, ListBody
  <2>2. /\ seen[h] \subseteq seen'[h]
        /\ OwnerExists(list, owner)' =>
              [code |-> 200, rows |-> ListRows(list, owner)'] \in seen'[h]
    BY <1>2, Observed
  <2>3. TrueAnswer(h)'
    BY <2>2 DEF TrueAnswer, Finished
  <2>4. ASSUME req[h].phase = "second", OwnerExists(list, owner)'
        PROVE  EmptyPage \in seen'[h]
    <3>1. CASE OwnerExists(list, owner)
      BY <1>2, <2>2, <2>4, <3>1 DEF WaitingList, At
    <3>2. CASE ~OwnerExists(list, owner)
      <4>1. ListRows(list, owner)' = {}
        BY <2>1, <2>4, <3>2, NewOwnerEmpty
      <4> QED  BY <2>2, <2>4, <4>1 DEF EmptyPage
    <3> QED  BY <3>1, <3>2
  <2>5. WaitingList(h)'
    BY <2>4 DEF WaitingList, At
  <2> QED  BY <2>3, <2>5
<1> QED  BY <1>1, <1>2

\* The two calls of a list: rows prove their owner, and an empty page of an
\* owner that exists was seen.
LEMMA ListMoves ==
    ASSUME StoreInv, BodyInv, NEW h \in Handlers, WaitingList(h),
           FetchPage(h) \/ CheckOwner(h)
    PROVE  WaitingList(h)' /\ TrueAnswer(h)'
<1> DEFINE list == req[h].body.list
           owner == req[h].body.owner
<1>1. /\ req[h].op = "list" /\ req'[h].op = "list"
      /\ req'[h].body = req[h].body
      /\ Observe /\ UNCHANGED vars
  BY DEF FetchPage, CheckOwner, At, Set, Done, Second, Request, BodyInv
<1>2. list \in Lists
  BY <1>1, ListBody
<1>3. /\ OwnerExists(list, owner)' = OwnerExists(list, owner)
      /\ ListRows(list, owner)' = ListRows(list, owner)
  BY <1>1 DEF OwnerExists, ListRows, ListEffectiveUserPolicies, vars
<1>4. /\ seen[h] \subseteq seen'[h]
      /\ OwnerExists(list, owner) =>
            [code |-> 200, rows |-> ListRows(list, owner)] \in seen'[h]
      /\ ~OwnerExists(list, owner) => NotFound \in seen'[h]
  BY <1>1, <1>3, Observed
<1>5. CASE FetchPage(h)
  <2>1. CASE ListRows(list, owner) # {}
    <3>1. OwnerExists(list, owner)
      BY <1>2, <2>1, RowsProveOwner
    <3>2. /\ req'[h].phase = "done" /\ req'[h].code = 200
          /\ req'[h].answer = ListRows(list, owner)
      BY <1>5, <2>1 DEF FetchPage, Set, Done, Request, BodyInv
    <3> QED  BY <1>4, <3>1, <3>2 DEF WaitingList, TrueAnswer, At, Finished
  <2>2. CASE ListRows(list, owner) = {}
    <3>1. req'[h].phase = "second"
      BY <1>5, <2>2 DEF FetchPage, Set, Second, Request, BodyInv
    <3>2. OwnerExists(list, owner)' => EmptyPage \in seen'[h]
      BY <1>3, <1>4, <2>2 DEF EmptyPage
    <3> QED
      BY <1>1, <3>1, <3>2 DEF WaitingList, TrueAnswer, At, Finished
  <2> QED  BY <2>1, <2>2
<1>6. CASE CheckOwner(h)
  <2>1. req'[h].phase = "done"
    BY <1>6 DEF CheckOwner, Set, Done, Request, BodyInv
  <2>2. CASE OwnerExists(list, owner)
    <3>1. req'[h].code = 200 /\ req'[h].answer = {}
      BY <1>6, <2>2 DEF CheckOwner, Set, Done, Request, BodyInv
    <3>2. EmptyPage \in seen'[h]
      BY <1>4, <1>6, <2>2 DEF WaitingList, CheckOwner
    <3> QED
      BY <2>1, <3>1, <3>2
      DEF WaitingList, TrueAnswer, At, Finished, EmptyPage
  <2>3. CASE ~OwnerExists(list, owner)
    <3>1. req'[h].code = 404
      BY <1>6, <2>3 DEF CheckOwner, Set, Done, Request, BodyInv
    <3> QED
      BY <1>4, <2>1, <2>3, <3>1 DEF WaitingList, TrueAnswer, At, Finished
  <2> QED  BY <2>2, <2>3
<1> QED  BY <1>5, <1>6

\* Every other step of a request is no concern of a list, or ends it with an
\* error.
LEMMA ListSpared ==
    ASSUME BodyInv, NEW h \in Handlers,
           \/ \E op \in Operations : \E body \in Bodies(op) :
                 Receive(h, op, body)
           \/ Step(h) /\ ~FetchPage(h) /\ ~CheckOwner(h)
           \/ Reply(h)
    PROVE  WaitingList(h)' /\ TrueAnswer(h)'
<1> USE DEF WaitingList, TrueAnswer, At, Finished, Set, Done, Second, Request,
            BodyInv
<1>1. CASE \E op \in Operations : \E body \in Bodies(op) : Receive(h, op, body)
  BY <1>1 DEF Receive, Start
<1>2. CASE Reply(h)
  BY <1>2 DEF Reply, Idle
<1>3. CASE BackendError(h) \/ RequestTimeout(h)
  BY <1>3 DEF BackendError, RequestTimeout
<1>4. CASE InsertUser(h) \/ InsertGroup(h) \/ InsertPolicy(h)
  BY <1>4 DEF InsertUser, InsertGroup, InsertPolicy
<1>5. CASE RereadUser(h) \/ RereadGroup(h) \/ RereadPolicy(h)
  BY <1>5 DEF RereadUser, RereadGroup, RereadPolicy, CreateOrExisting
<1>6. CASE GetPolicy(h) \/ PutPolicy(h)
  BY <1>6 DEF GetPolicy, PutPolicy
<1> QED  BY <1>1, <1>2, <1>3, <1>4, <1>5, <1>6 DEF Step

\* Only the steps of a handler change its request.
LEMMA WhoMoves ==
    ASSUME BodyInv, ServiceNext, NEW k \in Handlers, req'[k] # req[k]
    PROVE  \/ \E op \in Operations : \E body \in Bodies(op) :
                 Receive(k, op, body)
           \/ Step(k) \/ Reply(k)
<1>1. ASSUME NEW h \in Handlers, h # k,
             \/ \E op \in Operations : \E body \in Bodies(op) :
                   Receive(h, op, body)
             \/ Step(h) \/ Reply(h)
      PROVE  FALSE
  <2>1. CASE Step(h)
    BY <1>1, <2>1, StepShape DEF BodyInv
  <2>2. CASE Reply(h)
    BY <1>1, <2>2 DEF Reply, Set, BodyInv
  <2>3. CASE \E op \in Operations : \E body \in Bodies(op) :
                Receive(h, op, body)
    BY <1>1, <2>3 DEF Receive, Set, BodyInv
  <2> QED  BY <1>1, <2>1, <2>2, <2>3
<1>2. ~OtherRequest
  BY DEF OtherRequest
<1> QED  BY <1>1, <1>2 DEF ServiceNext

\* Every step of the service keeps the invariant of the lists.
LEMMA ListStep ==
    ASSUME StoreInv, RequestInv, ListInv, [ServiceNext]_serviceVars
    PROVE  ListInv'
<1> SUFFICES ASSUME NEW k \in Handlers PROVE WaitingList(k)' /\ TrueAnswer(k)'
  BY DEF ListInv
<1>0. WaitingList(k) /\ TrueAnswer(k) /\ BodyInv
  BY DEF ListInv, RequestInv
<1>1. CASE UNCHANGED serviceVars
  BY <1>0, <1>1
  DEF serviceVars, WaitingList, TrueAnswer, At, Finished, OwnerExists
<1>2. CASE ServiceNext
  <2>1. [Next]_vars /\ Observe
    BY <1>2, ServiceStep, StepsObserved
  <2>2. CASE req'[k] = req[k]
    BY <1>0, <2>1, <2>2, ListWaits
  <2>3. CASE req'[k] # req[k]
    BY <1>0, <1>2, <2>3, WhoMoves, ListMoves, ListSpared
  <2> QED  BY <2>2, <2>3
<1> QED  BY <1>1, <1>2

\* What a list of a user or a group answers was true at one moment of the
\* request, for any number of requests that interleave with its two reads.
THEOREM ListsAnswerTrue == ServiceSpec => []ListAnswersTrue
<1>1. ServiceInit => ListInv
  BY DEF ServiceInit, Idle, ListInv, WaitingList, TrueAnswer, At, Finished
<1>2. StoreInv /\ RequestInv /\ ListInv /\ [ServiceNext]_serviceVars
        => ListInv'
  BY ListStep
<1>3. ListInv => ListAnswersTrue
  BY DEF ListInv, TrueAnswer, ListAnswersTrue
<1> QED
  BY <1>1, <1>2, <1>3, ServiceKeepsStoreInv, RequestsCorrect, PTL
  DEF ServiceSpec

-----------------------------------------------------------------------------
(* What update_policy keeps. *)

ProgressInv ==
    \A h \in Handlers : Running(req[h]) =>
        /\ req[h].phase \in {"first", "second", "done"}
        /\ req[h].code \in {0, 200, 201, 404, 408, 409, 500}

\* The fields that an update may keep were stored together at a moment of the
\* request: those it has read, and in the end those it wrote.
ReadWasStored(h) ==
    At(h, "update_policy", "second") =>
        \E t \in seen[h] : /\ t.code = 200
                           /\ t.acl = req[h].read.acl
                           /\ t.creation_date = req[h].read.creation_date

KeptWasStored(h) ==
    /\ req[h].op = "update_policy"
    /\ Finished(req[h])
    /\ req[h].code = 200
    => LET b == req[h].body
           written == req[h].answer
       IN \E t \in seen[h] :
             /\ t.code = 200
             /\ b.acl = None => written.acl = t.acl
             /\ b.creation_date = None =>
                   written.creation_date = t.creation_date

KeptInv == \A h \in Handlers : ReadWasStored(h) /\ KeptWasStored(h)

\* Every step keeps the phases and the codes among those of the handlers.
LEMMA ProgressStep ==
    ASSUME RequestInv, ProgressInv, [ServiceNext]_serviceVars
    PROVE  ProgressInv'
<1> SUFFICES ASSUME NEW k \in Handlers, Running(req'[k])
             PROVE  /\ req'[k].phase \in {"first", "second", "done"}
                    /\ req'[k].code \in {0, 200, 201, 404, 408, 409, 500}
  BY DEF ProgressInv, Running
<1>0. BodyInv
  BY DEF RequestInv
<1>1. CASE req'[k] = req[k]
  BY <1>1 DEF ProgressInv
<1>2. CASE req'[k] # req[k] /\ ServiceNext
  <2> USE DEF Set, Start, Done, Second, Request, BodyInv
  <2>1. CASE \E op \in Operations : \E body \in Bodies(op) :
                Receive(k, op, body)
    BY <1>0, <2>1 DEF Receive
  <2>2. CASE Reply(k)
    BY <1>0, <2>2 DEF Reply, Idle, Running
  <2>3. CASE BackendError(k) \/ RequestTimeout(k)
    BY <1>0, <2>3 DEF BackendError, RequestTimeout
  <2>4. CASE InsertUser(k) \/ InsertGroup(k) \/ InsertPolicy(k)
    BY <1>0, <2>4 DEF InsertUser, InsertGroup, InsertPolicy
  <2>5. CASE RereadUser(k) \/ RereadGroup(k) \/ RereadPolicy(k)
    BY <1>0, <2>5 DEF RereadUser, RereadGroup, RereadPolicy, CreateOrExisting
  <2>6. CASE GetPolicy(k) \/ PutPolicy(k)
    BY <1>0, <2>6 DEF GetPolicy, PutPolicy
  <2>7. CASE FetchPage(k) \/ CheckOwner(k)
    BY <1>0, <2>7 DEF FetchPage, CheckOwner
  <2> QED
    BY <1>0, <1>2, <2>1, <2>2, <2>3, <2>4, <2>5, <2>6, <2>7, WhoMoves DEF Step
<1> QED  BY <1>1, <1>2 DEF serviceVars

\* An update that goes on keeps what it has seen, and adds the present moment
\* unless it has just ended.
LEMMA UpdateObserved ==
    ASSUME Observe, NEW h \in Handlers,
           req[h].op = "update_policy", req'[h].op = "update_policy"
    PROVE  /\ seen[h] \subseteq seen'[h]
           /\ ~Finished(req'[h]) => Truth(req[h])' \in seen'[h]
<1>1. seen'[h] = IF Finished(req'[h]) THEN seen[h]
                 ELSE seen[h] \cup {Truth(req[h])'}
  BY DEF Observe, Running
<1> QED  BY <1>1

\* The first call: what it reads is seen.
LEMMA GetPolicyKeeps ==
    ASSUME BodyInv, NEW h \in Handlers, GetPolicy(h)
    PROVE  ReadWasStored(h)' /\ KeptWasStored(h)'
<1> DEFINE p == req[h].body.name
<1>1. /\ req[h].op = "update_policy" /\ Observe /\ policies' = policies
      /\ req'[h] = IF p \in DOMAIN policies THEN Second(req[h], policies[p])
                   ELSE Done(req[h], 404, None)
  BY DEF GetPolicy, At, Set, BodyInv, vars
<1>2. CASE p \in DOMAIN policies
  <2>1. /\ req'[h].op = "update_policy" /\ req'[h].phase = "second"
        /\ req'[h].body.name = p /\ req'[h].read = policies[p]
    BY <1>1, <1>2 DEF Second, Request
  <2>2. ~Finished(req'[h])
    BY <2>1 DEF Finished
  <2> DEFINE t == [code |-> 200, acl |-> policies[p].acl,
                   creation_date |-> policies[p].creation_date]
  <2>3. Truth(req[h])' = t
    BY <1>1, <1>2, <2>1 DEF Truth
  <2>4. t \in seen'[h]
    BY <1>1, <2>1, <2>2, <2>3, UpdateObserved
  <2>5. t.code = 200 /\ t.acl = req'[h].read.acl
        /\ t.creation_date = req'[h].read.creation_date
    BY <2>1
  <2> HIDE DEF t
  <2> QED  BY <2>2, <2>4, <2>5 DEF ReadWasStored, KeptWasStored
<1>3. CASE p \notin DOMAIN policies
  BY <1>1, <1>3 DEF Done, Request, ReadWasStored, KeptWasStored, At
<1> QED  BY <1>2, <1>3

\* The second call: what it writes for the fields left out is what it read.
LEMMA PutPolicyKeeps ==
    ASSUME BodyInv, NEW h \in Handlers, ReadWasStored(h), PutPolicy(h)
    PROVE  ReadWasStored(h)' /\ KeptWasStored(h)'
<1> DEFINE b == req[h].body
           record == ValidatedPolicy(b, req[h].read)
<1>1. /\ req[h].op = "update_policy" /\ req[h].phase = "second" /\ Observe
      /\ \/ req'[h] = Done(req[h], 200, record)
         \/ req'[h] = Done(req[h], 404, None)
  BY DEF PutPolicy, At, Set, BodyInv
<1>2. /\ req'[h].op = "update_policy" /\ req'[h].phase = "done"
      /\ req'[h].body = b
      /\ req'[h].code = 200 => req'[h].answer = record
  BY <1>1 DEF Done, Request
<1>3. PICK t \in seen[h] : /\ t.code = 200
                           /\ t.acl = req[h].read.acl
                           /\ t.creation_date = req[h].read.creation_date
  BY <1>1 DEF ReadWasStored, At
<1>4. t \in seen'[h]
  BY <1>1, <1>2, <1>3, UpdateObserved
<1>5. /\ b.acl = None => record.acl = t.acl
      /\ b.creation_date = None => record.creation_date = t.creation_date
  BY <1>3 DEF ValidatedPolicy
<1> QED
  BY <1>2, <1>3, <1>4, <1>5 DEF ReadWasStored, KeptWasStored, At

\* Every other step of a request is no concern of an update, or ends it with
\* an error.
LEMMA UpdateSpared ==
    ASSUME BodyInv, NEW h \in Handlers,
           \/ \E op \in Operations : \E body \in Bodies(op) :
                 Receive(h, op, body)
           \/ Step(h) /\ ~GetPolicy(h) /\ ~PutPolicy(h)
           \/ Reply(h)
    PROVE  ReadWasStored(h)' /\ KeptWasStored(h)'
<1> USE DEF ReadWasStored, KeptWasStored, At, Finished, Set, Done, Second,
            Request, BodyInv
<1>1. CASE \E op \in Operations : \E body \in Bodies(op) : Receive(h, op, body)
  BY <1>1 DEF Receive, Start
<1>2. CASE Reply(h)
  BY <1>2 DEF Reply, Idle
<1>3. CASE BackendError(h) \/ RequestTimeout(h)
  BY <1>3 DEF BackendError, RequestTimeout
<1>4. CASE InsertUser(h) \/ InsertGroup(h) \/ InsertPolicy(h)
  BY <1>4 DEF InsertUser, InsertGroup, InsertPolicy
<1>5. CASE RereadUser(h) \/ RereadGroup(h) \/ RereadPolicy(h)
  BY <1>5 DEF RereadUser, RereadGroup, RereadPolicy, CreateOrExisting
<1>6. CASE FetchPage(h) \/ CheckOwner(h)
  BY <1>6 DEF FetchPage, CheckOwner
<1> QED  BY <1>1, <1>2, <1>3, <1>4, <1>5, <1>6 DEF Step

\* Every step of the service keeps the invariant of the updates.
LEMMA KeptStep ==
    ASSUME RequestInv, KeptInv, [ServiceNext]_serviceVars
    PROVE  KeptInv'
<1> SUFFICES ASSUME NEW k \in Handlers
             PROVE  ReadWasStored(k)' /\ KeptWasStored(k)'
  BY DEF KeptInv
<1>0. ReadWasStored(k) /\ KeptWasStored(k) /\ BodyInv
  BY DEF KeptInv, RequestInv
<1>1. CASE UNCHANGED serviceVars
  BY <1>0, <1>1 DEF serviceVars, ReadWasStored, KeptWasStored, At, Finished
<1>2. CASE ServiceNext /\ req'[k] = req[k]
  <2>1. req[k].op = "update_policy" => seen[k] \subseteq seen'[k]
    BY <1>2, StepsObserved, UpdateObserved
  <2> QED
    BY <1>0, <1>2, <2>1 DEF ReadWasStored, KeptWasStored, At, Finished
<1>3. CASE ServiceNext /\ req'[k] # req[k]
  BY <1>0, <1>3, WhoMoves, GetPolicyKeeps, PutPolicyKeeps, UpdateSpared
<1> QED  BY <1>1, <1>2, <1>3

\* For any number of requests: a row that update_policy writes never mixes the
\* kept fields of two versions of the policy, and the requests keep their form.
THEOREM UpdatesKeepOneVersion == ServiceSpec => []ServiceInv
<1>1. ServiceInit => ProgressInv /\ KeptInv
  BY DEF ServiceInit, Idle, ProgressInv, KeptInv, ReadWasStored, KeptWasStored,
         At, Finished, Running
<1>2. RequestInv /\ ProgressInv /\ KeptInv /\ [ServiceNext]_serviceVars
        => ProgressInv' /\ KeptInv'
  BY ProgressStep, KeptStep
<1>3. RequestInv /\ ProgressInv /\ KeptInv => ServiceInv
  BY DEF RequestInv, BodyInv, ProgressInv, KeptInv, KeptWasStored, ServiceInv,
         ServiceTypeOK, KeptFieldsWereStored, Running
<1> QED  BY <1>1, <1>2, <1>3, RequestsCorrect, PTL DEF ServiceSpec

-----------------------------------------------------------------------------
(* The identity of the users that creates are told of. *)

Told(h) ==
    /\ req[h].op = "create_user" /\ Finished(req[h])
    /\ req[h].code = 201

SameIdentity(r, s) == r.email = s.email /\ r.external_id = s.external_id

\* The answer is a row that the body does not contradict, and its user_id
\* stands for one email and one external id: in the tables, in the answers to
\* all other creates, and for ever, because no id is handed out twice.
ToldInv ==
    \A h \in Handlers : Told(h) =>
        /\ SameIfGiven(req[h].body.email, req[h].answer.email)
        /\ SameIfGiven(req[h].body.external_id, req[h].answer.external_id)
        /\ req[h].answer.user_id \in UserIds
        /\ req[h].answer.user_id <= next_user_id
        /\ \A n \in DOMAIN users :
              users[n].user_id = req[h].answer.user_id =>
                 SameIdentity(users[n], req[h].answer)
        /\ \A g \in Handlers :
              Told(g) /\ req[g].answer.user_id = req[h].answer.user_id =>
                 SameIdentity(req[g].answer, req[h].answer)

\* A step of the store leaves the identity of every user as it is, or adds a
\* user under an id that was never handed out.
LEMMA IdentityStep ==
    ASSUME TypeOK, [Next]_vars
    PROVE  /\ next_user_id' \in {next_user_id, next_user_id + 1}
           /\ \A n \in DOMAIN users' :
                 \/ /\ n \in DOMAIN users
                    /\ users'[n].user_id = users[n].user_id
                    /\ SameIdentity(users'[n], users[n])
                 \/ users'[n].user_id = next_user_id + 1
<1> USE DEF SameIdentity
<1>1. CASE UNCHANGED <<users, next_user_id>>
  BY <1>1
<1>2. CASE UserNext
  <2>1. CASE \E new \in NewUser : CreateUser(new)
    BY <2>1 DEF CreateUser, Put
  <2>2. CASE \E new \in NewUser : BurnUserId(new)
    BY <2>2 DEF BurnUserId
  <2>3. CASE \E n \in Usernames : DeleteUser(n)
    BY <2>3 DEF DeleteUser, Keep
  <2>4. CASE \E n \in Usernames, f \in FriendlyNames : SetFriendlyName(n, f)
    <3>1. PICK n \in Usernames, f \in FriendlyNames : SetFriendlyName(n, f)
      BY <2>4
    <3>2. DOMAIN users' = DOMAIN users
      BY <3>1 DEF SetFriendlyName
    <3>3. \A m \in DOMAIN users : m # n => users'[m] = users[m]
      BY <3>1 DEF SetFriendlyName
    <3>4. users'[n] = [users[n] EXCEPT !.friendly_name = f]
      BY <3>1 DEF SetFriendlyName
    <3>5. users[n] \in UserRecord
      BY <3>1 DEF SetFriendlyName, TypeOK, IsTable
    <3>6. users'[n].user_id = users[n].user_id
          /\ SameIdentity(users'[n], users[n])
      BY <3>4, <3>5 DEF UserRecord
    <3>7. next_user_id' = next_user_id
      BY <3>1 DEF SetFriendlyName
    <3> QED  BY <3>2, <3>3, <3>6, <3>7
  <2> QED  BY <1>2, <2>1, <2>2, <2>3, <2>4 DEF UserNext
<1>3. CASE GroupNext \/ PolicyNext
  BY <1>1, <1>3 DEF GroupNext, CreateGroup, DeleteGroup, PolicyNext,
                    CreatePolicy, UpdatePolicy, DeletePolicy
<1>4. CASE AttachmentNext
  BY <1>1, <1>4 DEF AttachmentNext, AddMembership, RemoveMembership,
                    AttachPolicyToUser, DetachPolicyFromUser,
                    AttachPolicyToGroup, DetachPolicyFromGroup
<1>5. CASE CredentialNext
  BY <1>1, <1>5 DEF CredentialNext, CreateCredential, DeleteCredential,
                    CreateExternalPrincipal, DeleteExternalPrincipal
<1>6. CASE UNCHANGED vars
  BY <1>1, <1>6 DEF vars
<1> QED  BY <1>2, <1>3, <1>4, <1>5, <1>6 DEF Next

\* A create that is told 201 is told of a row that is stored at that moment and
\* that its body does not contradict.
LEMMA NewlyTold ==
    ASSUME BodyInv, ServiceNext, NEW h \in Handlers, Told(h)',
           req'[h] # req[h]
    PROVE  \E n \in DOMAIN users' :
              /\ req'[h].answer = users'[n]
              /\ SameIfGiven(req'[h].body.email, users'[n].email)
              /\ SameIfGiven(req'[h].body.external_id, users'[n].external_id)
<1> USE DEF Told, Finished, Set, Done, Second, Request, BodyInv
<1> DEFINE new == req[h].body
           n == new.username
<1>1. CASE InsertUser(h)
  <2>1. CreateUser(new) /\ req'[h] = Done(req[h], 201, users'[n])
    BY <1>1 DEF InsertUser, At
  <2>2. n \in DOMAIN users' /\ users'[n].email = new.email
        /\ users'[n].external_id = new.external_id
    BY <2>1 DEF CreateUser, Put
  <2> QED  BY <2>1, <2>2 DEF SameIfGiven
<1>2. CASE RereadUser(h)
  <2>1. /\ n \in DOMAIN users /\ SameUser(new, users[n])
        /\ req'[h] = Done(req[h], 201, users[n]) /\ users' = users
    BY <1>2 DEF RereadUser, CreateOrExisting, At, vars
  <2> QED  BY <2>1 DEF SameUser
<1>3. CASE \E op \in Operations : \E body \in Bodies(op) : Receive(h, op, body)
  BY <1>3 DEF Receive, Start
<1>4. CASE Reply(h)
  BY <1>4 DEF Reply, Idle
<1>5. CASE BackendError(h) \/ RequestTimeout(h)
  BY <1>5 DEF BackendError, RequestTimeout
<1>6. CASE InsertGroup(h) \/ InsertPolicy(h) \/ RereadGroup(h)
           \/ RereadPolicy(h)
  BY <1>6 DEF InsertGroup, InsertPolicy, RereadGroup, RereadPolicy,
              CreateOrExisting, At
<1>7. CASE GetPolicy(h) \/ PutPolicy(h) \/ FetchPage(h) \/ CheckOwner(h)
  BY <1>7 DEF GetPolicy, PutPolicy, FetchPage, CheckOwner, At
<1> QED
  BY <1>1, <1>2, <1>3, <1>4, <1>5, <1>6, <1>7, WhoMoves DEF Step

\* Every step keeps what the creates were told apart by their ids.
LEMMA ToldStep ==
    ASSUME StoreInv, StoreInv', RequestInv, ToldInv, [ServiceNext]_serviceVars
    PROVE  ToldInv'
<1>0. BodyInv /\ TypeOK /\ [Next]_vars
  BY ServiceStep DEF RequestInv
<1>1. \/ \A h \in Handlers : req'[h] = req[h]
      \/ ServiceNext
  BY DEF serviceVars
<1>2. next_user_id \in Nat /\ next_user_id' \in {next_user_id, next_user_id + 1}
  BY <1>0, IdentityStep DEF TypeOK
<1>3. \A m, n \in DOMAIN users' :
        users'[m].user_id = users'[n].user_id => m = n
  BY DEF StoreInv, UniqueIdentities
<1>4. ASSUME NEW h \in Handlers, Told(h)', req'[h] = req[h]
      PROVE  /\ Told(h)
             /\ SameIfGiven(req'[h].body.email, req'[h].answer.email)
             /\ SameIfGiven(req'[h].body.external_id, req'[h].answer.external_id)
             /\ req'[h].answer.user_id \in UserIds
             /\ req'[h].answer.user_id <= next_user_id'
             /\ \A n \in DOMAIN users' :
                   users'[n].user_id = req'[h].answer.user_id =>
                      SameIdentity(users'[n], req'[h].answer)
  <2>1. Told(h)
    BY <1>4 DEF Told
  <2>2. /\ SameIfGiven(req[h].body.email, req[h].answer.email)
        /\ SameIfGiven(req[h].body.external_id, req[h].answer.external_id)
        /\ req[h].answer.user_id \in UserIds
        /\ req[h].answer.user_id <= next_user_id
        /\ \A n \in DOMAIN users :
              users[n].user_id = req[h].answer.user_id =>
                 SameIdentity(users[n], req[h].answer)
    BY <2>1 DEF ToldInv
  <2>3. req[h].answer.user_id <= next_user_id'
        /\ req[h].answer.user_id # next_user_id + 1
    BY <1>2, <2>2, MaxUserIdAssumption DEF UserIds
  <2>4. ASSUME NEW n \in DOMAIN users',
               users'[n].user_id = req[h].answer.user_id
        PROVE  SameIdentity(users'[n], req[h].answer)
    <3>1. /\ n \in DOMAIN users
          /\ users'[n].user_id = users[n].user_id
          /\ SameIdentity(users'[n], users[n])
      BY <1>0, <2>3, <2>4, IdentityStep
    <3> QED  BY <2>2, <2>4, <3>1 DEF SameIdentity
  <2> QED  BY <1>4, <2>1, <2>2, <2>3, <2>4
<1>5. ASSUME NEW h \in Handlers, Told(h)', req'[h] # req[h]
      PROVE  /\ \E n \in DOMAIN users' : req'[h].answer = users'[n]
             /\ SameIfGiven(req'[h].body.email, req'[h].answer.email)
             /\ SameIfGiven(req'[h].body.external_id, req'[h].answer.external_id)
             /\ req'[h].answer.user_id \in UserIds
             /\ req'[h].answer.user_id <= next_user_id'
             /\ \A n \in DOMAIN users' :
                   users'[n].user_id = req'[h].answer.user_id =>
                      SameIdentity(users'[n], req'[h].answer)
  <2>1. PICK m \in DOMAIN users' :
           /\ req'[h].answer = users'[m]
           /\ SameIfGiven(req'[h].body.email, users'[m].email)
           /\ SameIfGiven(req'[h].body.external_id, users'[m].external_id)
    BY <1>0, <1>1, <1>5, NewlyTold
  <2>2. users'[m].user_id \in UserIds /\ users'[m].user_id <= next_user_id'
    BY DEF StoreInv, TypeOK, IsTable, UserRecord, UniqueIdentities
  <2> QED  BY <1>3, <2>1, <2>2 DEF SameIdentity
<1>6. ASSUME NEW g \in Handlers, NEW h \in Handlers, Told(g)', Told(h)',
             req'[g].answer.user_id = req'[h].answer.user_id
      PROVE  SameIdentity(req'[g].answer, req'[h].answer)
  <2>1. CASE req'[g] = req[g] /\ req'[h] = req[h]
    <3>1. Told(g) /\ Told(h)
      BY <1>4, <1>6, <2>1
    <3> QED  BY <1>6, <2>1, <3>1 DEF ToldInv
  <2>2. CASE req'[g] # req[g]
    <3>1. PICK n \in DOMAIN users' : req'[g].answer = users'[n]
      BY <1>5, <1>6, <2>2
    <3> QED  BY <1>4, <1>5, <1>6, <3>1
  <2>3. CASE req'[h] # req[h]
    <3>1. PICK n \in DOMAIN users' : req'[h].answer = users'[n]
      BY <1>5, <1>6, <2>3
    <3>2. SameIdentity(users'[n], req'[g].answer)
      BY <1>4, <1>5, <1>6, <3>1
    <3> QED  BY <3>1, <3>2 DEF SameIdentity
  <2> QED  BY <2>1, <2>2, <2>3
<1> QED  BY <1>4, <1>5, <1>6 DEF ToldInv

\* For any number of creates, deletes and creates again: two creates that are
\* told the same user_id with 201 do not contradict each other.
THEOREM CreatesAgreeOnIdentity == ServiceSpec => []OneIdentityPerUser
<1>1. ServiceInit => ToldInv
  BY DEF ServiceInit, Idle, ToldInv, Told
<1>2. StoreInv /\ StoreInv' /\ RequestInv /\ ToldInv
        /\ [ServiceNext]_serviceVars => ToldInv'
  BY ToldStep
<1>3. ToldInv => OneIdentityPerUser
  <2> SUFFICES ASSUME ToldInv, NEW g \in Handlers, NEW h \in Handlers,
                      Told(g), Told(h),
                      req[g].answer.user_id = req[h].answer.user_id
               PROVE  /\ \/ None \in {req[g].body.email, req[h].body.email}
                         \/ req[g].body.email = req[h].body.email
                      /\ \/ None \in {req[g].body.external_id,
                                      req[h].body.external_id}
                         \/ req[g].body.external_id = req[h].body.external_id
    BY DEF OneIdentityPerUser, Told
  <2> QED  BY DEF ToldInv, SameIdentity, SameIfGiven
<1> QED
  BY <1>1, <1>2, <1>3, ServiceKeepsStoreInv, RequestsCorrect, PTL
  DEF ServiceSpec

=============================================================================
