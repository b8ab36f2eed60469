------------------------------ MODULE Bootstrap ------------------------------
(***************************************************************************)
(* The bootstrap file of the authorization server: parse_plan              *)
(* (bootstrap.rs), apply_plan (store/bootstrap.rs) and the two writers it  *)
(* runs on, the PostgreSQL transaction of store/pg/mod.rs and the staged   *)
(* copy of store/mem.rs.                                                   *)
(*                                                                         *)
(* Every replica applies its file when it starts, in one transaction and   *)
(* one statement per entry, while other replicas do the same and while the *)
(* replicas that are up serve API requests.  The isolation is READ         *)
(* COMMITTED: a statement sees what is committed when it runs and the rows *)
(* of its own transaction.  An insert waits for an open transaction that   *)
(* holds the same key; an inserted row keeps the rows it refers to from    *)
(* being deleted until the transaction ends.                               *)
(*                                                                         *)
(* A database is a function from the kind of a row to the table of the     *)
(* rows of that kind; the committed one is made of the variables of        *)
(* AuthzStore.                                                             *)
(***************************************************************************)
EXTENDS AuthzStore, Sequences, SequencesExt

CONSTANTS
    Replicas,
    Deployments,        \* which file each replica is given, by choice
    NoFile,             \* no bootstrap_file is configured
    UnreadableFile,     \* a file that cannot be read, or is not YAML
    Blank,              \* a text of white space
    EnvVars,            \* the environment variables that are set
    MaxRestarts,        \* bound: restarts of replicas
    MaxApi              \* bound: API requests that change a table

ASSUME BootstrapBounds == MaxRestarts \in Nat /\ MaxApi \in Nat

VARIABLES
    run,        \* run[r]: how far the bootstrap of replica r is
    restarts,   \* the number of restarts so far
    api,        \* the number of API requests so far
    deleted,    \* auxiliary: the rows that the API deleted since r began
    alone       \* auxiliary: nobody else has changed a table since r began

bootVars == <<users, next_user_id, groups, policies, group_members,
              user_policies, group_policies, credentials,
              external_principals, run, restarts, api, deleted, alone>>

-----------------------------------------------------------------------------
(* The file and the plan. *)

BootstrapVersion == 1

PolicySpec(name, statement, acl) ==
    [name |-> name, statement |-> statement, acl |-> acl]

GroupSpec(id, description, attached) ==
    [id |-> id, description |-> description, policies |-> attached]

UserSpec(username, email, external_id, joined, attached, keys) ==
    [username |-> username, email |-> email, friendly_name |-> None,
     external_id |-> external_id, groups |-> joined, policies |-> attached,
     credentials |-> keys]

CredentialSpec(access_key_id, secret, env) ==
    [access_key_id |-> access_key_id, secret_access_key |-> secret,
     secret_access_key_env |-> env]

BootstrapFile(version, ps, gs, us) ==
    [version |-> version, policies |-> ps, groups |-> gs, users |-> us]

Elements(seq) == {seq[i] : i \in DOMAIN seq}

IsList(seq) == seq \in Seq(Elements(seq))

\* What reading a file gives, before any rule is applied: lists, and optional
\* texts of which any may be blank.
WellFormed(file) ==
    /\ IsList(file.policies) /\ IsList(file.groups) /\ IsList(file.users)
    /\ \A p \in Elements(file.policies) : p.acl \in Optional(Acls)
    /\ \A g \in Elements(file.groups) :
          IsList(g.policies) /\ g.description \in Optional(Descriptions)
    /\ \A u \in Elements(file.users) :
          /\ IsList(u.groups) /\ IsList(u.policies) /\ IsList(u.credentials)
          /\ u.email \in Optional(Emails) \cup {Blank}
          /\ u.external_id \in Optional(ExternalIds) \cup {Blank}
          /\ u.friendly_name \in Optional(FriendlyNames) \cup {Blank}
          /\ \A c \in Elements(u.credentials) :
                c.access_key_id \in AccessKeys \cup {Blank}

ASSUME FilesAssumption ==
    \A files \in Deployments, r \in Replicas :
        files[r] \in {NoFile, UnreadableFile} \/ WellFormed(files[r])

ASSUME DatesAssumption == Dates # {}

OptionalText(text) == IF text = Blank THEN None ELSE text

\* Exactly one source of the secret, and the variable it names is set.
SecretResolves(credential) ==
    \/ /\ credential.secret_access_key # None
       /\ credential.secret_access_key_env = None
    \/ /\ credential.secret_access_key = None
       /\ credential.secret_access_key_env \in EnvVars

\* The rules of the API: a name outside the sets of the store is one that
\* validate_entity_id refuses, a statement outside Statements one that
\* validate_policy refuses.
ValidFile(file) ==
    /\ file.version \in {None, BootstrapVersion}
    /\ \A p \in Elements(file.policies) :
          p.name \in Policies /\ p.statement \in Statements
    /\ \A g \in Elements(file.groups) :
          g.id \in Groups /\ Elements(g.policies) \subseteq Policies
    /\ \A u \in Elements(file.users) :
          /\ u.username \in Usernames
          /\ Elements(u.groups) \subseteq Groups
          /\ Elements(u.policies) \subseteq Policies
          /\ \A c \in Elements(u.credentials) :
                OptionalText(c.access_key_id) # None /\ SecretResolves(c)

\* One insert of the plan.
Entry(kind, key, row) == [kind |-> kind, key |-> key, row |-> row]

Each(seq, Op(_)) == [i \in DOMAIN seq |-> Op(seq[i])]

\* For every element of `seq` the sequence Op(element), one after the other.
EachOf(seq, Op(_)) == FlattenSeq(Each(seq, Op))

\* BootstrapPlan, in the order in which apply_plan walks its seven lists.
Plan(file) ==
    Each(file.policies, LAMBDA p :
        Entry("policy", p.name,
              [creation_date |-> CHOOSE d \in Dates : TRUE,
               statement |-> p.statement, acl |-> p.acl]))
    \o Each(file.groups, LAMBDA g :
        Entry("group", g.id, [description |-> g.description]))
    \o Each(file.users, LAMBDA u :
        Entry("user", u.username,
              [email |-> OptionalText(u.email),
               external_id |-> OptionalText(u.external_id),
               friendly_name |-> OptionalText(u.friendly_name)]))
    \o EachOf(file.users, LAMBDA u : Each(u.groups, LAMBDA g :
        Entry("membership", <<g, u.username>>, None)))
    \o EachOf(file.users, LAMBDA u : Each(u.policies, LAMBDA p :
        Entry("user_policy", <<u.username, p>>, None)))
    \o EachOf(file.groups, LAMBDA g : Each(g.policies, LAMBDA p :
        Entry("group_policy", <<g.id, p>>, None)))
    \o EachOf(file.users, LAMBDA u : Each(u.credentials, LAMBDA c :
        Entry("credential", c.access_key_id, [username |-> u.username])))

-----------------------------------------------------------------------------
(* Databases. *)

Kinds == {"policy", "group", "user", "membership", "user_policy",
          "group_policy", "credential"}

Committed ==
    [policy |-> policies, group |-> groups, user |-> users,
     membership |-> group_members, user_policy |-> user_policies,
     group_policy |-> [k \in group_policies |-> None],
     credential |-> credentials]

NoRows == [kind \in Kinds |-> EmptyTable]

\* The rows of `own` on top of those of `db`.
Merge(db, own) ==
    [kind \in Kinds |->
        [k \in DOMAIN db[kind] \cup DOMAIN own[kind] |->
            IF k \in DOMAIN own[kind] THEN own[kind][k] ELSE db[kind][k]]]

Has(db, ref) == ref.key \in DOMAIN db[ref.kind]

Ref(kind, key) == [kind |-> kind, key |-> key]

\* The rows that the foreign keys of a row name.
References(e) ==
    CASE e.kind = "membership" ->
            {Ref("group", e.key[1]), Ref("user", e.key[2])}
      [] e.kind = "user_policy" ->
            {Ref("user", e.key[1]), Ref("policy", e.key[2])}
      [] e.kind = "group_policy" ->
            {Ref("group", e.key[1]), Ref("policy", e.key[2])}
      [] e.kind = "credential" -> {Ref("user", e.row.username)}
      [] OTHER -> {}

\* Two users share a value of a unique column other than the username.
SharesUnique(u, v) ==
    \/ u.email # None /\ u.email = v.email
    \/ u.external_id # None /\ u.external_id = v.external_id

SharesWith(db, e) ==
    e.kind = "user" /\ \E n \in DOMAIN db.user : SharesUnique(e.row, db.user[n])

\* The row an insert stores; `id` is the value of the identity column.
Row(db, e, id) ==
    CASE e.kind \in {"policy", "group"} -> e.row
      [] e.kind = "user" ->
            [user_id |-> id, email |-> e.row.email,
             external_id |-> e.row.external_id,
             friendly_name |-> e.row.friendly_name]
      [] e.kind = "membership" -> db.user[e.key[2]].user_id
      [] e.kind = "user_policy" -> db.user[e.key[1]].user_id
      [] e.kind = "group_policy" -> None
      [] e.kind = "credential" ->
            [username |-> e.row.username,
             user_id |-> db.user[e.row.username].user_id]

\* Fault: the tables of memberships and attachments have no foreign keys.
Outcome_NoForeignKeys(db, e) ==
    CASE Has(db, e) -> "present"
      [] ~Has(db, e) /\ SharesWith(db, e) -> "already_exists"
      [] OTHER -> "created"

\* What INSERT ... ON CONFLICT (key) DO NOTHING does.
Outcome(db, e) ==
    CASE Has(db, e) -> "present"
      [] ~Has(db, e) /\ SharesWith(db, e) -> "already_exists"
      [] ~Has(db, e) /\ ~SharesWith(db, e)
            /\ (\E ref \in References(e) : ~Has(db, ref)) -> "not_found"
      [] OTHER -> "created"

\* Fault: an existing user is taken for the one the entry describes.
Accepts_AnyUser(e, existing) ==
    e.kind = "credential" => existing.username = e.row.username

\* same_identity_as for a user, the owner for credentials.
Accepts(e, existing) ==
    /\ e.kind = "user" => existing.external_id = e.row.external_id
    /\ e.kind = "credential" => existing.username = e.row.username

(***************************************************************************)
(* MemStore: the plan runs on a clone that replaces the store at the end.  *)
(* Only one process uses a MemStore, and it bootstraps before it serves,   *)
(* so the run is one step.  `ok` is FALSE once an entry has failed.        *)
(***************************************************************************)
StageEntry(staged, e) ==
    LET out == Outcome(staged.db, e)
        id == staged.next_user_id + 1
    IN CASE ~staged.ok -> staged
         [] staged.ok /\ out = "created" ->
              [staged EXCEPT
                 !.db[e.kind] = Put(@, e.key, Row(staged.db, e, id)),
                 !.next_user_id = IF e.kind = "user" THEN id ELSE @]
         [] staged.ok /\ out = "present" ->
              [staged EXCEPT !.ok = Accepts(e, staged.db[e.kind][e.key])]
         [] OTHER -> [staged EXCEPT !.ok = FALSE]

\* stage[i]: the clone after the first i entries.
ApplyStaged(db, plan) ==
    LET stage[i \in 0 .. Len(plan)] ==
            IF i = 0
            THEN [ok |-> TRUE, db |-> db, next_user_id |-> next_user_id]
            ELSE StageEntry(stage[i - 1], plan[i])
    IN  stage[Len(plan)]

-----------------------------------------------------------------------------
(* PostgreSQL: one transaction, one statement per entry. *)

NotStarted(file) ==
    [phase |-> "start", file |-> file, plan |-> <<>>, pos |-> 1,
     own |-> NoRows, error |-> "none"]

BootInit ==
    /\ Init
    /\ run \in {[r \in Replicas |-> NotStarted(f[r])] : f \in Deployments}
    /\ restarts = 0
    /\ api = 0
    /\ deleted = [r \in Replicas |-> {}]
    /\ alone = [r \in Replicas |-> TRUE]

Open(r) == run[r].phase \in {"insert", "read", "commit"}

Current(r) == run[r].plan[run[r].pos]

Visible(r) == Merge(Committed, run[r].own)

\* The open transactions that hold the key, or a unique value, that the next
\* insert of r would store.
WaitsFor(r) ==
    IF run[r].phase # "insert" \/ Has(Visible(r), Current(r)) THEN {}
    ELSE {q \in Replicas \ {r} : \/ Has(run[q].own, Current(r))
                                \/ SharesWith(run[q].own, Current(r))}

\* The rows that the foreign keys of the rows of r lock against a delete.
LockedBy(r) ==
    UNION {UNION {References(Entry(kind, k, run[r].own[kind][k])) :
                     k \in DOMAIN run[r].own[kind]} : kind \in Kinds}

SetRun(r, new) == run' = [run EXCEPT ![r] = new]

\* Fault: a failed run leaves its transaction open.
Fail_KeepsTransaction(r, error) ==
    SetRun(r, [run[r] EXCEPT !.phase = "failed", !.error = error])

\* The error leaves main; the transaction is dropped and rolled back.
Fail(r, error) ==
    SetRun(r, [run[r] EXCEPT !.phase = "failed", !.error = error,
                             !.own = NoRows, !.pos = 1])

\* The entry is done: on to the next one, or to the commit.
Advance(r, own) ==
    SetRun(r, [run[r] EXCEPT
                 !.own = own,
                 !.pos = @ + 1,
                 !.phase = IF run[r].pos < Len(run[r].plan)
                           THEN "insert" ELSE "commit"])

\* load_plan, then apply: an empty plan is done, any other begins.
LoadPlan(r) ==
    /\ run[r].phase = "start"
    /\ LET file == run[r].file IN
       CASE file = NoFile -> SetRun(r, [run[r] EXCEPT !.phase = "ready"])
         [] file = UnreadableFile -> Fail(r, "file")
         [] OTHER ->
              \/ ~ValidFile(file) /\ Fail(r, "file")
              \/ /\ ValidFile(file) /\ Plan(file) = <<>>
                 /\ SetRun(r, [run[r] EXCEPT !.phase = "ready"])
              \/ /\ ValidFile(file) /\ Plan(file) # <<>>
                 /\ SetRun(r, [run[r] EXCEPT !.phase = "insert",
                                             !.plan = Plan(file)])
    /\ UNCHANGED <<vars, restarts, api>>

\* The identity column advances with every attempt to insert a user, also with
\* one that is skipped or refused, and is not rolled back.
DrawId(e) ==
    IF e.kind = "user"
    THEN next_user_id < MaxUserId /\ next_user_id' = next_user_id + 1
    ELSE UNCHANGED next_user_id

TablesUnchanged ==
    UNCHANGED <<users, groups, policies, group_members, user_policies,
                group_policies, credentials, external_principals>>

\* Fault: ON CONFLICT DO UPDATE, a user or a credential is overwritten.
InsertIfMissing_Upserts(r) ==
    /\ run[r].phase = "insert"
    /\ WaitsFor(r) = {}
    /\ LET e == Current(r)
           out == Outcome(Visible(r), e)
           row == Row(Visible(r), e, next_user_id + 1)
           own == run[r].own
       IN /\ DrawId(e)
          /\ \/ /\ out = "created"
                /\ Advance(r, [own EXCEPT ![e.kind] = Put(@, e.key, row)])
             \/ /\ out = "present" /\ e.kind \notin {"user", "credential"}
                /\ Advance(r, own)
             \/ /\ out = "present" /\ e.kind \in {"user", "credential"}
                /\ Advance(r, [own EXCEPT ![e.kind] = Put(@, e.key, row)])
             \/ /\ out \notin {"created", "present"}
                /\ Fail(r, out)
    /\ TablesUnchanged
    /\ UNCHANGED <<restarts, api>>

\* Fault: an entry whose reference is missing is passed over.
InsertIfMissing_IgnoresMissing(r) ==
    /\ run[r].phase = "insert"
    /\ WaitsFor(r) = {}
    /\ LET e == Current(r)
           out == Outcome(Visible(r), e)
           row == Row(Visible(r), e, next_user_id + 1)
           own == run[r].own
       IN /\ DrawId(e)
          /\ \/ /\ out = "created"
                /\ Advance(r, [own EXCEPT ![e.kind] = Put(@, e.key, row)])
             \/ /\ out = "present" /\ e.kind \notin {"user", "credential"}
                /\ Advance(r, own)
             \/ /\ out = "present" /\ e.kind \in {"user", "credential"}
                /\ SetRun(r, [run[r] EXCEPT !.phase = "read"])
             \/ /\ out \notin {"created", "present"}
                /\ Advance(r, own)
    /\ TablesUnchanged
    /\ UNCHANGED <<restarts, api>>

\* One insert of the plan.
InsertIfMissing(r) ==
    /\ run[r].phase = "insert"
    /\ WaitsFor(r) = {}
    /\ LET e == Current(r)
           out == Outcome(Visible(r), e)
           row == Row(Visible(r), e, next_user_id + 1)
           own == run[r].own
       IN /\ DrawId(e)
          /\ \/ /\ out = "created"
                /\ Advance(r, [own EXCEPT ![e.kind] = Put(@, e.key, row)])
             \/ /\ out = "present" /\ e.kind \notin {"user", "credential"}
                /\ Advance(r, own)
             \/ /\ out = "present" /\ e.kind \in {"user", "credential"}
                /\ SetRun(r, [run[r] EXCEPT !.phase = "read"])
             \/ /\ out \notin {"created", "present"}
                /\ Fail(r, out)
    /\ TablesUnchanged
    /\ UNCHANGED <<restarts, api>>

\* Fault: an existing user or credential is an error in PostgreSQL.
ReadBack_Refuses(r) ==
    /\ run[r].phase = "read"
    /\ Fail(r, "wrong_identity")
    /\ UNCHANGED <<vars, restarts, api>>

\* Fault: the row is read again until it is there.
ReadBack_UntilFound(r) ==
    /\ run[r].phase = "read"
    /\ LET e == Current(r)
           db == Visible(r)
       IN /\ Has(db, e)
          /\ IF Accepts(e, db[e.kind][e.key]) THEN Advance(r, run[r].own)
             ELSE Fail(r, "wrong_identity")
    /\ UNCHANGED <<vars, restarts, api>>

\* The select that follows a skipped insert of a user or of credentials.
ReadBack(r) ==
    /\ run[r].phase = "read"
    /\ LET e == Current(r)
           db == Visible(r)
       IN \/ ~Has(db, e) /\ Fail(r, "not_found")
          \/ /\ Has(db, e) /\ Accepts(e, db[e.kind][e.key])
             /\ Advance(r, run[r].own)
          \/ /\ Has(db, e) /\ ~Accepts(e, db[e.kind][e.key])
             /\ Fail(r, "wrong_identity")
    /\ UNCHANGED <<vars, restarts, api>>

\* The rows of the transaction become visible, all of them at once.
Publish(r) ==
    LET db == Visible(r) IN
    /\ policies' = db.policy
    /\ groups' = db.group
    /\ users' = db.user
    /\ group_members' = db.membership
    /\ user_policies' = db.user_policy
    /\ group_policies' = DOMAIN db.group_policy
    /\ credentials' = db.credential
    /\ UNCHANGED <<next_user_id, external_principals>>

Commit(r) ==
    /\ run[r].phase = "commit"
    /\ Publish(r)
    /\ SetRun(r, [run[r] EXCEPT !.phase = "ready", !.own = NoRows,
                                !.pos = 1])
    /\ UNCHANGED <<restarts, api>>

\* The commit takes effect but its answer is lost: start-up fails all the same.
CommitLost(r) ==
    /\ run[r].phase = "commit"
    /\ Publish(r)
    /\ Fail(r, "backend")
    /\ UNCHANGED <<restarts, api>>

\* A statement or the connection fails, or the replica is stopped.
BackendError(r) ==
    /\ Open(r)
    /\ Fail(r, "backend")
    /\ UNCHANGED <<vars, restarts, api>>

\* PostgreSQL aborts one transaction of a circle of waiting ones.
DeadlockVictim(r) ==
    /\ WaitsFor(r) # {}
    /\ \E S \in SUBSET Replicas :
          /\ r \in S
          /\ \A q \in S : WaitsFor(q) \cap S # {}
    /\ Fail(r, "deadlock")
    /\ UNCHANGED <<vars, restarts, api>>

\* The orchestrator starts the replica again.
Restart(r) ==
    /\ run[r].phase = "failed"
    /\ restarts < MaxRestarts
    /\ restarts' = restarts + 1
    /\ SetRun(r, NotStarted(run[r].file))
    /\ UNCHANGED <<vars, api>>

-----------------------------------------------------------------------------
(* The API requests of the replicas that are up, each one statement. *)

\* A statement waits for a transaction that holds the key or a unique value of
\* the row it inserts, or that locks the row it deletes.
Unobstructed ==
    \A r \in Replicas :
        /\ \A kind \in Kinds :
              DOMAIN Committed'[kind] \cap DOMAIN run[r].own[kind]
                 \subseteq DOMAIN Committed[kind]
        /\ \A n \in DOMAIN users' \ DOMAIN users :
              \A m \in DOMAIN run[r].own.user :
                 ~SharesUnique(users'[n], run[r].own.user[m])
        /\ \A ref \in LockedBy(r) :
              Has(Committed, ref) => Has(Committed', ref)

ApiRequest ==
    /\ api < MaxApi
    /\ Next
    /\ Unobstructed
    /\ api' = api + 1
    /\ UNCHANGED <<run, restarts>>

-----------------------------------------------------------------------------
(* The auxiliary variables of an open run follow every step. *)

Gone ==
    UNION {{Ref(kind, k) :
               k \in DOMAIN Committed[kind] \ DOMAIN Committed'[kind]} :
              kind \in Kinds}

Watch ==
    /\ deleted' = [r \in Replicas |->
                      IF Open(r)' THEN deleted[r] \cup Gone ELSE {}]
    /\ alone' = [r \in Replicas |->
                    Open(r)' => alone[r] /\ (run'[r] # run[r]
                                             \/ Committed' = Committed)]

ReplicaStep(r) ==
    \/ LoadPlan(r) \/ InsertIfMissing(r) \/ ReadBack(r) \/ Commit(r)
    \/ DeadlockVictim(r)

Disturbance(r) == CommitLost(r) \/ BackendError(r) \/ Restart(r)

BootNext ==
    \/ \E r \in Replicas : ReplicaStep(r) /\ Watch
    \/ \E r \in Replicas : Disturbance(r) /\ Watch
    \/ ApiRequest /\ Watch

\* A replica goes on by itself and PostgreSQL resolves deadlocks.
BootFairness == \A r \in Replicas : WF_run(ReplicaStep(r))

BootSpec == BootInit /\ [][BootNext]_bootVars /\ BootFairness
-----------------------------------------------------------------------------
(* Properties. *)

\* The tables and the runs have their types; a run that is not open holds no
\* row and no lock in the database.
BootTypeOK ==
    /\ TypeOK
    /\ \A r \in Replicas :
          /\ run[r].phase \in
                {"start", "insert", "read", "commit", "ready", "failed"}
          /\ ~Open(r) => run[r].own = NoRows

\* The bootstrap of several replicas leaves the tables as consistent as the
\* requests of the API do, and no trace of a transaction that has ended.
BootInv == BootTypeOK /\ StoreInv

\* The rows of r become visible in this step.
Publishes(r) ==
    /\ run[r].phase = "commit"
    /\ run'[r].phase # "commit"
    /\ Committed' = Visible(r)

\* A bootstrap that reports success has left every entry of its file in the
\* tables, entries it skipped because another replica was adding them and
\* entries whose insert was skipped minutes ago included; the exception is a
\* row that an API request deleted while the transaction was open.
PlanApplied ==
    [][ \A r \in Replicas :
          Open(r) /\ run'[r].phase = "ready" =>
             \A e \in Elements(run[r].plan) :
                Has(Committed', e) \/ Ref(e.kind, e.key) \in deleted[r] ]_bootVars

\* The user to whom a membership, an attachment or credentials belong.
Holder(kind, key, row) ==
    CASE kind = "membership" -> key[2]
      [] kind = "user_policy" -> key[1]
      [] kind = "credential" -> row.username

\* The grants of r that become visible now, as the users who get them.
GrantedTo(r) ==
    UNION {{Holder(kind, k, run[r].own[kind][k]) : k \in DOMAIN run[r].own[kind]} :
              kind \in {"membership", "user_policy", "credential"}}

Described(r, n, user) ==
    \A e \in Elements(run[r].plan) :
        e.kind = "user" /\ e.key = n => user.external_id = e.row.external_id

\* What bootstrap grants under a name goes to the identity that the file
\* describes, although the user is checked by one statement and the grants are
\* made by later ones under the name alone; the exception is a user that an
\* API request deleted, and created anew, while the transaction was open.
GrantsToDescribedUser ==
    [][ \A r \in Replicas : Publishes(r) =>
          \A n \in GrantedTo(r) :
             Described(r, n, users'[n]) \/ Ref("user", n) \in deleted[r] ]_bootVars

\* The claim of apply_plan without that exception: an entry's memberships,
\* policies or credentials are never granted to someone else.
NoGrantToSomeoneElse ==
    [][ \A r \in Replicas : Publishes(r) =>
          \A n \in GrantedTo(r) : Described(r, n, users'[n]) ]_bootVars

\* Bootstrap never updates and never deletes: whatever the replicas of the
\* different files do to each other, a committed row survives every bootstrap
\* step as it is, so that applying a file again is safe.
BootstrapOnlyAdds ==
    [][ UNCHANGED api =>
          \A kind \in Kinds : \A k \in DOMAIN Committed[kind] :
             k \in DOMAIN Committed'[kind]
             /\ Committed'[kind][k] = Committed[kind][k] ]_bootVars

\* What the two stores must agree on: the rows, and who the users are.
Content(db) ==
    <<[kind \in Kinds |-> DOMAIN db[kind]],
      [n \in DOMAIN db.user |-> <<db.user[n].email, db.user[n].external_id>>]>>

\* The two stores cannot drift apart on what bootstrap tolerates: a run that
\* nobody disturbed ends in PostgreSQL, statement by statement, with the
\* content that the staged run of MemStore gives, and fails where that fails.
StoresAgree ==
    [][ \A r \in Replicas :
          Open(r) /\ alone[r] =>
             /\ run'[r].phase = "ready" =>
                   LET staged == ApplyStaged(Committed, run[r].plan)
                   IN staged.ok /\ Content(staged.db) = Content(Committed')
             /\ run'[r].error \in {"already_exists", "not_found",
                                   "wrong_identity"} =>
                   ~ApplyStaged(Committed, run[r].plan).ok ]_bootVars

\* Replicas that start together wait for each other, and in a circle when
\* their files name the rows in different orders; every run still ends, with
\* success or with an error that stops the process.
EveryRunEnds ==
    \A r \in Replicas :
        run[r].phase = "start" ~> run[r].phase \in {"ready", "failed"}

=============================================================================
