---------------------------- MODULE StoreAnswers ----------------------------
(***************************************************************************)
(* What the calls of the two stores answer.  The handlers work against the *)
(* trait Store; the API tests run on MemStore (store/mem.rs), production   *)
(* on PgStore (store/pg).  MemStore checks references first and then looks *)
(* at its maps; PgStore runs one statement, lets the constraints of the    *)
(* schema refuse it and names the refusal after the constraint, and checks *)
(* the owner of a list only when the page is empty.  Both are given here   *)
(* as functions of the tables of AuthzStore.                               *)
(*                                                                         *)
(* An answer is a pair: "ok" and the rows, or the error and the entity it  *)
(* names (store/error.rs).  A page query (prefix, after and limit) is the  *)
(* set of keys that it lets through; module Pages is about which ones.     *)
(***************************************************************************)
EXTENDS AuthzStore

Ok(rows) == <<"ok", rows>>

NotFound(entity) == <<"not_found", entity>>

AlreadyExists(entity) == <<"already_exists", entity>>

\* A check with `?`: refuse, or go on.
Require(found, refusal, next) == IF found THEN next ELSE refusal

-----------------------------------------------------------------------------
(* The rows that the statements of store/pg/sql.rs select or touch.  A row *)
(* is its key and its record; a JOIN drops a row without a partner.        *)

UserRow(n) == <<n, users[n]>>

GroupRow(g) == <<g, groups[g]>>

PolicyRow(p) == <<p, policies[p]>>

SELECT_USER(n) == {UserRow(u) : u \in DOMAIN users \cap {n}}

SELECT_USER_BY_ID(id) ==
    {UserRow(u) : u \in {v \in DOMAIN users : users[v].user_id = id}}

SELECT_USER_BY_EMAIL(e) == {UserRow(u) : u \in FindUserByEmail(e)}

SELECT_USER_BY_EXTERNAL_ID(x) == {UserRow(u) : u \in FindUserByExternalId(x)}

SELECT_GROUP(g) == {GroupRow(h) : h \in DOMAIN groups \cap {g}}

SELECT_POLICY(p) == {PolicyRow(q) : q \in DOMAIN policies \cap {p}}

LIST_GROUP_MEMBERS(g) ==
    {UserRow(u) : u \in {v \in DOMAIN users : <<g, v>> \in DOMAIN group_members}}

LIST_USER_GROUPS(n) ==
    {GroupRow(g) : g \in {h \in DOMAIN groups : <<h, n>> \in DOMAIN group_members}}

LIST_USER_POLICIES(n) ==
    {PolicyRow(p) : p \in {q \in DOMAIN policies : <<n, q>> \in DOMAIN user_policies}}

\* The UNION of the direct attachments and those of the groups, joined with
\* the policies.
LIST_EFFECTIVE_USER_POLICIES(n) ==
    LET attached ==
            {q \in Policies : <<n, q>> \in DOMAIN user_policies}
            \cup {q \in Policies :
                    \E g \in Groups : /\ <<g, q>> \in group_policies
                                      /\ <<g, n>> \in DOMAIN group_members}
    IN  {PolicyRow(p) : p \in DOMAIN policies \cap attached}

LIST_GROUP_POLICIES(g) ==
    {PolicyRow(p) : p \in {q \in DOMAIN policies : <<g, q>> \in group_policies}}

\* credentials JOIN users: the user_id is the one that the user has now.
JoinedCredential(k) ==
    <<k, [username |-> credentials[k].username,
          user_id |-> users[credentials[k].username].user_id]>>

JoinedKeys == {k \in DOMAIN credentials : credentials[k].username \in DOMAIN users}

SELECT_CREDENTIAL(k) == {JoinedCredential(c) : c \in JoinedKeys \cap {k}}

SELECT_USER_CREDENTIAL(n, k) ==
    {JoinedCredential(c) :
        c \in {d \in JoinedKeys : d = k /\ credentials[d].username = n}}

LIST_USER_CREDENTIALS(n) ==
    {JoinedCredential(c) : c \in {d \in JoinedKeys : credentials[d].username = n}}

PrincipalRow(i) == <<i, external_principals[i].username>>

SELECT_EXTERNAL_PRINCIPAL(i) ==
    {PrincipalRow(j) : j \in DOMAIN external_principals \cap {i}}

LIST_USER_EXTERNAL_PRINCIPALS(n) ==
    {PrincipalRow(i) :
        i \in {j \in DOMAIN external_principals :
                 external_principals[j].username = n}}

-----------------------------------------------------------------------------
(* How PgStore turns the outcome of a statement into an answer.            *)

FetchOne(rows, entity) == IF rows = {} THEN NotFound(entity) ELSE Ok(rows)

\* An Option: the rows found, of which UniqueIdentities says at most one.
FetchOptional(rows) == Ok(rows)

ExecuteOne(matched, entity) == IF matched THEN Ok({}) ELSE NotFound(entity)

FetchPage(rows, window) == Ok({r \in rows : r[1] \in window})

\* Fault: the owner is never checked.
FetchOwnedPage_NoOwnerCheck(rows, window, found, entity) ==
    FetchPage(rows, window)

\* The owner is checked only when the page is empty: "a page with rows proves
\* the owner exists".
FetchOwnedPage(rows, window, found, entity) ==
    IF FetchPage(rows, window) = Ok({})
      THEN Require(found, NotFound(entity), FetchPage(rows, window))
      ELSE FetchPage(rows, window)

\* Fault: the first reference is named whatever the constraint.
MissingFromConstraint_FirstReference(constraint, references) ==
    NotFound(references[1])

\* A foreign key constraint is named *_{entity}_fk; here it is that entity.
MissingFromConstraint(constraint, references) ==
    IF \E i \in DOMAIN references : references[i] = constraint
      THEN NotFound(constraint)
      ELSE NotFound(references[1])

\* The unique constraints of users, by the column.
UserConflictNamed(constraint) ==
    AlreadyExists(CASE constraint = "email" -> "user with email"
                    [] constraint = "external_id" -> "user with external id"
                    [] OTHER -> "user")

-----------------------------------------------------------------------------
(* PgStore.  Within one statement PostgreSQL checks the unique indexes as  *)
(* the row is inserted, in the order in which the table declares them, and *)
(* the foreign keys when the statement ends, in the same order.  ON        *)
(* CONFLICT DO NOTHING inserts no row when the key is there, and then no   *)
(* foreign key is checked.                                                 *)

PgGetUser(n) == FetchOne(SELECT_USER(n), "user")

PgFindUserById(id) == FetchOptional(SELECT_USER_BY_ID(id))

PgFindUserByEmail(e) == FetchOptional(SELECT_USER_BY_EMAIL(e))

PgFindUserByExternalId(x) == FetchOptional(SELECT_USER_BY_EXTERNAL_ID(x))

PgListUsers(window) == FetchPage({UserRow(n) : n \in DOMAIN users}, window)

PgGetGroup(g) == FetchOne(SELECT_GROUP(g), "group")

PgListGroups(window) == FetchPage({GroupRow(g) : g \in DOMAIN groups}, window)

PgGetPolicy(p) == FetchOne(SELECT_POLICY(p), "policy")

PgListPolicies(window) ==
    FetchPage({PolicyRow(p) : p \in DOMAIN policies}, window)

PgListGroupMembers(g, window) ==
    FetchOwnedPage(LIST_GROUP_MEMBERS(g), window, g \in DOMAIN groups, "group")

PgListUserGroups(n, window) ==
    FetchOwnedPage(LIST_USER_GROUPS(n), window, n \in DOMAIN users, "user")

PgListUserPolicies(n, window) ==
    FetchOwnedPage(LIST_USER_POLICIES(n), window, n \in DOMAIN users, "user")

PgListEffectiveUserPolicies(n, window) ==
    FetchOwnedPage(LIST_EFFECTIVE_USER_POLICIES(n), window,
                   n \in DOMAIN users, "user")

PgListGroupPolicies(g, window) ==
    FetchOwnedPage(LIST_GROUP_POLICIES(g), window, g \in DOMAIN groups, "group")

PgGetCredential(k) == FetchOne(SELECT_CREDENTIAL(k), "credentials")

PgGetUserCredential(n, k) ==
    FetchOne(SELECT_USER_CREDENTIAL(n, k), "credentials")

PgListUserCredentials(n, window) ==
    FetchOwnedPage(LIST_USER_CREDENTIALS(n), window, n \in DOMAIN users, "user")

PgGetExternalPrincipal(i) ==
    FetchOne(SELECT_EXTERNAL_PRINCIPAL(i), "external principal")

PgListUserExternalPrincipals(n, window) ==
    FetchOwnedPage(LIST_USER_EXTERNAL_PRINCIPALS(n), window,
                   n \in DOMAIN users, "user")

PgCreateUser(new) ==
    Require(new.username \notin DOMAIN users, UserConflictNamed("username"),
    Require(new.email = None \/ FindUserByEmail(new.email) = {},
            UserConflictNamed("email"),
    Require(new.external_id = None \/ FindUserByExternalId(new.external_id) = {},
            UserConflictNamed("external_id"), Ok({}))))

PgInsertMembership(g, n) ==
    IF <<g, n>> \in DOMAIN group_members
      THEN Ok({})
      ELSE Require(g \in DOMAIN groups,
                   MissingFromConstraint("group", <<"user", "group">>),
           Require(n \in DOMAIN users,
                   MissingFromConstraint("user", <<"user", "group">>), Ok({})))

PgInsertUserPolicy(n, p) ==
    IF <<n, p>> \in DOMAIN user_policies
      THEN Ok({})
      ELSE Require(n \in DOMAIN users,
                   MissingFromConstraint("user", <<"user", "policy">>),
           Require(p \in DOMAIN policies,
                   MissingFromConstraint("policy", <<"user", "policy">>), Ok({})))

PgInsertGroupPolicy(g, p) ==
    IF <<g, p>> \in group_policies
      THEN Ok({})
      ELSE Require(g \in DOMAIN groups,
                   MissingFromConstraint("group", <<"group", "policy">>),
           Require(p \in DOMAIN policies,
                   MissingFromConstraint("policy", <<"group", "policy">>), Ok({})))

PgCreateCredential(n, k) ==
    Require(k \notin DOMAIN credentials, AlreadyExists("credentials"),
    Require(n \in DOMAIN users, MissingFromConstraint("user", <<"user">>), Ok({})))

\* Fault: the owner in the path is not compared.
PgDeleteCredential_AnyOwner(n, k) ==
    ExecuteOne(k \in DOMAIN credentials, "credentials")

PgDeleteCredential(n, k) ==
    ExecuteOne(\E c \in DOMAIN credentials :
                  c = k /\ credentials[c].username = n, "credentials")

PgCreateExternalPrincipal(n, i) ==
    Require(i \notin DOMAIN external_principals,
            AlreadyExists("external principal"),
    Require(n \in DOMAIN users, MissingFromConstraint("user", <<"user">>), Ok({})))

PgDeleteExternalPrincipal(n, i) ==
    ExecuteOne(\E j \in DOMAIN external_principals :
                  j = i /\ external_principals[j].username = n,
               "external principal")

-----------------------------------------------------------------------------
(* MemStore.  The calls that only look a key up, or remove it, differ from *)
(* those of PgStore in nothing but the container; they are not repeated.   *)

PageSorted(rows, window) == Ok({r \in rows : r[1] \in window})

\* The rows of `table` under those of `keys` that it has (filter_map).
Named(table, keys) == {<<k, table[k]>> : k \in DOMAIN table \cap keys}

MemListGroupMembers(g, window) ==
    Require(g \in DOMAIN groups, NotFound("group"),
            PageSorted(Named(users, {k[2] : k \in {m \in DOMAIN group_members :
                                                    m[1] = g}}), window))

MemListUserGroups(n, window) ==
    Require(n \in DOMAIN users, NotFound("user"),
            PageSorted(Named(groups, {k[1] : k \in {m \in DOMAIN group_members :
                                                     m[2] = n}}), window))

PoliciesNamed(names) == Named(policies, names)

MemListUserPolicies(n, window) ==
    Require(n \in DOMAIN users, NotFound("user"),
            PageSorted(PoliciesNamed({k[2] : k \in {a \in DOMAIN user_policies :
                                                     a[1] = n}}), window))

MemListEffectiveUserPolicies(n, window) ==
    LET memberOf == {k[1] : k \in {m \in DOMAIN group_members : m[2] = n}}
        names == {k[2] : k \in {a \in DOMAIN user_policies : a[1] = n}}
                 \cup {k[2] : k \in {a \in group_policies : a[1] \in memberOf}}
    IN  Require(n \in DOMAIN users, NotFound("user"),
                PageSorted(PoliciesNamed(names), window))

MemListGroupPolicies(g, window) ==
    Require(g \in DOMAIN groups, NotFound("group"),
            PageSorted(PoliciesNamed({k[2] : k \in {a \in group_policies :
                                                     a[1] = g}}), window))

\* The record holds the user_id that was copied when it was inserted.
MemGetCredential(k) ==
    Require(k \in DOMAIN credentials, NotFound("credentials"),
            Ok(Named(credentials, {k})))

MemGetUserCredential(n, k) ==
    Require(k \in DOMAIN credentials /\ credentials[k].username = n,
            NotFound("credentials"), Ok(Named(credentials, {k})))

MemListUserCredentials(n, window) ==
    Require(n \in DOMAIN users, NotFound("user"),
            PageSorted({r \in Named(credentials, DOMAIN credentials) :
                          r[2].username = n}, window))

MemListUserExternalPrincipals(n, window) ==
    Require(n \in DOMAIN users, NotFound("user"),
            PageSorted({PrincipalRow(i) :
                          i \in {j \in DOMAIN external_principals :
                                   external_principals[j].username = n}}, window))

MemCreateUser(new) ==
    Require(new.username \notin DOMAIN users, AlreadyExists("user"),
    Require(new.email = None \/ ~\E n \in DOMAIN users : users[n].email = new.email,
            AlreadyExists("user with email"),
    Require(new.external_id = None
              \/ ~\E n \in DOMAIN users : users[n].external_id = new.external_id,
            AlreadyExists("user with external id"), Ok({}))))

MemAddMembership(g, n) ==
    Require(g \in DOMAIN groups, NotFound("group"),
    Require(n \in DOMAIN users, NotFound("user"), Ok({})))

MemAttachPolicyToUser(n, p) ==
    Require(n \in DOMAIN users, NotFound("user"),
    Require(p \in DOMAIN policies, NotFound("policy"), Ok({})))

MemAttachPolicyToGroup(g, p) ==
    Require(g \in DOMAIN groups, NotFound("group"),
    Require(p \in DOMAIN policies, NotFound("policy"), Ok({})))

MemCreateCredential(n, k) ==
    Require(n \in DOMAIN users, NotFound("user"),
    Require(k \notin DOMAIN credentials, AlreadyExists("credentials"), Ok({})))

MemCreateExternalPrincipal(n, i) ==
    Require(n \in DOMAIN users, NotFound("user"),
    Require(i \notin DOMAIN external_principals,
            AlreadyExists("external principal"), Ok({})))

-----------------------------------------------------------------------------
(* Properties. *)

\* What list_* and get_* of the memberships, attachments and credentials answer
\* is the same in both stores in every state that store calls can reach, for
\* every owner, present or not, and every page: PgStore may take a page with
\* rows as proof that the owner exists, and may join the user_id of a
\* credential in, only because no row outlives its owner.
ReadsAlike ==
    /\ \A g \in Groups, window \in SUBSET Usernames :
          PgListGroupMembers(g, window) = MemListGroupMembers(g, window)
    /\ \A n \in Usernames, window \in SUBSET Groups :
          PgListUserGroups(n, window) = MemListUserGroups(n, window)
    /\ \A n \in Usernames, window \in SUBSET Policies :
          /\ PgListUserPolicies(n, window) = MemListUserPolicies(n, window)
          /\ PgListEffectiveUserPolicies(n, window) =
                MemListEffectiveUserPolicies(n, window)
    /\ \A g \in Groups, window \in SUBSET Policies :
          PgListGroupPolicies(g, window) = MemListGroupPolicies(g, window)
    /\ \A n \in Usernames, window \in SUBSET AccessKeys :
          PgListUserCredentials(n, window) = MemListUserCredentials(n, window)
    /\ \A n \in Usernames, window \in SUBSET Principals :
          PgListUserExternalPrincipals(n, window) =
             MemListUserExternalPrincipals(n, window)
    /\ \A k \in AccessKeys : PgGetCredential(k) = MemGetCredential(k)
    /\ \A n \in Usernames, k \in AccessKeys :
          PgGetUserCredential(n, k) = MemGetUserCredential(n, k)

\* An insert that names its user and its key wrongly at once is refused by both
\* stores, but with different errors: the constraint that PostgreSQL checks
\* first is the unique key, and the check that MemStore makes first is the user.
AlikeButForTheOrder(pg, mem, keyTaken, userMissing, entity) ==
    IF keyTaken /\ userMissing
      THEN pg = AlreadyExists(entity) /\ mem = NotFound("user")
      ELSE pg = mem

\* The inserts that a constraint may refuse answer alike: success, or the same
\* error with the same entity, which PgStore has to read off the name of the
\* constraint.  A repeated membership or attachment, which PostgreSQL accepts
\* without looking at the references, succeeds in MemStore too.
WritesAlike ==
    /\ \A new \in NewUser : PgCreateUser(new) = MemCreateUser(new)
    /\ \A g \in Groups, n \in Usernames :
          PgInsertMembership(g, n) = MemAddMembership(g, n)
    /\ \A n \in Usernames, p \in Policies :
          PgInsertUserPolicy(n, p) = MemAttachPolicyToUser(n, p)
    /\ \A g \in Groups, p \in Policies :
          PgInsertGroupPolicy(g, p) = MemAttachPolicyToGroup(g, p)
    /\ \A n \in Usernames, k \in AccessKeys :
          AlikeButForTheOrder(PgCreateCredential(n, k), MemCreateCredential(n, k),
                              k \in DOMAIN credentials, n \notin DOMAIN users,
                              "credentials")
    /\ \A n \in Usernames, i \in Principals :
          AlikeButForTheOrder(PgCreateExternalPrincipal(n, i),
                              MemCreateExternalPrincipal(n, i),
                              i \in DOMAIN external_principals,
                              n \notin DOMAIN users, "external principal")

\* The several ways to one row agree.  A lookup by user_id, email or external
\* id finds nothing, or the one row that get_user answers; a credential or a
\* principal is listed for exactly the user under whose name it can be got and
\* deleted, and a page shows exactly the rows that can be got one by one.
LookupsAgree ==
    /\ \A found \in {PgFindUserById(id) : id \in UserIds}
                      \cup {PgFindUserByEmail(e) : e \in Emails}
                      \cup {PgFindUserByExternalId(x) : x \in ExternalIds} :
          found = Ok({}) \/ \E n \in Usernames : found = PgGetUser(n)
    /\ \A n \in Usernames :
          (PgListUsers({n}) # Ok({})) = (PgGetUser(n) = PgListUsers({n}))
    /\ \A g \in Groups :
          (PgListGroups({g}) # Ok({})) = (PgGetGroup(g) = PgListGroups({g}))
    /\ \A p \in Policies :
          (PgListPolicies({p}) # Ok({})) = (PgGetPolicy(p) = PgListPolicies({p}))
    /\ \A n \in Usernames, k \in AccessKeys :
          LET got == PgGetUserCredential(n, k)
          IN  /\ (PgDeleteCredential(n, k) = Ok({}))
                   = (got = PgListUserCredentials(n, {k}))
              /\ got[1] = "ok" => /\ got = PgGetCredential(k)
                                  /\ got = PgListUserCredentials(n, {k})
    /\ \A n \in Usernames, i \in Principals :
          (PgDeleteExternalPrincipal(n, i) = Ok({}))
             = (PgListUserExternalPrincipals(n, {i}) = PgGetExternalPrincipal(i))

=============================================================================
