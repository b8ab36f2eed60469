--------------------------- MODULE TwoStoresProofs ---------------------------
(***************************************************************************)
(* The PostgreSQL store and the in-memory store promise the same, for      *)
(* every choice of the constants.                                          *)
(*                                                                         *)
(* Call by call: what PgStore leaves to constraints and joins agrees with  *)
(* what MemStore checks, because the store invariant holds.                *)
(*                                                                         *)
(* The bootstrap: runs of several replicas, each one transaction, together *)
(* with API requests between their statements.  The inductive invariant    *)
(* BootIInv says what the uncommitted rows of a run are: rows that fit the *)
(* database they will be committed to, that no other open transaction has, *)
(* and among them every entry the run is done with.  StagedOk adds that a  *)
(* run nobody disturbs sees what the staged run of MemStore has.           *)
(***************************************************************************)
EXTENDS StoreAnswers, Bootstrap, AuthzStoreProofs, WellFoundedInduction, SequenceTheorems

-----------------------------------------------------------------------------
(* Call by call. *)

\* The lists of groups and users, of both stores, select the same rows.
LEMMA MembershipListsAlike ==
    ASSUME StoreInv
    PROVE  /\ \A g \in Groups, window \in SUBSET Usernames :
                PgListGroupMembers(g, window) = MemListGroupMembers(g, window)
           /\ \A n \in Usernames, window \in SUBSET Groups :
                PgListUserGroups(n, window) = MemListUserGroups(n, window)
<1>1. ASSUME NEW g \in Groups, NEW window \in SUBSET Usernames
      PROVE  PgListGroupMembers(g, window) = MemListGroupMembers(g, window)
  <2> DEFINE named == {k[2] : k \in {m \in DOMAIN group_members : m[1] = g}}
  <2>1. \A u \in DOMAIN users :
          u \in named <=> <<g, u>> \in DOMAIN group_members
    BY DEF StoreInv, TypeOK, IsTable, MembershipKeys
  <2>2. LIST_GROUP_MEMBERS(g) = Named(users, named)
    BY <2>1 DEF LIST_GROUP_MEMBERS, Named, UserRow
  <2>3. g \notin DOMAIN groups => LIST_GROUP_MEMBERS(g) = {}
    BY DEF StoreInv, ReferentialIntegrity, LIST_GROUP_MEMBERS
  <2> QED
    BY <2>2, <2>3
       DEF PgListGroupMembers, MemListGroupMembers, FetchOwnedPage, FetchPage, PageSorted, Require, Ok
<1>2. ASSUME NEW n \in Usernames, NEW window \in SUBSET Groups
      PROVE  PgListUserGroups(n, window) = MemListUserGroups(n, window)
  <2> DEFINE named == {k[1] : k \in {m \in DOMAIN group_members : m[2] = n}}
  <2>1. \A g \in DOMAIN groups :
          g \in named <=> <<g, n>> \in DOMAIN group_members
    BY DEF StoreInv, TypeOK, IsTable, MembershipKeys
  <2>2. LIST_USER_GROUPS(n) = Named(groups, named)
    BY <2>1 DEF LIST_USER_GROUPS, Named, GroupRow
  <2>3. n \notin DOMAIN users => LIST_USER_GROUPS(n) = {}
    BY DEF StoreInv, NoInheritedGrants, LIST_USER_GROUPS
  <2> QED
    BY <2>2, <2>3
       DEF PgListUserGroups, MemListUserGroups, FetchOwnedPage, FetchPage, PageSorted, Require, Ok
<1> QED  BY <1>1, <1>2

\* The lists of policies of a user or a group select the same rows, the
\* effective ones, a UNION in PostgreSQL, included.
LEMMA PolicyListsAlike ==
    ASSUME StoreInv, NEW window \in SUBSET Policies
    PROVE  /\ \A n \in Usernames :
                /\ PgListUserPolicies(n, window) = MemListUserPolicies(n, window)
                /\ PgListEffectiveUserPolicies(n, window)
                     = MemListEffectiveUserPolicies(n, window)
           /\ \A g \in Groups :
                PgListGroupPolicies(g, window) = MemListGroupPolicies(g, window)
<1>1. ASSUME NEW n \in Usernames
      PROVE  PgListUserPolicies(n, window) = MemListUserPolicies(n, window)
  <2> DEFINE named == {k[2] : k \in {a \in DOMAIN user_policies : a[1] = n}}
  <2>1. \A p \in DOMAIN policies :
          p \in named <=> <<n, p>> \in DOMAIN user_policies
    BY DEF StoreInv, TypeOK, IsTable, UserPolicyKeys
  <2>2. LIST_USER_POLICIES(n) = PoliciesNamed(named)
    BY <2>1 DEF LIST_USER_POLICIES, PoliciesNamed, Named, PolicyRow
  <2>3. n \notin DOMAIN users => LIST_USER_POLICIES(n) = {}
    BY DEF StoreInv, NoInheritedGrants, LIST_USER_POLICIES
  <2> QED
    BY <2>2, <2>3
       DEF PgListUserPolicies, MemListUserPolicies, FetchOwnedPage, FetchPage,
           PageSorted, Require, Ok
<1>2. ASSUME NEW n \in Usernames
      PROVE  PgListEffectiveUserPolicies(n, window)
               = MemListEffectiveUserPolicies(n, window)
  <2> DEFINE memberOf == {k[1] : k \in {m \in DOMAIN group_members : m[2] = n}}
             direct == {k[2] : k \in {a \in DOMAIN user_policies : a[1] = n}}
             viaGroup == {k[2] : k \in {a \in group_policies : a[1] \in memberOf}}
             attached ==
                {q \in Policies : <<n, q>> \in DOMAIN user_policies}
                \cup {q \in Policies :
                        \E g \in Groups : /\ <<g, q>> \in group_policies
                                          /\ <<g, n>> \in DOMAIN group_members}
  <2>1. direct = {q \in Policies : <<n, q>> \in DOMAIN user_policies}
    BY DEF StoreInv, TypeOK, IsTable, UserPolicyKeys
  <2>2. \A g : g \in memberOf <=> g \in Groups /\ <<g, n>> \in DOMAIN group_members
    BY DEF StoreInv, TypeOK, IsTable, MembershipKeys
  <2>3. viaGroup = {q \in Policies :
                      \E g \in Groups : /\ <<g, q>> \in group_policies
                                        /\ <<g, n>> \in DOMAIN group_members}
    <3>1. ASSUME NEW q \in viaGroup
          PROVE  /\ q \in Policies
                 /\ \E g \in Groups : /\ <<g, q>> \in group_policies
                                      /\ <<g, n>> \in DOMAIN group_members
      <4>1. PICK a \in group_policies : a[1] \in memberOf /\ q = a[2]
        OBVIOUS
      <4>2. a[1] \in Groups /\ a[2] \in Policies /\ a = <<a[1], a[2]>>
        BY DEF StoreInv, TypeOK
      <4> HIDE DEF memberOf
      <4> QED  BY <2>2, <4>1, <4>2
    <3>2. ASSUME NEW q \in Policies, NEW g \in Groups,
                 <<g, q>> \in group_policies, <<g, n>> \in DOMAIN group_members
          PROVE  q \in viaGroup
      <4>1. g \in memberOf
        BY <2>2, <3>2
      <4> HIDE DEF memberOf
      <4>2. <<g, q>> \in {a \in group_policies : a[1] \in memberOf}
        BY <3>2, <4>1
      <4> QED  BY <4>2
    <3> HIDE DEF viaGroup
    <3> QED  BY <3>1, <3>2
  <2>4. direct \cup viaGroup = attached
    BY <2>1, <2>3
  <2>5. LIST_EFFECTIVE_USER_POLICIES(n) = PoliciesNamed(direct \cup viaGroup)
    <3>1. LIST_EFFECTIVE_USER_POLICIES(n)
            = {PolicyRow(p) : p \in DOMAIN policies \cap attached}
      BY DEF LIST_EFFECTIVE_USER_POLICIES
    <3> HIDE DEF direct, viaGroup, attached
    <3> QED  BY <2>4, <3>1 DEF PoliciesNamed, Named, PolicyRow
  <2>6. n \notin DOMAIN users => LIST_EFFECTIVE_USER_POLICIES(n) = {}
    BY DEF StoreInv, NoInheritedGrants, LIST_EFFECTIVE_USER_POLICIES
  <2>7. MemListEffectiveUserPolicies(n, window)
          = Require(n \in DOMAIN users, NotFound("user"),
                    PageSorted(PoliciesNamed(direct \cup viaGroup), window))
    BY DEF MemListEffectiveUserPolicies
  <2> HIDE DEF direct, viaGroup
  <2> QED
    BY <2>5, <2>6, <2>7
       DEF PgListEffectiveUserPolicies, FetchOwnedPage, FetchPage, PageSorted,
           Require, Ok
<1>3. ASSUME NEW g \in Groups
      PROVE  PgListGroupPolicies(g, window) = MemListGroupPolicies(g, window)
  <2> DEFINE named == {k[2] : k \in {a \in group_policies : a[1] = g}}
  <2>1. \A p \in DOMAIN policies : p \in named <=> <<g, p>> \in group_policies
    BY DEF StoreInv, TypeOK
  <2>2. LIST_GROUP_POLICIES(g) = PoliciesNamed(named)
    BY <2>1 DEF LIST_GROUP_POLICIES, PoliciesNamed, Named, PolicyRow
  <2>3. g \notin DOMAIN groups => LIST_GROUP_POLICIES(g) = {}
    BY DEF StoreInv, ReferentialIntegrity, LIST_GROUP_POLICIES
  <2> QED
    BY <2>2, <2>3
       DEF PgListGroupPolicies, MemListGroupPolicies, FetchOwnedPage, FetchPage,
           PageSorted, Require, Ok
<1> QED  BY <1>1, <1>2, <1>3

\* A credential never outlives its user, so the join finds the very user_id
\* that MemStore copied.
LEMMA CredentialJoin ==
    ASSUME StoreInv
    PROVE  /\ JoinedKeys = DOMAIN credentials
           /\ \A k \in DOMAIN credentials : JoinedCredential(k) = <<k, credentials[k]>>
<1>1. \A k \in DOMAIN credentials :
        /\ credentials[k] \in CredentialRecord
        /\ credentials[k].username \in DOMAIN users
        /\ credentials[k].user_id = users[credentials[k].username].user_id
  BY DEF StoreInv, TypeOK, IsTable, NoInheritedGrants
<1> QED  BY <1>1 DEF JoinedKeys, JoinedCredential, CredentialRecord

\* The reads of credentials and of external principals answer alike.
LEMMA CredentialReadsAlike ==
    ASSUME StoreInv
    PROVE  /\ \A n \in Usernames, window \in SUBSET AccessKeys :
                PgListUserCredentials(n, window) = MemListUserCredentials(n, window)
           /\ \A n \in Usernames, window \in SUBSET Principals :
                PgListUserExternalPrincipals(n, window) =
                   MemListUserExternalPrincipals(n, window)
           /\ \A k \in AccessKeys : PgGetCredential(k) = MemGetCredential(k)
           /\ \A n \in Usernames, k \in AccessKeys :
                PgGetUserCredential(n, k) = MemGetUserCredential(n, k)
<1>1. ASSUME NEW n \in Usernames, NEW window \in SUBSET AccessKeys
      PROVE  PgListUserCredentials(n, window) = MemListUserCredentials(n, window)
  <2>1. LIST_USER_CREDENTIALS(n)
          = {r \in Named(credentials, DOMAIN credentials) : r[2].username = n}
    BY CredentialJoin DEF LIST_USER_CREDENTIALS, Named
  <2>2. n \notin DOMAIN users => LIST_USER_CREDENTIALS(n) = {}
    BY DEF LIST_USER_CREDENTIALS, JoinedKeys
  <2> QED
    BY <2>1, <2>2
       DEF PgListUserCredentials, MemListUserCredentials, FetchOwnedPage,
           FetchPage, PageSorted, Require, Ok
<1>2. ASSUME NEW n \in Usernames, NEW window \in SUBSET Principals
      PROVE  PgListUserExternalPrincipals(n, window) =
                MemListUserExternalPrincipals(n, window)
  <2>1. n \notin DOMAIN users => LIST_USER_EXTERNAL_PRINCIPALS(n) = {}
    BY DEF StoreInv, NoInheritedGrants, LIST_USER_EXTERNAL_PRINCIPALS
  <2> QED
    BY <2>1
       DEF PgListUserExternalPrincipals, MemListUserExternalPrincipals,
           LIST_USER_EXTERNAL_PRINCIPALS, FetchOwnedPage, FetchPage, PageSorted,
           Require, Ok
<1>3. ASSUME NEW k \in AccessKeys PROVE PgGetCredential(k) = MemGetCredential(k)
  <2>1. SELECT_CREDENTIAL(k) = Named(credentials, {k})
    BY CredentialJoin DEF SELECT_CREDENTIAL, Named
  <2>2. SELECT_CREDENTIAL(k) = {} <=> k \notin DOMAIN credentials
    BY CredentialJoin DEF SELECT_CREDENTIAL
  <2> QED
    BY <2>1, <2>2 DEF PgGetCredential, MemGetCredential, FetchOne, Require
<1>4. ASSUME NEW n \in Usernames, NEW k \in AccessKeys
      PROVE  PgGetUserCredential(n, k) = MemGetUserCredential(n, k)
  <2> DEFINE owned == k \in DOMAIN credentials /\ credentials[k].username = n
  <2>1. owned => SELECT_USER_CREDENTIAL(n, k) = Named(credentials, {k})
    BY CredentialJoin DEF SELECT_USER_CREDENTIAL, Named
  <2>2. SELECT_USER_CREDENTIAL(n, k) = {} <=> ~owned
    BY CredentialJoin DEF SELECT_USER_CREDENTIAL
  <2> QED
    BY <2>1, <2>2 DEF PgGetUserCredential, MemGetUserCredential, FetchOne, Require
<1> QED  BY <1>1, <1>2, <1>3, <1>4

\* In every state that store calls can reach, for any number of users, groups,
\* policies and keys, the reads of the two stores answer alike.
THEOREM ReadsAnswerAlike == Spec => []ReadsAlike
<1>1. StoreInv => ReadsAlike
  BY MembershipListsAlike, PolicyListsAlike, CredentialReadsAlike DEF ReadsAlike
<1> QED  BY <1>1, StoreCorrect, PTL

\* The inserts of the two stores answer alike, but for the order of two errors.
THEOREM WritesAnswerAlike == Spec => []WritesAlike
<1>1. ASSUME StoreInv PROVE WritesAlike
  <2>1. ASSUME NEW new \in NewUser PROVE PgCreateUser(new) = MemCreateUser(new)
    BY DEF PgCreateUser, MemCreateUser, UserConflictNamed, Require,
           FindUserByEmail, FindUserByExternalId
  <2>2. ASSUME NEW g \in Groups, NEW n \in Usernames
        PROVE  PgInsertMembership(g, n) = MemAddMembership(g, n)
    <3>1. <<g, n>> \in DOMAIN group_members => g \in DOMAIN groups /\ n \in DOMAIN users
      BY <1>1 DEF StoreInv, ReferentialIntegrity, NoInheritedGrants
    <3>2. MissingFromConstraint("group", <<"user", "group">>) = NotFound("group")
      BY DEF MissingFromConstraint
    <3>3. MissingFromConstraint("user", <<"user", "group">>) = NotFound("user")
      BY DEF MissingFromConstraint
    <3> QED
      BY <3>1, <3>2, <3>3 DEF PgInsertMembership, MemAddMembership, Require
  <2>3. ASSUME NEW n \in Usernames, NEW p \in Policies
        PROVE  PgInsertUserPolicy(n, p) = MemAttachPolicyToUser(n, p)
    <3>1. <<n, p>> \in DOMAIN user_policies => n \in DOMAIN users /\ p \in DOMAIN policies
      BY <1>1 DEF StoreInv, ReferentialIntegrity, NoInheritedGrants
    <3>2. MissingFromConstraint("policy", <<"user", "policy">>) = NotFound("policy")
      BY DEF MissingFromConstraint
    <3>3. MissingFromConstraint("user", <<"user", "policy">>) = NotFound("user")
      BY DEF MissingFromConstraint
    <3> QED
      BY <3>1, <3>2, <3>3 DEF PgInsertUserPolicy, MemAttachPolicyToUser, Require
  <2>4. ASSUME NEW g \in Groups, NEW p \in Policies
        PROVE  PgInsertGroupPolicy(g, p) = MemAttachPolicyToGroup(g, p)
    <3>1. <<g, p>> \in group_policies => g \in DOMAIN groups /\ p \in DOMAIN policies
      BY <1>1 DEF StoreInv, ReferentialIntegrity
    <3>2. MissingFromConstraint("policy", <<"group", "policy">>) = NotFound("policy")
      BY DEF MissingFromConstraint
    <3>3. MissingFromConstraint("group", <<"group", "policy">>) = NotFound("group")
      BY DEF MissingFromConstraint
    <3> QED
      BY <3>1, <3>2, <3>3 DEF PgInsertGroupPolicy, MemAttachPolicyToGroup, Require
  <2>5. MissingFromConstraint("user", <<"user">>) = NotFound("user")
    BY DEF MissingFromConstraint
  <2>6. ASSUME NEW n \in Usernames, NEW k \in AccessKeys
        PROVE  AlikeButForTheOrder(
                  PgCreateCredential(n, k), MemCreateCredential(n, k),
                  k \in DOMAIN credentials, n \notin DOMAIN users, "credentials")
    BY <2>5 DEF AlikeButForTheOrder, PgCreateCredential, MemCreateCredential, Require
  <2>7. ASSUME NEW n \in Usernames, NEW i \in Principals
        PROVE  AlikeButForTheOrder(
                  PgCreateExternalPrincipal(n, i), MemCreateExternalPrincipal(n, i),
                  i \in DOMAIN external_principals, n \notin DOMAIN users,
                  "external principal")
    BY <2>5 DEF AlikeButForTheOrder, PgCreateExternalPrincipal,
                MemCreateExternalPrincipal, Require
  <2> QED  BY <2>1, <2>2, <2>3, <2>4, <2>6, <2>7 DEF WritesAlike
<1> QED  BY <1>1, StoreCorrect, PTL

\* A lookup by a column that identifies its row finds nothing, or the row that
\* get_user answers for one name.
LEMMA LookupFinds ==
    ASSUME TypeOK, NEW S \in SUBSET DOMAIN users,
           \A m, n \in S : m = n
    PROVE  LET found == Ok({UserRow(u) : u \in S})
           IN found = Ok({}) \/ \E n \in Usernames : found = PgGetUser(n)
<1>1. CASE S = {}
  BY <1>1
<1>2. CASE S # {}
  <2>1. PICK n \in S : S = {n}
    BY <1>2
  <2>2. n \in Usernames /\ DOMAIN users \cap {n} = {n}
    BY DEF TypeOK, IsTable
  <2>3. SELECT_USER(n) = {UserRow(u) : u \in S} /\ SELECT_USER(n) # {}
    BY <2>1, <2>2 DEF SELECT_USER
  <2>4. PgGetUser(n) = Ok({UserRow(u) : u \in S})
    BY <2>3 DEF PgGetUser, FetchOne
  <2> QED  BY <2>2, <2>4
<1> QED  BY <1>1, <1>2

\* A page that lets one key through answers what the lookup of that key finds.
LEMMA OneRowPages ==
    /\ \A n \in Usernames :
          (PgListUsers({n}) # Ok({})) = (PgGetUser(n) = PgListUsers({n}))
    /\ \A g \in Groups :
          (PgListGroups({g}) # Ok({})) = (PgGetGroup(g) = PgListGroups({g}))
    /\ \A p \in Policies :
          (PgListPolicies({p}) # Ok({})) = (PgGetPolicy(p) = PgListPolicies({p}))
<1>1. \A n : PgListUsers({n}) = Ok(SELECT_USER(n))
  BY DEF PgListUsers, FetchPage, SELECT_USER, UserRow
<1>2. \A g : PgListGroups({g}) = Ok(SELECT_GROUP(g))
  BY DEF PgListGroups, FetchPage, SELECT_GROUP, GroupRow
<1>3. \A p : PgListPolicies({p}) = Ok(SELECT_POLICY(p))
  BY DEF PgListPolicies, FetchPage, SELECT_POLICY, PolicyRow
<1>4. \A rows, entity :
        (Ok(rows) # Ok({})) = (FetchOne(rows, entity) = Ok(rows))
  BY DEF FetchOne, Ok, NotFound
<1> QED
  BY <1>1, <1>2, <1>3, <1>4 DEF PgGetUser, PgGetGroup, PgGetPolicy

\* A credential is got, listed and deleted under the name of its owner only.
LEMMA CredentialWays ==
    ASSUME StoreInv, NEW n \in Usernames, NEW k \in AccessKeys
    PROVE  LET got == PgGetUserCredential(n, k)
           IN  /\ (PgDeleteCredential(n, k) = Ok({}))
                    = (got = PgListUserCredentials(n, {k}))
               /\ got[1] = "ok" => /\ got = PgGetCredential(k)
                                   /\ got = PgListUserCredentials(n, {k})
<1> DEFINE owned == k \in DOMAIN credentials /\ credentials[k].username = n
           row == {JoinedCredential(k)}
           page == {r \in LIST_USER_CREDENTIALS(n) : r[1] \in {k}}
<1>1. JoinedKeys = DOMAIN credentials
  BY CredentialJoin
<1>2. page = IF owned THEN row ELSE {}
  BY <1>1 DEF LIST_USER_CREDENTIALS, JoinedCredential
<1>3. SELECT_USER_CREDENTIAL(n, k) = IF owned THEN row ELSE {}
  BY <1>1 DEF SELECT_USER_CREDENTIAL
<1>4. owned => SELECT_CREDENTIAL(k) = row
  BY <1>1 DEF SELECT_CREDENTIAL
<1>5. row # {}
  OBVIOUS
<1> HIDE DEF row
<1>6. PgGetUserCredential(n, k) =
        IF owned THEN Ok(row) ELSE NotFound("credentials")
  BY <1>3, <1>5 DEF PgGetUserCredential, FetchOne
<1>7. owned => PgGetCredential(k) = Ok(row)
  BY <1>4, <1>5 DEF PgGetCredential, FetchOne
<1>8. FetchPage(LIST_USER_CREDENTIALS(n), {k}) = Ok(page)
  BY DEF FetchPage
<1> HIDE DEF page, owned
<1>9. /\ owned => PgListUserCredentials(n, {k}) = Ok(row)
      /\ ~owned => PgListUserCredentials(n, {k}) \in {Ok({}), NotFound("user")}
  <2>1. Ok(row) # Ok({})
    BY <1>5 DEF Ok
  <2>2. CASE owned
    BY <1>2, <1>8, <2>1, <2>2
       DEF PgListUserCredentials, FetchOwnedPage, Require
  <2>3. CASE ~owned
    BY <1>2, <1>8, <2>3 DEF PgListUserCredentials, FetchOwnedPage, Require
  <2> QED  BY <2>2, <2>3
<1> USE DEF owned
<1>10. (PgDeleteCredential(n, k) = Ok({})) <=> owned
  BY DEF PgDeleteCredential, ExecuteOne, Ok, NotFound
<1> HIDE DEF owned
<1>11. CASE owned
  BY <1>6, <1>7, <1>9, <1>10, <1>11
<1>12. CASE ~owned
  <2>1. PgGetUserCredential(n, k) = NotFound("credentials")
    BY <1>6, <1>12
  <2>2. PgGetUserCredential(n, k)[1] # "ok"
    BY <2>1 DEF NotFound
  <2>3. PgGetUserCredential(n, k) # PgListUserCredentials(n, {k})
    BY <1>9, <1>12, <2>1 DEF NotFound, Ok
  <2> QED  BY <1>10, <1>12, <2>2, <2>3
<1> QED  BY <1>11, <1>12

\* An external principal is listed and deleted under the name of its owner.
LEMMA PrincipalWays ==
    ASSUME StoreInv, NEW n \in Usernames, NEW i \in Principals
    PROVE  (PgDeleteExternalPrincipal(n, i) = Ok({}))
             = (PgListUserExternalPrincipals(n, {i}) = PgGetExternalPrincipal(i))
<1> DEFINE owned == /\ i \in DOMAIN external_principals
                    /\ external_principals[i].username = n
           row == {PrincipalRow(i)}
           page == {r \in LIST_USER_EXTERNAL_PRINCIPALS(n) : r[1] \in {i}}
<1>1. page = IF owned THEN row ELSE {}
  BY DEF LIST_USER_EXTERNAL_PRINCIPALS, PrincipalRow
<1>2. SELECT_EXTERNAL_PRINCIPAL(i)
        = IF i \in DOMAIN external_principals THEN row ELSE {}
  BY DEF SELECT_EXTERNAL_PRINCIPAL
<1>3. row # {}
  OBVIOUS
<1> HIDE DEF row
<1>4. PgGetExternalPrincipal(i) =
        IF i \in DOMAIN external_principals THEN Ok(row)
        ELSE NotFound("external principal")
  BY <1>2, <1>3 DEF PgGetExternalPrincipal, FetchOne
<1>5. FetchPage(LIST_USER_EXTERNAL_PRINCIPALS(n), {i}) = Ok(page)
  BY DEF FetchPage
<1>6. /\ owned => PgListUserExternalPrincipals(n, {i}) = Ok(row)
      /\ ~owned => PgListUserExternalPrincipals(n, {i})
                      \in {Ok({}), NotFound("user")}
  BY <1>1, <1>3, <1>5
     DEF PgListUserExternalPrincipals, FetchOwnedPage, Require, Ok
<1>7. (PgDeleteExternalPrincipal(n, i) = Ok({})) <=> owned
  BY DEF PgDeleteExternalPrincipal, ExecuteOne, Ok, NotFound
<1>8. CASE owned
  BY <1>4, <1>6, <1>7, <1>8
<1>9. CASE ~owned
  <2>1. PgListUserExternalPrincipals(n, {i}) # PgGetExternalPrincipal(i)
    <3>1. /\ Ok(row) \notin {Ok({}), NotFound("user")}
          /\ NotFound("external principal") \notin {Ok({}), NotFound("user")}
      BY <1>3 DEF NotFound, Ok
    <3> QED  BY <1>4, <1>6, <1>9, <3>1
  <2> QED  BY <1>7, <1>9, <2>1
<1> QED  BY <1>8, <1>9

\* In every state that store calls can reach, the several ways to one row
\* agree, for any number of users, groups, policies and keys.
THEOREM LookupsFindOneRow == Spec => []LookupsAgree
<1>1. ASSUME StoreInv PROVE LookupsAgree
  <2>1. ASSUME NEW id \in UserIds
        PROVE  \/ PgFindUserById(id) = Ok({})
               \/ \E n \in Usernames : PgFindUserById(id) = PgGetUser(n)
    <3> DEFINE S == {v \in DOMAIN users : users[v].user_id = id}
    <3>1. \A m, n \in S : m = n
      BY <1>1 DEF StoreInv, UniqueIdentities
    <3>2. PgFindUserById(id) = Ok({UserRow(u) : u \in S})
      BY DEF PgFindUserById, FetchOptional, SELECT_USER_BY_ID
    <3> HIDE DEF S
    <3> QED  BY <1>1, <3>1, <3>2, LookupFinds DEF StoreInv, S
  <2>2. ASSUME NEW e \in Emails
        PROVE  \/ PgFindUserByEmail(e) = Ok({})
               \/ \E n \in Usernames : PgFindUserByEmail(e) = PgGetUser(n)
    <3> DEFINE S == FindUserByEmail(e)
    <3>1. S \in SUBSET DOMAIN users /\ \A m, n \in S : m = n
      BY <1>1, NoneAssumption DEF StoreInv, UniqueIdentities, FindUserByEmail
    <3>2. PgFindUserByEmail(e) = Ok({UserRow(u) : u \in S})
      BY DEF PgFindUserByEmail, FetchOptional, SELECT_USER_BY_EMAIL
    <3> QED  BY <1>1, <3>1, <3>2, LookupFinds DEF StoreInv
  <2>3. ASSUME NEW x \in ExternalIds
        PROVE  \/ PgFindUserByExternalId(x) = Ok({})
               \/ \E n \in Usernames : PgFindUserByExternalId(x) = PgGetUser(n)
    <3> DEFINE S == FindUserByExternalId(x)
    <3>1. S \in SUBSET DOMAIN users /\ \A m, n \in S : m = n
      BY <1>1, NoneAssumption
         DEF StoreInv, UniqueIdentities, FindUserByExternalId
    <3>2. PgFindUserByExternalId(x) = Ok({UserRow(u) : u \in S})
      BY DEF PgFindUserByExternalId, FetchOptional, SELECT_USER_BY_EXTERNAL_ID
    <3> QED  BY <1>1, <3>1, <3>2, LookupFinds DEF StoreInv
  <2>4. \A found \in {PgFindUserById(id) : id \in UserIds}
                       \cup {PgFindUserByEmail(e) : e \in Emails}
                       \cup {PgFindUserByExternalId(x) : x \in ExternalIds} :
           found = Ok({}) \/ \E n \in Usernames : found = PgGetUser(n)
    BY <2>1, <2>2, <2>3
  <2> QED
    BY <1>1, <2>4, OneRowPages, CredentialWays, PrincipalWays DEF LookupsAgree
<1> QED  BY <1>1, StoreCorrect, PTL

-----------------------------------------------------------------------------
(* Lists and functions. *)

\* A set of numbers that is not empty has a smallest one: induction over the
\* length of a list is the search for the smallest counterexample.
LEMMA SmallestNumber ==
    ASSUME NEW S, S \subseteq Nat, S # {}
    PROVE  \E m \in S : \A k \in S : m <= k
<1>1. PICK m \in S : \A k \in S : <<k, m>> \notin OpToRel(<, Nat)
  <2> HIDE DEF OpToRel
  <2> QED  BY WFMin, NatLessThanWellFounded
<1>2. ASSUME NEW k \in S
      PROVE  m <= k
  <2>1. k \in Nat /\ m \in Nat
    OBVIOUS
  <2>2. ~(k < m)
    BY <1>1, <2>1 DEF OpToRel
  <2> QED  BY <2>1, <2>2
<1> QED  BY <1>2

\* A function that maps the numbers up to n into S is a sequence of S.
LEMMA SeqOfFunction ==
    ASSUME NEW S, NEW n \in Nat, NEW f \in [1 .. n -> S]
    PROVE  f \in Seq(S)
BY SeqDef

\* What FlattenSeq computes: g[i] is the concatenation of the first i sequences.
IsFlatten(g, seqs, n) ==
    g = [i \in 1 .. n |-> IF i = 1 THEN seqs[i] ELSE g[i - 1] \o seqs[i]]

\* The empty concatenation, and how to go on by one sequence.
LEMMA FlattenGrows ==
    ASSUME NEW seqs, NEW n \in Nat
    PROVE  /\ \E g : IsFlatten(g, seqs, 0)
           /\ (\E h : IsFlatten(h, seqs, n)) => \E g : IsFlatten(g, seqs, n + 1)
<1>1. \E g : IsFlatten(g, seqs, 0)
  <2> DEFINE e == [i \in 1 .. 0 |-> 0]
  <2>1. IsFlatten(e, seqs, 0)
    BY DEF IsFlatten
  <2> QED  BY <2>1
<1>2. ASSUME NEW h, IsFlatten(h, seqs, n)
      PROVE  \E g : IsFlatten(g, seqs, n + 1)
  <2> DEFINE next == IF n = 0 THEN seqs[1] ELSE h[n] \o seqs[n + 1]
             g == [i \in 1 .. n + 1 |-> IF i = n + 1 THEN next ELSE h[i]]
  <2>1. ASSUME NEW i \in 1 .. n + 1
        PROVE  g[i] = IF i = 1 THEN seqs[i] ELSE g[i - 1] \o seqs[i]
    <3>1. CASE i = n + 1
      BY <3>1
    <3>2. CASE i # n + 1
      <4>1. i \in 1 .. n /\ (i # 1 => i - 1 \in 1 .. n /\ i - 1 # n + 1)
        BY <3>2
      <4>2. h[i] = IF i = 1 THEN seqs[i] ELSE h[i - 1] \o seqs[i]
        BY <1>2, <4>1 DEF IsFlatten
      <4> QED  BY <4>1, <4>2, <3>2
    <3> QED  BY <3>1, <3>2
  <2>2. g = [i \in 1 .. n + 1 |-> g[i]]
    OBVIOUS
  <2> HIDE DEF g
  <2>3. IsFlatten(g, seqs, n + 1)
    BY <2>1, <2>2 DEF IsFlatten
  <2> QED  BY <2>3
<1> QED  BY <1>1, <1>2

\* The concatenation that FlattenSeq computes exists for every length.
LEMMA FlattenExists ==
    ASSUME NEW seqs, NEW n \in Nat
    PROVE  \E g : IsFlatten(g, seqs, n)
<1> DEFINE Bad == {m \in Nat : ~\E g : IsFlatten(g, seqs, m)}
<1> SUFFICES ASSUME Bad # {} PROVE FALSE
  OBVIOUS
<1>1. PICK m \in Bad : \A k \in Bad : m <= k
  <2>1. Bad \subseteq Nat
    OBVIOUS
  <2> HIDE DEF Bad
  <2> QED  BY <2>1, SmallestNumber
<1>2. m # 0
  BY FlattenGrows
<1>3. m - 1 \in Nat /\ m - 1 \notin Bad
  BY <1>1, <1>2
<1>4. \E h : IsFlatten(h, seqs, m - 1)
  BY <1>3
<1>5. \E g : IsFlatten(g, seqs, (m - 1) + 1)
  BY <1>3, <1>4, FlattenGrows
<1>6. (m - 1) + 1 = m
  BY <1>1
<1> QED  BY <1>5, <1>6

\* FlattenSeq of sequences over S is a sequence over S.
LEMMA FlattenType ==
    ASSUME NEW S, NEW seqs \in Seq(Seq(S))
    PROVE  FlattenSeq(seqs) \in Seq(S)
<1>1. CASE Len(seqs) = 0
  <2>1. seqs = <<>>
    BY <1>1, EmptySeq
  <2> QED  BY <1>1, <2>1 DEF FlattenSeq
<1>2. CASE Len(seqs) # 0
  <2> DEFINE G == CHOOSE g : IsFlatten(g, seqs, Len(seqs))
  <2>1. IsFlatten(G, seqs, Len(seqs))
    BY FlattenExists, LenProperties
  <2>2. FlattenSeq(seqs) = G[Len(seqs)]
    BY <1>2 DEF FlattenSeq, IsFlatten
  <2> HIDE DEF G
  <2> DEFINE Bad == {m \in 1 .. Len(seqs) : G[m] \notin Seq(S)}
  <2>3. Bad = {}
    <3> SUFFICES ASSUME Bad # {} PROVE FALSE
      OBVIOUS
    <3>1. PICK m \in Bad : \A k \in Bad : m <= k
      <4>1. Bad \subseteq Nat
        OBVIOUS
      <4> HIDE DEF Bad
      <4> QED  BY <4>1, SmallestNumber
    <3>2. seqs[m] \in Seq(S) /\ m \in 1 .. Len(seqs)
      BY ElementOfSeq
    <3>3. G[m] = IF m = 1 THEN seqs[m] ELSE G[m - 1] \o seqs[m]
      BY <2>1, <3>2 DEF IsFlatten
    <3>4. m # 1
      BY <3>2, <3>3
    <3>5. G[m - 1] \in Seq(S)
      BY <3>1, <3>4
    <3> QED  BY <3>2, <3>3, <3>4, <3>5, ConcatProperties
  <2> QED  BY <2>2, <2>3, <1>2, LenProperties
<1> QED  BY <1>1, <1>2
-----------------------------------------------------------------------------
(* The plan. *)

\* The columns of a user that a file gives.
UserColumns ==
    [email : Optional(Emails), external_id : Optional(ExternalIds),
     friendly_name : Optional(FriendlyNames)]

\* The inserts of a plan, by the kind of their row.
Entries ==
    [kind : {"policy"}, key : Policies, row : PolicyRecord]
    \cup [kind : {"group"}, key : Groups, row : GroupRecord]
    \cup [kind : {"user"}, key : Usernames, row : UserColumns]
    \cup [kind : {"membership"}, key : MembershipKeys, row : {None}]
    \cup [kind : {"user_policy"}, key : UserPolicyKeys, row : {None}]
    \cup [kind : {"group_policy"}, key : Groups \X Policies, row : {None}]
    \cup [kind : {"credential"}, key : AccessKeys, row : [username : Usernames]]

\* A list has its elements at the positions 1 to Len.
LEMMA ListElements ==
    ASSUME NEW seq, IsList(seq)
    PROVE  /\ Len(seq) \in Nat /\ DOMAIN seq = 1 .. Len(seq)
           /\ \A i \in 1 .. Len(seq) : seq[i] \in Elements(seq)
BY DEF IsList, Elements

\* The lists of policies, groups and users of a valid file become entries.
LEMMA RowEntries ==
    ASSUME NEW file, WellFormed(file), ValidFile(file)
    PROVE  /\ Each(file.policies, LAMBDA p :
                Entry("policy", p.name,
                      [creation_date |-> CHOOSE d \in Dates : TRUE,
                       statement |-> p.statement, acl |-> p.acl])) \in Seq(Entries)
           /\ Each(file.groups, LAMBDA g :
                Entry("group", g.id, [description |-> g.description])) \in Seq(Entries)
           /\ Each(file.users, LAMBDA u :
                Entry("user", u.username,
                      [email |-> OptionalText(u.email),
                       external_id |-> OptionalText(u.external_id),
                       friendly_name |-> OptionalText(u.friendly_name)]))
                 \in Seq(Entries)
<1>1. Each(file.policies, LAMBDA p :
                Entry("policy", p.name,
                      [creation_date |-> CHOOSE d \in Dates : TRUE,
                       statement |-> p.statement, acl |-> p.acl])) \in Seq(Entries)
  <2> DEFINE today == CHOOSE d \in Dates : TRUE
             ps == file.policies
             made == [i \in 1 .. Len(ps) |->
                        Entry("policy", ps[i].name,
                              [creation_date |-> today,
                               statement |-> ps[i].statement, acl |-> ps[i].acl])]
  <2>1. today \in Dates
    BY DatesAssumption
  <2>2. IsList(ps)
    BY DEF WellFormed
  <2> HIDE DEF today
  <2>3. made \in [1 .. Len(ps) -> Entries]
    BY <2>1, <2>2, ListElements
       DEF WellFormed, ValidFile, Entry, Entries, PolicyRecord
  <2>4. made \in Seq(Entries)
    BY <2>2, <2>3, ListElements, SeqOfFunction
  <2> QED  BY <2>2, <2>4, ListElements DEF Each, today
<1>2. Each(file.groups, LAMBDA g :
                Entry("group", g.id, [description |-> g.description])) \in Seq(Entries)
  <2> DEFINE gs == file.groups
             made == [i \in 1 .. Len(gs) |->
                        Entry("group", gs[i].id, [description |-> gs[i].description])]
  <2>2. IsList(gs)
    BY DEF WellFormed
  <2>3. made \in [1 .. Len(gs) -> Entries]
    BY <2>2, ListElements DEF WellFormed, ValidFile, Entry, Entries, GroupRecord
  <2>4. made \in Seq(Entries)
    BY <2>2, <2>3, ListElements, SeqOfFunction
  <2> QED  BY <2>2, <2>4, ListElements DEF Each
<1>3. Each(file.users, LAMBDA u :
                Entry("user", u.username,
                      [email |-> OptionalText(u.email),
                       external_id |-> OptionalText(u.external_id),
                       friendly_name |-> OptionalText(u.friendly_name)]))
                 \in Seq(Entries)
  <2> DEFINE us == file.users
             made == [i \in 1 .. Len(us) |->
                        Entry("user", us[i].username,
                              [email |-> OptionalText(us[i].email),
                               external_id |-> OptionalText(us[i].external_id),
                               friendly_name |-> OptionalText(us[i].friendly_name)])]
  <2>1. \A u \in Elements(us) :
          /\ u.username \in Usernames
          /\ OptionalText(u.email) \in Optional(Emails)
          /\ OptionalText(u.external_id) \in Optional(ExternalIds)
          /\ OptionalText(u.friendly_name) \in Optional(FriendlyNames)
    BY DEF WellFormed, ValidFile, OptionalText, Optional
  <2>2. IsList(us)
    BY DEF WellFormed
  <2>3. made \in [1 .. Len(us) -> Entries]
    BY <2>1, <2>2, ListElements DEF Entry, Entries, UserColumns
  <2>4. made \in Seq(Entries)
    BY <2>2, <2>3, ListElements, SeqOfFunction
  <2> QED  BY <2>2, <2>4, ListElements DEF Each
<1> QED  BY <1>1, <1>2, <1>3

\* The lists inside the users and groups become entries, one list after the
\* other.
LEMMA AttachedEntries ==
    ASSUME NEW file, WellFormed(file), ValidFile(file)
    PROVE  /\ EachOf(file.users, LAMBDA u : Each(u.groups, LAMBDA g :
                Entry("membership", <<g, u.username>>, None))) \in Seq(Entries)
           /\ EachOf(file.users, LAMBDA u : Each(u.policies, LAMBDA p :
                Entry("user_policy", <<u.username, p>>, None))) \in Seq(Entries)
           /\ EachOf(file.groups, LAMBDA g : Each(g.policies, LAMBDA p :
                Entry("group_policy", <<g.id, p>>, None))) \in Seq(Entries)
           /\ EachOf(file.users, LAMBDA u : Each(u.credentials, LAMBDA c :
                Entry("credential", c.access_key_id, [username |-> u.username])))
                 \in Seq(Entries)
<1> DEFINE us == file.users  gs == file.groups
<1>1. IsList(us) /\ IsList(gs)
  BY DEF WellFormed
<1>2. /\ Len(us) \in Nat /\ DOMAIN us = 1 .. Len(us)
      /\ Len(gs) \in Nat /\ DOMAIN gs = 1 .. Len(gs)
  BY <1>1, ListElements
<1>3. EachOf(us, LAMBDA u : Each(u.groups, LAMBDA g :
                Entry("membership", <<g, u.username>>, None))) \in Seq(Entries)
  <2> DEFINE inner(u) == [j \in DOMAIN u.groups |->
                            Entry("membership", <<u.groups[j], u.username>>, None)]
             made == [i \in 1 .. Len(us) |-> inner(us[i])]
  <2>1. ASSUME NEW u \in Elements(us)
        PROVE  inner(u) \in Seq(Entries)
    <3>1. /\ IsList(u.groups) /\ u.username \in Usernames
          /\ Elements(u.groups) \subseteq Groups
      BY DEF WellFormed, ValidFile
    <3>2. Len(u.groups) \in Nat /\ DOMAIN u.groups = 1 .. Len(u.groups)
      BY <3>1, ListElements
    <3>3. inner(u) \in [1 .. Len(u.groups) -> Entries]
      BY <3>1, <3>2 DEF Entry, Entries, MembershipKeys, Elements
    <3> QED  BY <3>2, <3>3, SeqOfFunction
  <2> HIDE DEF inner
  <2>2. made \in [1 .. Len(us) -> Seq(Entries)]
    BY <1>1, <2>1, ListElements
  <2>3. made \in Seq(Seq(Entries))
    BY <1>2, <2>2, SeqOfFunction
  <2>4. FlattenSeq(made) \in Seq(Entries)
    <3> HIDE DEF made
    <3> QED  BY <2>3, FlattenType
  <2> QED  BY <1>2, <2>4 DEF EachOf, Each, inner
<1>4. EachOf(us, LAMBDA u : Each(u.policies, LAMBDA p :
                Entry("user_policy", <<u.username, p>>, None))) \in Seq(Entries)
  <2> DEFINE inner(u) == [j \in DOMAIN u.policies |->
                            Entry("user_policy", <<u.username, u.policies[j]>>, None)]
             made == [i \in 1 .. Len(us) |-> inner(us[i])]
  <2>1. ASSUME NEW u \in Elements(us)
        PROVE  inner(u) \in Seq(Entries)
    <3>1. /\ IsList(u.policies) /\ u.username \in Usernames
          /\ Elements(u.policies) \subseteq Policies
      BY DEF WellFormed, ValidFile
    <3>2. /\ Len(u.policies) \in Nat
          /\ DOMAIN u.policies = 1 .. Len(u.policies)
      BY <3>1, ListElements
    <3>3. inner(u) \in [1 .. Len(u.policies) -> Entries]
      BY <3>1, <3>2 DEF Entry, Entries, Elements, UserPolicyKeys
    <3> QED  BY <3>2, <3>3, SeqOfFunction
  <2> HIDE DEF inner
  <2>2. made \in [1 .. Len(us) -> Seq(Entries)]
    BY <1>1, <2>1, ListElements
  <2>3. made \in Seq(Seq(Entries))
    BY <1>2, <2>2, SeqOfFunction
  <2>4. FlattenSeq(made) \in Seq(Entries)
    <3> HIDE DEF made
    <3> QED  BY <2>3, FlattenType
  <2> QED  BY <1>2, <2>4 DEF EachOf, Each, inner
<1>5. EachOf(gs, LAMBDA g : Each(g.policies, LAMBDA p :
                Entry("group_policy", <<g.id, p>>, None))) \in Seq(Entries)
  <2> DEFINE inner(g) == [j \in DOMAIN g.policies |->
                            Entry("group_policy", <<g.id, g.policies[j]>>, None)]
             made == [i \in 1 .. Len(gs) |-> inner(gs[i])]
  <2>1. ASSUME NEW g \in Elements(gs)
        PROVE  inner(g) \in Seq(Entries)
    <3>1. /\ IsList(g.policies) /\ g.id \in Groups
          /\ Elements(g.policies) \subseteq Policies
      BY DEF WellFormed, ValidFile
    <3>2. /\ Len(g.policies) \in Nat
          /\ DOMAIN g.policies = 1 .. Len(g.policies)
      BY <3>1, ListElements
    <3>3. inner(g) \in [1 .. Len(g.policies) -> Entries]
      BY <3>1, <3>2 DEF Entry, Entries, Elements
    <3> QED  BY <3>2, <3>3, SeqOfFunction
  <2> HIDE DEF inner
  <2>2. made \in [1 .. Len(gs) -> Seq(Entries)]
    BY <1>1, <2>1, ListElements
  <2>3. made \in Seq(Seq(Entries))
    BY <1>2, <2>2, SeqOfFunction
  <2>4. FlattenSeq(made) \in Seq(Entries)
    <3> HIDE DEF made
    <3> QED  BY <2>3, FlattenType
  <2> QED  BY <1>2, <2>4 DEF EachOf, Each, inner
<1>6. EachOf(us, LAMBDA u : Each(u.credentials, LAMBDA c :
                Entry("credential", c.access_key_id, [username |-> u.username]))) \in Seq(Entries)
  <2> DEFINE inner(u) == [j \in DOMAIN u.credentials |->
                            Entry("credential", u.credentials[j].access_key_id, [username |-> u.username])]
             made == [i \in 1 .. Len(us) |-> inner(us[i])]
  <2>1. ASSUME NEW u \in Elements(us)
        PROVE  inner(u) \in Seq(Entries)
    <3>1. /\ IsList(u.credentials) /\ u.username \in Usernames
          /\ \A c \in Elements(u.credentials) : c.access_key_id \in AccessKeys
      BY DEF WellFormed, ValidFile, OptionalText
    <3>2. /\ Len(u.credentials) \in Nat
          /\ DOMAIN u.credentials = 1 .. Len(u.credentials)
      BY <3>1, ListElements
    <3>3. inner(u) \in [1 .. Len(u.credentials) -> Entries]
      BY <3>1, <3>2 DEF Entry, Entries, Elements
    <3> QED  BY <3>2, <3>3, SeqOfFunction
  <2> HIDE DEF inner
  <2>2. made \in [1 .. Len(us) -> Seq(Entries)]
    BY <1>1, <2>1, ListElements
  <2>3. made \in Seq(Seq(Entries))
    BY <1>2, <2>2, SeqOfFunction
  <2>4. FlattenSeq(made) \in Seq(Entries)
    <3> HIDE DEF made
    <3> QED  BY <2>3, FlattenType
  <2> QED  BY <1>2, <2>4 DEF EachOf, Each, inner
<1> QED  BY <1>3, <1>4, <1>5, <1>6

\* parse_plan makes a plan of typed inserts of every file it accepts.
LEMMA PlanType ==
    ASSUME NEW file, WellFormed(file), ValidFile(file)
    PROVE  Plan(file) \in Seq(Entries)
BY RowEntries, AttachedEntries, ConcatProperties DEF Plan
-----------------------------------------------------------------------------
(* Databases. *)

\* The keys and the rows of the table of a kind.
KeysOf(kind) ==
    CASE kind = "policy" -> Policies
      [] kind = "group" -> Groups
      [] kind = "user" -> Usernames
      [] kind = "membership" -> MembershipKeys
      [] kind = "user_policy" -> UserPolicyKeys
      [] kind = "group_policy" -> Groups \X Policies
      [] kind = "credential" -> AccessKeys

RowsOf(kind) ==
    CASE kind = "policy" -> PolicyRecord
      [] kind = "group" -> GroupRecord
      [] kind = "user" -> UserRecord
      [] kind \in {"membership", "user_policy"} -> UserIds
      [] kind = "group_policy" -> {None}
      [] kind = "credential" -> CredentialRecord

\* A database has a table of the right type for every kind.
IsDb(db) ==
    /\ db = [kind \in Kinds |-> db[kind]]
    /\ \A kind \in Kinds : IsTable(db[kind], KeysOf(kind), RowsOf(kind))

\* Two users with neither an id nor a unique value in common.
Different(u, v) == u.user_id # v.user_id /\ ~SharesUnique(u, v)

\* What the constraints of the schema ask of one database: every reference is
\* met, by the very user it was made for, and users differ.
ReferencesMet(db) ==
    /\ \A k \in DOMAIN db.membership :
          /\ k[1] \in DOMAIN db.group /\ k[2] \in DOMAIN db.user
          /\ db.membership[k] = db.user[k[2]].user_id
    /\ \A k \in DOMAIN db.user_policy :
          /\ k[1] \in DOMAIN db.user /\ k[2] \in DOMAIN db.policy
          /\ db.user_policy[k] = db.user[k[1]].user_id
    /\ \A k \in DOMAIN db.group_policy :
          k[1] \in DOMAIN db.group /\ k[2] \in DOMAIN db.policy
    /\ \A k \in DOMAIN db.credential :
          /\ db.credential[k].username \in DOMAIN db.user
          /\ db.credential[k].user_id
                = db.user[db.credential[k].username].user_id

UsersDiffer(db) ==
    \A m, n \in DOMAIN db.user : m # n => Different(db.user[m], db.user[n])

Consistent(db) == ReferencesMet(db) /\ UsersDiffer(db)

\* No user has an id that the identity column has not handed out.
IdsUpTo(db, id) == \A n \in DOMAIN db.user : db.user[n].user_id <= id

-----------------------------------------------------------------------------
(* The inductive invariant. *)

Phases == {"start", "insert", "read", "commit", "ready", "failed"}

Errors == {"none", "file", "already_exists", "not_found", "wrong_identity",
           "backend", "deadlock"}

Files == {files[r] : files \in Deployments, r \in Replicas}

Tables(kind) == UNION {[D -> RowsOf(kind)] : D \in SUBSET KeysOf(kind)}

Dbs == {db \in [Kinds -> UNION {Tables(kind) : kind \in Kinds}] : IsDb(db)}

Runs == [phase : Phases, file : Files, plan : Seq(Entries), pos : Nat,
         own : Dbs, error : Errors]

\* A run is where its plan says, and only an open one holds rows.
RunOk(r) ==
    /\ run[r].phase = "start" => run[r].pos = 1
    /\ run[r].phase \in {"insert", "read"} => run[r].pos \in 1 .. Len(run[r].plan)
    /\ run[r].phase = "commit" => run[r].pos = Len(run[r].plan) + 1
    /\ Open(r) => run[r].error = "none"
    /\ run[r].phase = "start" => run[r].error = "none"
    /\ ~Open(r) => run[r].own = NoRows

\* The rows of two databases have no key in common, and no user in common.
Separate(a, b) ==
    /\ \A kind \in Kinds : DOMAIN a[kind] \cap DOMAIN b[kind] = {}
    /\ \A n \in DOMAIN a.user, m \in DOMAIN b.user :
          Different(a.user[n], b.user[m])

\* What a run has inserted is new, and fits what is committed.
OwnFits(own, db, id) ==
    /\ Separate(own, db)
    /\ Consistent(Merge(db, own))
    /\ IdsUpTo(Merge(db, own), id)

\* No other run inserts the same.
OwnOk(r) ==
    /\ OwnFits(run[r].own, Committed, next_user_id)
    /\ \A q \in Replicas \ {r} : Separate(run[r].own, run[q].own)

\* An entry that r is done with is there, with the identity or the owner that
\* the file names, unless an API request has deleted it.
DoneWith(r, e) ==
    \/ Ref(e.kind, e.key) \in deleted[r]
    \/ Has(Visible(r), e) /\ Accepts(e, Visible(r)[e.kind][e.key])

ProgressOk(r) ==
    Open(r) => \A i \in 1 .. run[r].pos - 1 : DoneWith(r, run[r].plan[i])

\* External principals, which bootstrap leaves alone, follow their users.
PrincipalsOk ==
    \A i \in DOMAIN external_principals :
        /\ external_principals[i].username \in DOMAIN users
        /\ external_principals[i].user_id
              = users[external_principals[i].username].user_id

TablesOk ==
    /\ TypeOK
    /\ Consistent(Committed)
    /\ IdsUpTo(Committed, next_user_id)
    /\ PrincipalsOk

BootIInv ==
    /\ TablesOk
    /\ api \in Nat
    /\ run \in [Replicas -> Runs]
    /\ DOMAIN deleted = Replicas
    /\ \A r \in Replicas : RunOk(r) /\ OwnOk(r) /\ ProgressOk(r)

-----------------------------------------------------------------------------
(* Lemmas about databases. *)

\* Dbs is the set of all databases.
LEMMA DbsAreDbs ==
    ASSUME NEW db
    PROVE  db \in Dbs <=> IsDb(db)
<1> SUFFICES ASSUME IsDb(db) PROVE db \in Dbs
  BY DEF Dbs
<1>1. \A kind \in Kinds : db[kind] \in Tables(kind)
  BY DEF IsDb, IsTable, Tables
<1>2. db \in [Kinds -> UNION {Tables(kind) : kind \in Kinds}]
  BY <1>1 DEF IsDb
<1> QED  BY <1>2 DEF Dbs

\* The tables of a database, one by one.
LEMMA DbFields ==
    ASSUME NEW db
    PROVE  IsDb(db) <=>
             /\ db = [kind \in Kinds |-> db[kind]]
             /\ IsTable(db.policy, Policies, PolicyRecord)
             /\ IsTable(db.group, Groups, GroupRecord)
             /\ IsTable(db.user, Usernames, UserRecord)
             /\ IsTable(db.membership, MembershipKeys, UserIds)
             /\ IsTable(db.user_policy, UserPolicyKeys, UserIds)
             /\ IsTable(db.group_policy, Groups \X Policies, {None})
             /\ IsTable(db.credential, AccessKeys, CredentialRecord)
BY DEF IsDb, Kinds, KeysOf, RowsOf

\* The committed tables, by kind.
LEMMA CommittedFields ==
    /\ Committed = [kind \in Kinds |-> Committed[kind]]
    /\ Committed.policy = policies /\ Committed.group = groups
    /\ Committed.user = users /\ Committed.membership = group_members
    /\ Committed.user_policy = user_policies
    /\ Committed.group_policy = [k \in group_policies |-> None]
    /\ Committed.credential = credentials
BY DEF Committed, Kinds

\* A typed store is a database.
LEMMA CommittedDb ==
    ASSUME TypeOK
    PROVE  IsDb(Committed)
<1>1. IsTable([k \in group_policies |-> None], Groups \X Policies, {None})
  BY DEF TypeOK, IsTable
<1> QED  BY <1>1, CommittedFields, DbFields DEF TypeOK

\* A run without rows holds an empty database.
LEMMA NoRowsDb == IsDb(NoRows) /\ \A kind \in Kinds : DOMAIN NoRows[kind] = {}
BY EmptyIsTable DEF IsDb, NoRows, EmptyTable

\* The keys and the rows of a merge, of separate databases in particular.
LEMMA MergeFields ==
    ASSUME NEW db, NEW own
    PROVE  /\ Merge(db, own) = [kind \in Kinds |-> Merge(db, own)[kind]]
           /\ \A kind \in Kinds :
                /\ DOMAIN Merge(db, own)[kind] = DOMAIN db[kind] \cup DOMAIN own[kind]
                /\ \A k \in DOMAIN own[kind] :
                      Merge(db, own)[kind][k] = own[kind][k]
                /\ \A k \in DOMAIN db[kind] \ DOMAIN own[kind] :
                      Merge(db, own)[kind][k] = db[kind][k]
BY DEF Merge

\* A merge of databases is a database.
LEMMA MergeDb ==
    ASSUME NEW db, NEW own, IsDb(db), IsDb(own)
    PROVE  IsDb(Merge(db, own))
<1> SUFFICES ASSUME NEW kind \in Kinds
             PROVE  IsTable(Merge(db, own)[kind], KeysOf(kind), RowsOf(kind))
  BY MergeFields DEF IsDb
<1> QED  BY DEF IsDb, IsTable, Merge

\* Without rows of its own a run sees what is committed.
LEMMA MergeNoRows ==
    ASSUME NEW db, IsDb(db)
    PROVE  Merge(db, NoRows) = db
<1>1. \A kind \in Kinds : Merge(db, NoRows)[kind] = db[kind]
  BY NoRowsDb DEF Merge, IsDb, IsTable
<1> QED  BY <1>1, MergeFields DEF IsDb

\* Users differ in both directions.
LEMMA DifferentSymmetric ==
    ASSUME NEW u, NEW v, Different(u, v)
    PROVE  Different(v, u)
BY DEF Different, SharesUnique

\* Two consistent databases that agree on the rows they share, and whose other
\* users differ, are consistent together.
LEMMA UnionConsistent ==
    ASSUME NEW a, NEW b, NEW c, Consistent(a), Consistent(b),
           \A kind \in Kinds :
              /\ DOMAIN c[kind] = DOMAIN a[kind] \cup DOMAIN b[kind]
              /\ \A k \in DOMAIN a[kind] : c[kind][k] = a[kind][k]
              /\ \A k \in DOMAIN b[kind] : c[kind][k] = b[kind][k],
           \A n \in DOMAIN a.user \ DOMAIN b.user,
              m \in DOMAIN b.user \ DOMAIN a.user :
                 Different(c.user[n], c.user[m])
    PROVE  Consistent(c)
<1>1. /\ DOMAIN c.user = DOMAIN a.user \cup DOMAIN b.user
      /\ \A k \in DOMAIN a.user : c.user[k] = a.user[k]
      /\ \A k \in DOMAIN b.user : c.user[k] = b.user[k]
  BY DEF Kinds
<1>2. /\ DOMAIN c.policy = DOMAIN a.policy \cup DOMAIN b.policy
      /\ DOMAIN c.group = DOMAIN a.group \cup DOMAIN b.group
      /\ DOMAIN c.group_policy = DOMAIN a.group_policy \cup DOMAIN b.group_policy
  BY DEF Kinds
<1>3. ReferencesMet(c)
  <2>1. \A k \in DOMAIN c.membership :
          /\ k[1] \in DOMAIN c.group /\ k[2] \in DOMAIN c.user
          /\ c.membership[k] = c.user[k[2]].user_id
    <3>1. /\ DOMAIN c.membership = DOMAIN a.membership \cup DOMAIN b.membership
          /\ \A k \in DOMAIN a.membership : c.membership[k] = a.membership[k]
          /\ \A k \in DOMAIN b.membership : c.membership[k] = b.membership[k]
      BY DEF Kinds
    <3> QED  BY <1>1, <1>2, <3>1 DEF Consistent, ReferencesMet
  <2>2. \A k \in DOMAIN c.user_policy :
          /\ k[1] \in DOMAIN c.user /\ k[2] \in DOMAIN c.policy
          /\ c.user_policy[k] = c.user[k[1]].user_id
    <3>1. /\ DOMAIN c.user_policy = DOMAIN a.user_policy \cup DOMAIN b.user_policy
          /\ \A k \in DOMAIN a.user_policy : c.user_policy[k] = a.user_policy[k]
          /\ \A k \in DOMAIN b.user_policy : c.user_policy[k] = b.user_policy[k]
      BY DEF Kinds
    <3> QED  BY <1>1, <1>2, <3>1 DEF Consistent, ReferencesMet
  <2>3. \A k \in DOMAIN c.group_policy :
          k[1] \in DOMAIN c.group /\ k[2] \in DOMAIN c.policy
    BY <1>2 DEF Consistent, ReferencesMet
  <2>4. \A k \in DOMAIN c.credential :
          /\ c.credential[k].username \in DOMAIN c.user
          /\ c.credential[k].user_id = c.user[c.credential[k].username].user_id
    <3>1. /\ DOMAIN c.credential = DOMAIN a.credential \cup DOMAIN b.credential
          /\ \A k \in DOMAIN a.credential : c.credential[k] = a.credential[k]
          /\ \A k \in DOMAIN b.credential : c.credential[k] = b.credential[k]
      BY DEF Kinds
    <3> QED  BY <1>1, <3>1 DEF Consistent, ReferencesMet
  <2> QED  BY <2>1, <2>2, <2>3, <2>4 DEF ReferencesMet
<1>4. ASSUME NEW m \in DOMAIN c.user, NEW n \in DOMAIN c.user, m # n
      PROVE  Different(c.user[m], c.user[n])
  <2>1. CASE m \in DOMAIN a.user /\ n \in DOMAIN a.user
    BY <1>1, <1>4, <2>1 DEF Consistent, UsersDiffer
  <2>2. CASE m \in DOMAIN b.user /\ n \in DOMAIN b.user
    BY <1>1, <1>4, <2>2 DEF Consistent, UsersDiffer
  <2>3. CASE m \in DOMAIN a.user \ DOMAIN b.user /\ n \in DOMAIN b.user \ DOMAIN a.user
    BY <2>3
  <2>4. CASE n \in DOMAIN a.user \ DOMAIN b.user /\ m \in DOMAIN b.user \ DOMAIN a.user
    BY <2>4, DifferentSymmetric
  <2> QED  BY <1>1, <2>1, <2>2, <2>3, <2>4
<1> QED  BY <1>3, <1>4 DEF Consistent, UsersDiffer

\* Another run commits: what r sees afterwards is consistent, and its own rows
\* are still apart from what is committed.
LEMMA CommitElsewhere ==
    ASSUME NEW db, NEW own, NEW other, IsDb(db), IsDb(own), IsDb(other),
           Separate(own, db), Separate(other, db), Separate(own, other),
           Consistent(Merge(db, own)), Consistent(Merge(db, other))
    PROVE  /\ Separate(own, Merge(db, other))
           /\ Consistent(Merge(Merge(db, other), own))
<1> DEFINE a == Merge(db, own)
           b == Merge(db, other)
           c == Merge(b, own)
<1>1. \A kind \in Kinds :
        /\ DOMAIN own[kind] \cap DOMAIN db[kind] = {}
        /\ DOMAIN other[kind] \cap DOMAIN db[kind] = {}
        /\ DOMAIN own[kind] \cap DOMAIN other[kind] = {}
  BY DEF Separate
<1>2. \A kind \in Kinds :
        /\ DOMAIN a[kind] = DOMAIN db[kind] \cup DOMAIN own[kind]
        /\ \A k \in DOMAIN own[kind] : a[kind][k] = own[kind][k]
        /\ \A k \in DOMAIN db[kind] : a[kind][k] = db[kind][k]
  BY <1>1, MergeFields
<1>3. \A kind \in Kinds :
        /\ DOMAIN b[kind] = DOMAIN db[kind] \cup DOMAIN other[kind]
        /\ \A k \in DOMAIN other[kind] : b[kind][k] = other[kind][k]
        /\ \A k \in DOMAIN db[kind] : b[kind][k] = db[kind][k]
  BY <1>1, MergeFields
<1> HIDE DEF a, b
<1>4. \A kind \in Kinds :
        /\ DOMAIN c[kind] = DOMAIN b[kind] \cup DOMAIN own[kind]
        /\ \A k \in DOMAIN own[kind] : c[kind][k] = own[kind][k]
        /\ \A k \in DOMAIN b[kind] \ DOMAIN own[kind] : c[kind][k] = b[kind][k]
  BY MergeFields
<1> HIDE DEF c
<1>5. \A kind \in Kinds :
        /\ DOMAIN c[kind] = DOMAIN a[kind] \cup DOMAIN b[kind]
        /\ \A k \in DOMAIN a[kind] : c[kind][k] = a[kind][k]
        /\ \A k \in DOMAIN b[kind] : c[kind][k] = b[kind][k]
  BY <1>1, <1>2, <1>3, <1>4
<1>6. "user" \in Kinds
  BY DEF Kinds
<1>7. \A n \in DOMAIN own.user, m \in DOMAIN other.user :
        Different(own.user[n], other.user[m])
  BY DEF Separate
<1>8. \A n \in DOMAIN a.user \ DOMAIN b.user, m \in DOMAIN b.user \ DOMAIN a.user :
        Different(c.user[n], c.user[m])
  BY <1>2, <1>3, <1>5, <1>6, <1>7
<1>9. Consistent(c)
  BY <1>5, <1>8, UnionConsistent DEF a, b
<1>10. \A n \in DOMAIN own.user, m \in DOMAIN b.user :
        Different(own.user[n], b.user[m])
  <2>1. \A n \in DOMAIN own.user, m \in DOMAIN db.user :
          Different(own.user[n], db.user[m])
    BY DEF Separate
  <2> QED  BY <2>1, <1>3, <1>6, <1>7
<1>11. \A kind \in Kinds : DOMAIN own[kind] \cap DOMAIN b[kind] = {}
  BY <1>1, <1>3
<1>12. Separate(own, b)
  BY <1>10, <1>11 DEF Separate
<1> QED  BY <1>9, <1>12 DEF b, c

-----------------------------------------------------------------------------
(* One insert. *)

\* `new` is `old` and one more row.
Added(old, new, kind, key, row) ==
    /\ key \notin DOMAIN old[kind]
    /\ \A j \in Kinds \ {kind} : new[j] = old[j]
    /\ DOMAIN new[kind] = DOMAIN old[kind] \cup {key}
    /\ new[kind][key] = row
    /\ \A k \in DOMAIN old[kind] : new[kind][k] = old[kind][k]

\* What an entry is made of, by its kind.
LEMMA EntryFields ==
    ASSUME NEW e \in Entries
    PROVE  /\ e.kind \in Kinds
           /\ e.key \in KeysOf(e.kind)
           /\ e.kind = "policy" => e.row \in PolicyRecord
           /\ e.kind = "group" => e.row \in GroupRecord
           /\ e.kind = "user" => e.row \in UserColumns
           /\ e.kind = "credential" => e.row \in [username : Usernames]
BY DEF Entries, Kinds, KeysOf

\* Which rows an insert finds when it stores its row, and when it does not.
LEMMA OutcomeMeans ==
    ASSUME NEW db, NEW e
    PROVE  /\ Outcome(db, e) = "created" <=>
                /\ ~Has(db, e) /\ ~SharesWith(db, e)
                /\ \A ref \in References(e) : Has(db, ref)
           /\ Outcome(db, e) = "present" <=> Has(db, e)
           /\ Outcome(db, e) \in {"created", "present", "already_exists", "not_found"}
BY DEF Outcome

\* The row that an insert stores has the type of its table.
LEMMA RowType ==
    ASSUME NEW db, NEW e \in Entries, NEW id, IsDb(db),
           Outcome(db, e) = "created", e.kind = "user" => id \in UserIds
    PROVE  Row(db, e, id) \in RowsOf(e.kind)
<1>1. CASE e.kind \in {"policy", "group"}
  BY <1>1, EntryFields DEF Row, RowsOf
<1>2. CASE e.kind = "user"
  BY <1>2, EntryFields DEF Row, RowsOf, UserColumns, UserRecord
<1>3. CASE e.kind = "group_policy"
  BY <1>3 DEF Row, RowsOf
<1>4. \A n \in DOMAIN db.user : n \in Usernames /\ db.user[n].user_id \in UserIds
  BY DbFields DEF IsTable, UserRecord
<1>5. \A ref \in References(e) : Has(db, ref)
  BY OutcomeMeans
<1>6. CASE e.kind = "membership"
  <2>1. Has(db, Ref("user", e.key[2]))
    BY <1>5, <1>6 DEF References
  <2> QED  BY <1>4, <1>6, <2>1 DEF Row, RowsOf, Has, Ref
<1>7. CASE e.kind = "user_policy"
  <2>1. Has(db, Ref("user", e.key[1]))
    BY <1>5, <1>7 DEF References
  <2> QED  BY <1>4, <1>7, <2>1 DEF Row, RowsOf, Has, Ref
<1>8. CASE e.kind = "credential"
  <2>1. Has(db, Ref("user", e.row.username))
    BY <1>5, <1>8 DEF References
  <2>2. e.row.username \in DOMAIN db.user
    BY <2>1 DEF Has, Ref
  <2>3. Row(db, e, id) = [username |-> e.row.username,
                          user_id |-> db.user[e.row.username].user_id]
    BY <1>8 DEF Row
  <2> QED  BY <1>4, <1>8, <2>2, <2>3 DEF RowsOf, CredentialRecord
<1> QED  BY <1>1, <1>2, <1>3, <1>6, <1>7, <1>8, EntryFields DEF Kinds

\* What a run adds to its rows, it adds to what it sees.
LEMMA AddedMerge ==
    ASSUME NEW db, NEW own, NEW new, NEW kind \in Kinds, NEW key, NEW row,
           key \notin DOMAIN db[kind], Added(own, new, kind, key, row)
    PROVE  Added(Merge(db, own), Merge(db, new), kind, key, row)
<1>1. /\ key \notin DOMAIN own[kind]
      /\ DOMAIN new[kind] = DOMAIN own[kind] \cup {key}
      /\ new[kind][key] = row
      /\ \A k \in DOMAIN own[kind] : new[kind][k] = own[kind][k]
  BY DEF Added
<1>3. \A j \in Kinds \ {kind} : Merge(db, new)[j] = Merge(db, own)[j]
  BY DEF Added, Merge
<1>2. /\ DOMAIN Merge(db, new)[kind] = DOMAIN Merge(db, own)[kind] \cup {key}
      /\ Merge(db, new)[kind][key] = row
      /\ \A k \in DOMAIN Merge(db, own)[kind] :
            Merge(db, new)[kind][k] = Merge(db, own)[kind][k]
  <2>1. /\ DOMAIN Merge(db, own)[kind] = DOMAIN db[kind] \cup DOMAIN own[kind]
        /\ \A k \in DOMAIN own[kind] : Merge(db, own)[kind][k] = own[kind][k]
        /\ \A k \in DOMAIN db[kind] \ DOMAIN own[kind] :
              Merge(db, own)[kind][k] = db[kind][k]
    BY MergeFields
  <2>2. /\ DOMAIN Merge(db, new)[kind] = DOMAIN db[kind] \cup DOMAIN new[kind]
        /\ \A k \in DOMAIN new[kind] : Merge(db, new)[kind][k] = new[kind][k]
        /\ \A k \in DOMAIN db[kind] \ DOMAIN new[kind] :
              Merge(db, new)[kind][k] = db[kind][k]
    BY MergeFields
  <2> QED  BY <1>1, <2>1, <2>2
<1>4. key \notin DOMAIN Merge(db, own)[kind]
  BY <1>1, MergeFields
<1> QED  BY <1>2, <1>3, <1>4 DEF Added

\* `new` is what an insert makes of the rows of a run.
Stored(own, new, kind, key, row) ==
    /\ new = [j \in Kinds |-> new[j]]
    /\ new[kind] = Put(own[kind], key, row)
    /\ \A j \in Kinds \ {kind} : new[j] = own[j]

\* Storing a row in the tables of a run adds it to what the run sees.
LEMMA PutAdds ==
    ASSUME NEW db, NEW own, IsDb(db), IsDb(own),
           NEW kind \in Kinds, NEW key \in KeysOf(kind), NEW row \in RowsOf(kind),
           key \notin DOMAIN Merge(db, own)[kind],
           NEW new, Stored(own, new, kind, key, row)
    PROVE  /\ IsDb(new)
           /\ Added(own, new, kind, key, row)
           /\ Added(Merge(db, own), Merge(db, new), kind, key, row)
<1>1. /\ new = [j \in Kinds |-> new[j]]
      /\ new[kind] = Put(own[kind], key, row)
      /\ \A j \in Kinds \ {kind} : new[j] = own[j]
  BY DEF Stored
<1>2. IsTable(new[kind], KeysOf(kind), RowsOf(kind))
  BY <1>1, PutIsTable DEF IsDb
<1>3. IsDb(new)
  BY <1>1, <1>2 DEF IsDb
<1>4. key \notin DOMAIN own[kind] /\ key \notin DOMAIN db[kind]
  BY MergeFields
<1>5. /\ DOMAIN new[kind] = DOMAIN own[kind] \cup {key}
      /\ new[kind][key] = row
      /\ \A k \in DOMAIN own[kind] : new[kind][k] = own[kind][k]
  BY <1>1, <1>4 DEF Put
<1>6. Added(own, new, kind, key, row)
  BY <1>1, <1>4, <1>5 DEF Added
<1>7. Added(Merge(db, own), Merge(db, new), kind, key, row)
  BY <1>4, <1>6, AddedMerge
<1> QED  BY <1>3, <1>6, <1>7

\* An insert that stores its row keeps a database consistent.
LEMMA AddedConsistent ==
    ASSUME NEW old, NEW new, NEW e \in Entries, NEW id \in Int,
           IsDb(old), Consistent(old), Outcome(old, e) = "created",
           IdsUpTo(old, id - 1),
           Added(old, new, e.kind, e.key, Row(old, e, id))
    PROVE  /\ Consistent(new)
           /\ IdsUpTo(new, IF e.kind = "user" THEN id ELSE id - 1)
<1>1. \A ref \in References(e) : Has(old, ref)
  BY OutcomeMeans
<1>2. \A n \in DOMAIN old.user : old.user[n].user_id \in Int /\ old.user[n].user_id < id
  BY DbFields DEF IdsUpTo, IsTable, UserRecord, UserIds
<1>3. CASE e.kind = "user"
  <2>1. /\ new.policy = old.policy /\ new.group = old.group
        /\ new.membership = old.membership /\ new.user_policy = old.user_policy
        /\ new.group_policy = old.group_policy /\ new.credential = old.credential
    BY <1>3 DEF Added, Kinds
  <2>2. /\ e.key \notin DOMAIN old.user
        /\ DOMAIN new.user = DOMAIN old.user \cup {e.key}
        /\ \A k \in DOMAIN old.user : new.user[k] = old.user[k]
        /\ new.user[e.key] = Row(old, e, id)
    BY <1>3 DEF Added
  <2>3. /\ Row(old, e, id).user_id = id /\ Row(old, e, id).email = e.row.email
        /\ Row(old, e, id).external_id = e.row.external_id
    BY <1>3 DEF Row
  <2>4. \A n \in DOMAIN old.user : ~SharesUnique(e.row, old.user[n])
    BY <1>3, OutcomeMeans DEF SharesWith
  <2>5. \A n \in DOMAIN old.user : Different(new.user[e.key], old.user[n])
    BY <1>2, <2>2, <2>3, <2>4 DEF Different, SharesUnique
  <2>6. UsersDiffer(new)
    <3>1. \A m, n \in DOMAIN old.user : m # n => Different(new.user[m], new.user[n])
      BY <2>2 DEF Consistent, UsersDiffer
    <3>2. \A n \in DOMAIN old.user :
            Different(new.user[e.key], new.user[n]) /\ Different(new.user[n], new.user[e.key])
      BY <2>2, <2>5, DifferentSymmetric
    <3> QED  BY <2>2, <3>1, <3>2 DEF UsersDiffer
  <2>7. ReferencesMet(new)
    BY <2>1, <2>2 DEF Consistent, ReferencesMet
  <2>8. IdsUpTo(new, id)
    BY <1>2, <2>2, <2>3 DEF IdsUpTo
  <2> QED  BY <1>3, <2>6, <2>7, <2>8 DEF Consistent
<1>4. CASE e.kind # "user"
  <2>1. new.user = old.user
    BY <1>4 DEF Added, Kinds
  <2>2. UsersDiffer(new) /\ IdsUpTo(new, id - 1)
    BY <2>1 DEF Consistent, UsersDiffer, IdsUpTo
  <2>3. ReferencesMet(new)
    <3>1. CASE e.kind = "policy"
      BY <2>1, <3>1 DEF Added, Kinds, Consistent, ReferencesMet
    <3>2. CASE e.kind = "group"
      BY <2>1, <3>2 DEF Added, Kinds, Consistent, ReferencesMet
    <3>3. CASE e.kind = "membership"
      <4>1. e.key[1] \in DOMAIN old.group /\ e.key[2] \in DOMAIN old.user
        <5>1. Ref("group", e.key[1]) \in References(e) /\ Ref("user", e.key[2]) \in References(e)
          BY <3>3 DEF References
        <5> QED  BY <1>1, <5>1 DEF Has, Ref
      <4>2. Row(old, e, id) = old.user[e.key[2]].user_id
        BY <3>3 DEF Row
      <4> QED  BY <2>1, <3>3, <4>1, <4>2 DEF Added, Kinds, Consistent, ReferencesMet
    <3>4. CASE e.kind = "user_policy"
      <4>1. e.key[1] \in DOMAIN old.user /\ e.key[2] \in DOMAIN old.policy
        <5>1. Ref("user", e.key[1]) \in References(e) /\ Ref("policy", e.key[2]) \in References(e)
          BY <3>4 DEF References
        <5> QED  BY <1>1, <5>1 DEF Has, Ref
      <4>2. Row(old, e, id) = old.user[e.key[1]].user_id
        BY <3>4 DEF Row
      <4> QED  BY <2>1, <3>4, <4>1, <4>2 DEF Added, Kinds, Consistent, ReferencesMet
    <3>5. CASE e.kind = "group_policy"
      <4>1. e.key[1] \in DOMAIN old.group /\ e.key[2] \in DOMAIN old.policy
        <5>1. Ref("group", e.key[1]) \in References(e) /\ Ref("policy", e.key[2]) \in References(e)
          BY <3>5 DEF References
        <5> QED  BY <1>1, <5>1 DEF Has, Ref
      <4> QED  BY <2>1, <3>5, <4>1 DEF Added, Kinds, Consistent, ReferencesMet
    <3>6. CASE e.kind = "credential"
      <4>1. e.row.username \in DOMAIN old.user
        <5>1. Ref("user", e.row.username) \in References(e)
          BY <3>6 DEF References
        <5> QED  BY <1>1, <5>1 DEF Has, Ref
      <4>2. /\ Row(old, e, id).username = e.row.username
            /\ Row(old, e, id).user_id = old.user[e.row.username].user_id
        BY <3>6 DEF Row
      <4> QED  BY <2>1, <3>6, <4>1, <4>2 DEF Added, Kinds, Consistent, ReferencesMet
    <3> QED  BY <1>4, <3>1, <3>2, <3>3, <3>4, <3>5, <3>6, EntryFields DEF Kinds
  <2> QED  BY <1>4, <2>2, <2>3 DEF Consistent
<1> QED  BY <1>3, <1>4

-----------------------------------------------------------------------------
(* One API request. *)

\* A store call changes no identity, hands out the next id and no other, and
\* rewrites no credential.
LEMMA StoreCallFacts ==
    ASSUME TypeOK, Next
    PROVE  /\ next_user_id \in Int /\ next_user_id' \in Int
           /\ next_user_id <= next_user_id'
           /\ \A n \in DOMAIN users \cap DOMAIN users' :
                 /\ users'[n].user_id = users[n].user_id
                 /\ users'[n].email = users[n].email
                 /\ users'[n].external_id = users[n].external_id
           /\ \A n \in DOMAIN users' \ DOMAIN users :
                 users'[n].user_id = next_user_id + 1
           /\ \A k \in DOMAIN credentials \cap DOMAIN credentials' :
                 credentials'[k] = credentials[k]
<1>0. next_user_id \in Int
  BY DEF TypeOK
<1>1. ASSUME NEW new \in NewUser, CreateUser(new)
      PROVE  /\ next_user_id' = next_user_id + 1
             /\ DOMAIN users' = DOMAIN users \cup {new.username}
             /\ new.username \notin DOMAIN users
             /\ users'[new.username].user_id = next_user_id + 1
             /\ \A n \in DOMAIN users : users'[n] = users[n]
             /\ UNCHANGED credentials
  BY <1>1 DEF CreateUser, UserConflict, Put
<1>2. ASSUME NEW n \in Usernames, DeleteUser(n)
      PROVE  /\ UNCHANGED next_user_id
             /\ DOMAIN users' \subseteq DOMAIN users
             /\ \A m \in DOMAIN users' : users'[m] = users[m]
             /\ \A k \in DOMAIN credentials' : credentials'[k] = credentials[k]
  BY <1>2 DEF DeleteUser, CascadeDeleteUser, Keep
<1>3. ASSUME NEW n \in Usernames, NEW f \in FriendlyNames, SetFriendlyName(n, f)
      PROVE  /\ UNCHANGED <<next_user_id, credentials>>
             /\ DOMAIN users' = DOMAIN users
             /\ \A m \in DOMAIN users :
                   /\ users'[m].user_id = users[m].user_id
                   /\ users'[m].email = users[m].email
                   /\ users'[m].external_id = users[m].external_id
  BY <1>3, SetFriendlyNameFacts DEF SetFriendlyName
<1>4. ASSUME NEW new \in NewUser, BurnUserId(new)
      PROVE  next_user_id' = next_user_id + 1 /\ UNCHANGED <<users, credentials>>
  BY <1>4 DEF BurnUserId
<1>5. CASE GroupNext
  <2>1. UNCHANGED <<users, next_user_id, credentials>>
    BY <1>5 DEF GroupNext, CreateGroup, DeleteGroup
  <2> QED  BY <1>0, <2>1
<1>6. CASE PolicyNext
  <2>1. UNCHANGED <<users, next_user_id, credentials>>
    BY <1>6 DEF PolicyNext, CreatePolicy, UpdatePolicy, DeletePolicy
  <2> QED  BY <1>0, <2>1
<1>7. CASE AttachmentNext
  <2>1. UNCHANGED <<users, next_user_id, credentials>>
    BY <1>7
       DEF AttachmentNext, AddMembership, RemoveMembership, AttachPolicyToUser,
           DetachPolicyFromUser, AttachPolicyToGroup, DetachPolicyFromGroup
  <2> QED  BY <1>0, <2>1
<1>8. CASE CredentialNext
  <2>1. /\ UNCHANGED <<users, next_user_id>>
        /\ \A k \in DOMAIN credentials \cap DOMAIN credentials' :
              credentials'[k] = credentials[k]
    BY <1>8
       DEF CredentialNext, CreateCredential, DeleteCredential, Put, Keep,
           CreateExternalPrincipal, DeleteExternalPrincipal
  <2> QED  BY <1>0, <2>1
<1>9. CASE UserNext
  <2>1. CASE \E new \in NewUser : CreateUser(new)
    <3>1. PICK new \in NewUser : CreateUser(new)
      BY <2>1
    <3>2. next_user_id' \in Int /\ next_user_id <= next_user_id'
      BY <1>0, <3>1 DEF CreateUser
    <3>3. /\ DOMAIN users' = DOMAIN users \cup {new.username}
          /\ new.username \notin DOMAIN users
          /\ users'[new.username].user_id = next_user_id + 1
          /\ \A n \in DOMAIN users : users'[n] = users[n]
          /\ credentials' = credentials
      BY <1>1, <3>1
    <3> QED  BY <1>0, <3>2, <3>3
  <2>2. CASE \E new \in NewUser : BurnUserId(new)
    BY <1>0, <1>4, <2>2
  <2>3. CASE \E n \in Usernames : DeleteUser(n)
    BY <1>0, <1>2, <2>3
  <2>4. CASE \E n \in Usernames, f \in FriendlyNames : SetFriendlyName(n, f)
    BY <1>0, <1>3, <2>4
  <2> QED  BY <1>9, <2>1, <2>2, <2>3, <2>4 DEF UserNext
<1> QED  BY <1>5, <1>6, <1>7, <1>8, <1>9 DEF Next

\* A request that had to wait for nobody leaves what an open run sees
\* consistent, and its own rows apart from the committed ones.
LEMMA ApiConsistent ==
    ASSUME NEW db, NEW new, NEW own, IsDb(own), NEW id \in Int,
           Separate(own, db), Consistent(Merge(db, own)), Consistent(new),
           IdsUpTo(Merge(db, own), id),
           \A kind \in Kinds :
              DOMAIN new[kind] \cap DOMAIN own[kind] \subseteq DOMAIN db[kind],
           \A n \in DOMAIN new.user \cap DOMAIN db.user :
              /\ new.user[n].user_id = db.user[n].user_id
              /\ new.user[n].email = db.user[n].email
              /\ new.user[n].external_id = db.user[n].external_id,
           \A n \in DOMAIN new.user \ DOMAIN db.user :
              /\ new.user[n].user_id = id + 1
              /\ \A m \in DOMAIN own.user : ~SharesUnique(new.user[n], own.user[m]),
           \A kind \in Kinds : \A k \in DOMAIN own[kind] :
              \A ref \in References(Entry(kind, k, own[kind][k])) :
                 Has(db, ref) => Has(new, ref)
    PROVE  Separate(own, new) /\ Consistent(Merge(new, own))
<1> DEFINE v == Merge(db, own)
           w == Merge(new, own)
<1>1. \A kind \in Kinds :
        /\ DOMAIN own[kind] \cap DOMAIN db[kind] = {}
        /\ DOMAIN own[kind] \cap DOMAIN new[kind] = {}
  BY DEF Separate
<1>2. \A kind \in Kinds :
        /\ DOMAIN v[kind] = DOMAIN db[kind] \cup DOMAIN own[kind]
        /\ \A k \in DOMAIN own[kind] : v[kind][k] = own[kind][k]
        /\ \A k \in DOMAIN db[kind] : v[kind][k] = db[kind][k]
  BY <1>1, MergeFields
<1>3. \A kind \in Kinds :
        /\ DOMAIN w[kind] = DOMAIN new[kind] \cup DOMAIN own[kind]
        /\ \A k \in DOMAIN own[kind] : w[kind][k] = own[kind][k]
        /\ \A k \in DOMAIN new[kind] : w[kind][k] = new[kind][k]
  BY <1>1, MergeFields
<1>4. Consistent(v)
  OBVIOUS
<1>5. IdsUpTo(v, id)
  OBVIOUS
<1> HIDE DEF v, w
<1>u. /\ DOMAIN v.user = DOMAIN db.user \cup DOMAIN own.user
      /\ \A k \in DOMAIN own.user : v.user[k] = own.user[k]
      /\ \A k \in DOMAIN db.user : v.user[k] = db.user[k]
      /\ DOMAIN w.user = DOMAIN new.user \cup DOMAIN own.user
      /\ \A k \in DOMAIN own.user : w.user[k] = own.user[k]
      /\ \A k \in DOMAIN new.user : w.user[k] = new.user[k]
      /\ DOMAIN own.user \cap DOMAIN db.user = {}
      /\ DOMAIN own.user \cap DOMAIN new.user = {}
  BY <1>1, <1>2, <1>3 DEF Kinds
<1>6. \A n \in DOMAIN own.user, m \in DOMAIN new.user :
        Different(own.user[n], new.user[m])
  <2> SUFFICES ASSUME NEW n \in DOMAIN own.user, NEW m \in DOMAIN new.user
               PROVE  Different(own.user[n], new.user[m])
    OBVIOUS
  <2>1. CASE m \in DOMAIN db.user
    <3>1. Different(own.user[n], db.user[m])
      BY <2>1 DEF Separate
    <3> QED  BY <2>1, <3>1 DEF Different, SharesUnique
  <2>2. CASE m \notin DOMAIN db.user
    <3>1. own.user[n].user_id \in Int
      BY DbFields DEF IsTable, UserRecord, UserIds
    <3>2. own.user[n].user_id <= id /\ new.user[m].user_id = id + 1
      BY <1>5, <1>u, <2>2 DEF IdsUpTo
    <3>3. ~SharesUnique(new.user[m], own.user[n])
      BY <2>2
    <3> QED  BY <3>1, <3>2, <3>3 DEF Different, SharesUnique
  <2> QED  BY <2>1, <2>2
<1>7. Separate(own, new)
  BY <1>1, <1>6 DEF Separate
<1>8. UsersDiffer(w)
  <2> SUFFICES ASSUME NEW m \in DOMAIN w.user, NEW n \in DOMAIN w.user, m # n
               PROVE  Different(w.user[m], w.user[n])
    BY DEF UsersDiffer
  <2>1. CASE m \in DOMAIN own.user /\ n \in DOMAIN own.user
    BY <1>4, <1>u, <2>1 DEF Consistent, UsersDiffer
  <2>2. CASE m \in DOMAIN new.user /\ n \in DOMAIN new.user
    BY <1>u, <2>2 DEF Consistent, UsersDiffer
  <2>3. CASE m \in DOMAIN own.user /\ n \in DOMAIN new.user
    BY <1>6, <1>u, <2>3
  <2>4. CASE n \in DOMAIN own.user /\ m \in DOMAIN new.user
    BY <1>6, <1>u, <2>4, DifferentSymmetric
  <2> QED  BY <1>u, <2>1, <2>2, <2>3, <2>4
<1>9. ASSUME NEW n \in DOMAIN v.user, n \in DOMAIN w.user
      PROVE  w.user[n].user_id = v.user[n].user_id
  BY <1>9, <1>u
<1>10. ASSUME NEW kind \in Kinds, NEW k \in DOMAIN own[kind],
              NEW ref \in References(Entry(kind, k, own[kind][k])),
              ref.kind \in Kinds, Has(v, ref)
       PROVE  Has(w, ref)
  <2>1. ref.key \in DOMAIN db[ref.kind] \/ ref.key \in DOMAIN own[ref.kind]
    BY <1>2, <1>10 DEF Has
  <2>2. CASE ref.key \in DOMAIN own[ref.kind]
    BY <1>3, <1>10, <2>2 DEF Has
  <2>3. CASE ref.key \in DOMAIN db[ref.kind]
    BY <1>3, <1>10, <2>3 DEF Has
  <2> QED  BY <2>1, <2>2, <2>3
<1>11. ReferencesMet(w)
  <2>1. ASSUME NEW k \in DOMAIN own.membership
        PROVE  /\ k[1] \in DOMAIN w.group /\ k[2] \in DOMAIN w.user
               /\ w.membership[k] = w.user[k[2]].user_id
    <3>1. /\ k \in DOMAIN v.membership /\ v.membership[k] = own.membership[k]
          /\ w.membership[k] = own.membership[k]
      BY <1>2, <1>3 DEF Kinds
    <3>2. /\ k[1] \in DOMAIN v.group /\ k[2] \in DOMAIN v.user
          /\ v.membership[k] = v.user[k[2]].user_id
      BY <1>4, <3>1 DEF Consistent, ReferencesMet
    <3>3. References(Entry("membership", k, own.membership[k]))
            = {Ref("group", k[1]), Ref("user", k[2])}
      BY DEF References, Entry
    <3>4. Has(w, Ref("group", k[1])) /\ Has(w, Ref("user", k[2]))
      BY <1>10, <3>2, <3>3 DEF Has, Ref, Kinds
    <3> QED  BY <1>9, <3>1, <3>2, <3>4 DEF Has, Ref
  <2>2. ASSUME NEW k \in DOMAIN own.user_policy
        PROVE  /\ k[1] \in DOMAIN w.user /\ k[2] \in DOMAIN w.policy
               /\ w.user_policy[k] = w.user[k[1]].user_id
    <3>1. /\ k \in DOMAIN v.user_policy /\ v.user_policy[k] = own.user_policy[k]
          /\ w.user_policy[k] = own.user_policy[k]
      BY <1>2, <1>3 DEF Kinds
    <3>2. /\ k[1] \in DOMAIN v.user /\ k[2] \in DOMAIN v.policy
          /\ v.user_policy[k] = v.user[k[1]].user_id
      BY <1>4, <3>1 DEF Consistent, ReferencesMet
    <3>3. References(Entry("user_policy", k, own.user_policy[k]))
            = {Ref("user", k[1]), Ref("policy", k[2])}
      BY DEF References, Entry
    <3>4. Has(w, Ref("user", k[1])) /\ Has(w, Ref("policy", k[2]))
      BY <1>10, <3>2, <3>3 DEF Has, Ref, Kinds
    <3> QED  BY <1>9, <3>1, <3>2, <3>4 DEF Has, Ref
  <2>3. ASSUME NEW k \in DOMAIN own.group_policy
        PROVE  k[1] \in DOMAIN w.group /\ k[2] \in DOMAIN w.policy
    <3>1. k \in DOMAIN v.group_policy
      BY <1>2 DEF Kinds
    <3>2. k[1] \in DOMAIN v.group /\ k[2] \in DOMAIN v.policy
      BY <1>4, <3>1 DEF Consistent, ReferencesMet
    <3>3. References(Entry("group_policy", k, own.group_policy[k]))
            = {Ref("group", k[1]), Ref("policy", k[2])}
      BY DEF References, Entry
    <3>4. Has(w, Ref("group", k[1])) /\ Has(w, Ref("policy", k[2]))
      BY <1>10, <3>2, <3>3 DEF Has, Ref, Kinds
    <3> QED  BY <3>4 DEF Has, Ref
  <2>4. ASSUME NEW k \in DOMAIN own.credential
        PROVE  /\ w.credential[k].username \in DOMAIN w.user
               /\ w.credential[k].user_id = w.user[w.credential[k].username].user_id
    <3> DEFINE n == own.credential[k].username
    <3>1. /\ k \in DOMAIN v.credential /\ v.credential[k] = own.credential[k]
          /\ w.credential[k] = own.credential[k]
      BY <1>2, <1>3 DEF Kinds
    <3>2. n \in DOMAIN v.user /\ own.credential[k].user_id = v.user[n].user_id
      BY <1>4, <3>1 DEF Consistent, ReferencesMet
    <3>3. References(Entry("credential", k, own.credential[k])) = {Ref("user", n)}
      BY DEF References, Entry
    <3> HIDE DEF n
    <3>4. Has(w, Ref("user", n))
      <4>1. Ref("user", n).kind \in Kinds /\ Has(v, Ref("user", n))
        BY <3>2 DEF Has, Ref, Kinds
      <4> QED  BY <1>10, <3>3, <4>1 DEF Kinds
    <3> QED  BY <1>9, <3>1, <3>2, <3>4 DEF Has, Ref, n
  <2>5. /\ DOMAIN w.membership = DOMAIN new.membership \cup DOMAIN own.membership
        /\ DOMAIN w.user_policy = DOMAIN new.user_policy \cup DOMAIN own.user_policy
        /\ DOMAIN w.group_policy = DOMAIN new.group_policy \cup DOMAIN own.group_policy
        /\ DOMAIN w.credential = DOMAIN new.credential \cup DOMAIN own.credential
        /\ DOMAIN new.group \subseteq DOMAIN w.group
        /\ DOMAIN new.policy \subseteq DOMAIN w.policy
        /\ \A k \in DOMAIN new.membership : w.membership[k] = new.membership[k]
        /\ \A k \in DOMAIN new.user_policy : w.user_policy[k] = new.user_policy[k]
        /\ \A k \in DOMAIN new.credential : w.credential[k] = new.credential[k]
    BY <1>3 DEF Kinds
  <2>6. ReferencesMet(new)
    BY DEF Consistent
  <2> QED  BY <1>u, <2>1, <2>2, <2>3, <2>4, <2>5, <2>6 DEF ReferencesMet
<1>12. Consistent(w)
  BY <1>8, <1>11 DEF Consistent
<1> QED  BY <1>7, <1>12 DEF w

-----------------------------------------------------------------------------
(* What the rows of a run have to do with the rest. *)

\* The rows of `old` are rows of `new`, as they were.
Grows(old, new) ==
    \A kind \in Kinds :
        /\ DOMAIN old[kind] \subseteq DOMAIN new[kind]
        /\ \A k \in DOMAIN old[kind] : new[kind][k] = old[kind][k]

\* Separation is mutual.
LEMMA SeparateSymmetric ==
    ASSUME NEW a, NEW b, Separate(a, b)
    PROVE  Separate(b, a)
BY DifferentSymmetric DEF Separate

\* A transaction without rows is separate from every other.
LEMMA NoRowsSeparate ==
    ASSUME NEW db
    PROVE  Separate(NoRows, db) /\ Separate(db, NoRows)
<1>1. \A kind \in Kinds : DOMAIN NoRows[kind] = {}
  BY NoRowsDb
<1>2. DOMAIN NoRows.user = {}
  BY <1>1 DEF Kinds
<1> QED  BY <1>1, <1>2 DEF Separate

\* A run without rows fits every consistent database.
LEMMA NoRowsFit ==
    ASSUME NEW db, NEW id, IsDb(db), Consistent(db), IdsUpTo(db, id)
    PROVE  OwnFits(NoRows, db, id)
BY NoRowsSeparate, MergeNoRows DEF OwnFits

\* Keys apart and users that differ once merged: the two are separate.
LEMMA SeparateOnceMerged ==
    ASSUME NEW db, NEW own, UsersDiffer(Merge(db, own)),
           \A kind \in Kinds : DOMAIN own[kind] \cap DOMAIN db[kind] = {}
    PROVE  Separate(own, db)
<1>1. /\ DOMAIN own.user \cap DOMAIN db.user = {}
      /\ DOMAIN Merge(db, own).user = DOMAIN db.user \cup DOMAIN own.user
      /\ \A k \in DOMAIN own.user : Merge(db, own).user[k] = own.user[k]
      /\ \A k \in DOMAIN db.user \ DOMAIN own.user :
            Merge(db, own).user[k] = db.user[k]
  BY MergeFields DEF Kinds
<1>2. \A n \in DOMAIN own.user, m \in DOMAIN db.user :
        Different(own.user[n], db.user[m])
  <2> SUFFICES ASSUME NEW n \in DOMAIN own.user, NEW m \in DOMAIN db.user
               PROVE  Different(own.user[n], db.user[m])
    OBVIOUS
  <2>1. n # m /\ m \in DOMAIN db.user \ DOMAIN own.user
    BY <1>1
  <2>2. Different(Merge(db, own).user[n], Merge(db, own).user[m])
    BY <1>1, <2>1 DEF UsersDiffer
  <2> QED  BY <1>1, <2>1, <2>2
<1> QED  BY <1>2 DEF Separate

\* More ids may have been handed out.
LEMMA FitsLater ==
    ASSUME NEW own, NEW db, NEW id \in Int, NEW later \in Int, id <= later,
           IsDb(db), IsDb(own), OwnFits(own, db, id)
    PROVE  OwnFits(own, db, later)
<1>1. IsTable(Merge(db, own).user, Usernames, UserRecord)
  BY MergeDb, DbFields
<1>2. \A n \in DOMAIN Merge(db, own).user : Merge(db, own).user[n].user_id \in Int
  BY <1>1 DEF IsTable, UserRecord, UserIds
<1> QED  BY <1>2 DEF OwnFits, IdsUpTo

\* A run that stores a row: its rows still fit, and they are still apart from
\* those of a run that it did not have to wait for.
LEMMA InsertFits ==
    ASSUME NEW db, NEW own, NEW e \in Entries, NEW id \in Nat, NEW new, NEW row,
           IsDb(db), IsDb(own), OwnFits(own, db, id),
           Outcome(Merge(db, own), e) = "created",
           e.kind = "user" => id + 1 \in UserIds,
           row = Row(Merge(db, own), e, id + 1),
           Stored(own, new, e.kind, e.key, row)
    PROVE  /\ IsDb(new)
           /\ Added(own, new, e.kind, e.key, row)
           /\ Added(Merge(db, own), Merge(db, new), e.kind, e.key, row)
           /\ OwnFits(new, db, IF e.kind = "user" THEN id + 1 ELSE id)
<1> DEFINE v == Merge(db, own)
<1>1. IsDb(v)
  BY MergeDb
<1>2. row = Row(v, e, id + 1)
  OBVIOUS
<1>3. e.kind \in Kinds /\ e.key \in KeysOf(e.kind)
  BY EntryFields
<1>4. row \in RowsOf(e.kind)
  BY <1>1, <1>2, RowType
<1>5. e.key \notin DOMAIN v[e.kind]
  BY OutcomeMeans DEF Has
<1>7. /\ IsDb(new)
      /\ Added(own, new, e.kind, e.key, row)
      /\ Added(v, Merge(db, new), e.kind, e.key, row)
  BY <1>3, <1>4, <1>5, PutAdds
<1>8. /\ Consistent(Merge(db, new))
      /\ IdsUpTo(Merge(db, new), IF e.kind = "user" THEN id + 1 ELSE id)
  <2>1. Consistent(v) /\ IdsUpTo(v, (id + 1) - 1)
    BY DEF OwnFits
  <2>2. Outcome(v, e) = "created"
    OBVIOUS
  <2>3. Added(v, Merge(db, new), e.kind, e.key, Row(v, e, id + 1))
    BY <1>2, <1>7
  <2> HIDE DEF v
  <2>4. /\ Consistent(Merge(db, new))
        /\ IdsUpTo(Merge(db, new), IF e.kind = "user" THEN id + 1 ELSE (id + 1) - 1)
    BY <1>1, <2>1, <2>2, <2>3, AddedConsistent
  <2> QED  BY <2>4
<1>9. \A kind \in Kinds : DOMAIN new[kind] \cap DOMAIN db[kind] = {}
  <2>1. e.key \notin DOMAIN db[e.kind]
    BY <1>3, <1>5, MergeFields
  <2>2. \A kind \in Kinds : DOMAIN own[kind] \cap DOMAIN db[kind] = {}
    BY DEF OwnFits, Separate
  <2> QED  BY <1>3, <1>7, <2>1, <2>2 DEF Added
<1>10. Separate(new, db)
  BY <1>8, <1>9, SeparateOnceMerged DEF Consistent
<1> QED  BY <1>2, <1>7, <1>8, <1>10 DEF OwnFits

\* A row that another open transaction neither has nor clashes with keeps the
\* two separate.
LEMMA InsertSeparate ==
    ASSUME NEW own, NEW new, NEW other, NEW v, NEW e \in Entries, NEW id \in Int,
           IsDb(other), Separate(own, other),
           Added(own, new, e.kind, e.key, Row(v, e, id)),
           ~Has(other, e), ~SharesWith(other, e), IdsUpTo(other, id - 1)
    PROVE  Separate(new, other)
<1>1. e.kind \in Kinds
  BY EntryFields
<1>2. \A kind \in Kinds : DOMAIN new[kind] \cap DOMAIN other[kind] = {}
  BY <1>1 DEF Added, Separate, Has
<1>3. ASSUME NEW n \in DOMAIN new.user, NEW m \in DOMAIN other.user
      PROVE  Different(new.user[n], other.user[m])
  <2>0. \A k \in DOMAIN own.user : Different(own.user[k], other.user[m])
    BY DEF Separate
  <2>1. CASE e.kind = "user" /\ n = e.key
    <3>1. /\ new.user[n].user_id = id /\ new.user[n].email = e.row.email
          /\ new.user[n].external_id = e.row.external_id
      BY <2>1 DEF Added, Row
    <3>2. ~SharesUnique(e.row, other.user[m])
      BY <2>1 DEF SharesWith
    <3>3. other.user[m].user_id \in Int /\ other.user[m].user_id <= id - 1
      BY DbFields DEF IsTable, UserRecord, UserIds, IdsUpTo
    <3> QED  BY <3>1, <3>2, <3>3 DEF Different, SharesUnique
  <2>2. CASE e.kind = "user" /\ n # e.key
    BY <2>0, <2>2 DEF Added
  <2>3. CASE e.kind # "user"
    <3>1. new.user = own.user
      BY <2>3 DEF Added, Kinds
    <3> QED  BY <2>0, <3>1
  <2> QED  BY <2>1, <2>2, <2>3
<1> QED  BY <1>2, <1>3 DEF Separate

\* A row that is there, with the right identity, stays there when a database
\* grows.
LEMMA DoneGrows ==
    ASSUME NEW e \in Entries, NEW old, NEW new, Grows(old, new),
           Has(old, e), Accepts(e, old[e.kind][e.key])
    PROVE  Has(new, e) /\ Accepts(e, new[e.kind][e.key])
BY EntryFields DEF Grows, Has

\* An added row leaves the other rows as they were.
LEMMA AddedGrows ==
    ASSUME NEW old, NEW new, NEW kind, NEW key, NEW row,
           Added(old, new, kind, key, row)
    PROVE  Grows(old, new)
BY DEF Added, Grows

-----------------------------------------------------------------------------
(* The steps. *)

\* The invariant of the store and the tables as a consistent database.
LEMMA StoreTables == StoreInv <=> TablesOk
<1>1. TypeOK => \A k \in DOMAIN users : users[k].user_id \in Int
  BY DEF TypeOK, IsTable, UserRecord, UserIds
<1>2. ReferencesMet(Committed) /\ PrincipalsOk <=>
        ReferentialIntegrity /\ NoInheritedGrants
  BY CommittedFields
     DEF ReferencesMet, PrincipalsOk, ReferentialIntegrity, NoInheritedGrants
<1>3. UsersDiffer(Committed) /\ IdsUpTo(Committed, next_user_id) <=> UniqueIdentities
  BY CommittedFields
     DEF UsersDiffer, IdsUpTo, UniqueIdentities, Different, SharesUnique
<1> QED  BY <1>2, <1>3 DEF StoreInv, TablesOk, Consistent

\* The same of the tables after a step.
LEMMA StoreTablesNext == StoreInv' <=> TablesOk'
<1>1. /\ Committed'.policy = policies' /\ Committed'.group = groups'
      /\ Committed'.user = users' /\ Committed'.membership = group_members'
      /\ Committed'.user_policy = user_policies'
      /\ Committed'.group_policy = [k \in group_policies' |-> None]
      /\ Committed'.credential = credentials'
  BY DEF Committed
<1>2. ReferencesMet(Committed') /\ PrincipalsOk' <=>
        ReferentialIntegrity' /\ NoInheritedGrants'
  BY <1>1
     DEF ReferencesMet, PrincipalsOk, ReferentialIntegrity, NoInheritedGrants
<1>3. UsersDiffer(Committed') /\ IdsUpTo(Committed', next_user_id') <=> UniqueIdentities'
  BY <1>1 DEF UsersDiffer, IdsUpTo, UniqueIdentities, Different, SharesUnique
<1> QED  BY <1>2, <1>3 DEF StoreInv, TablesOk, Consistent

\* What the invariant says of the databases it is about.
LEMMA InvFacts ==
    ASSUME BootIInv
    PROVE  /\ IsDb(Committed) /\ next_user_id \in Nat
           /\ \A r \in Replicas : run[r] \in Runs /\ IsDb(run[r].own)
<1>1. IsDb(Committed) /\ next_user_id \in Nat
  BY CommittedDb, MaxUserIdAssumption DEF BootIInv, TablesOk, TypeOK
<1>2. \A r \in Replicas : run[r] \in Runs /\ run[r].own \in Dbs
  BY DEF BootIInv, Runs
<1> QED  BY <1>1, <1>2, DbsAreDbs

\* A step that gives r a new state.
LEMMA SetRunFacts ==
    ASSUME run \in [Replicas -> Runs], NEW r \in Replicas, NEW new \in Runs,
           SetRun(r, new)
    PROVE  /\ run' \in [Replicas -> Runs]
           /\ run'[r] = new
           /\ \A q \in Replicas \ {r} : run'[q] = run[q]
BY DEF SetRun

\* The deletions that an open run remembers.
LEMMA WatchFacts ==
    ASSUME Watch
    PROVE  /\ DOMAIN deleted' = Replicas
           /\ \A r \in Replicas : Open(r)' =>
                 deleted'[r] = deleted[r] \cup Gone
BY DEF Watch

\* What r is done with it is still done with, when it stays open and what it
\* sees grows.
LEMMA StillDone ==
    ASSUME Watch, NEW r \in Replicas, NEW e \in Entries, Open(r)',
           Grows(Visible(r), Visible(r)'), DoneWith(r, e)
    PROVE  DoneWith(r, e)'
<1>1. deleted[r] \subseteq deleted'[r]
  BY WatchFacts
<1>2. CASE Ref(e.kind, e.key) \in deleted[r]
  BY <1>1, <1>2 DEF DoneWith
<1>3. CASE Has(Visible(r), e) /\ Accepts(e, Visible(r)[e.kind][e.key])
  <2>1. PICK v, w : v = Visible(r) /\ w = Visible(r)'
    OBVIOUS
  <2>2. Has(w, e) /\ Accepts(e, w[e.kind][e.key])
    BY <1>3, <2>1, DoneGrows
  <2> QED  BY <2>1, <2>2 DEF DoneWith
<1> QED  BY <1>2, <1>3 DEF DoneWith

\* Every database is its own extension.
LEMMA GrowsReflexive == \A v : Grows(v, v)
BY DEF Grows

\* A step of r that changes no table and keeps the rest of the invariant for
\* r keeps it for everybody.
LEMMA QuietStep ==
    ASSUME BootIInv, NEW r \in Replicas, NEW new \in Runs, SetRun(r, new),
           TablesUnchanged, next_user_id' \in next_user_id .. MaxUserId,
           api' = api, Watch, RunOk(r)', ProgressOk(r)',
           OwnFits(new.own, Committed, next_user_id'),
           \A q \in Replicas \ {r} : Separate(new.own, run[q].own)
    PROVE  BootIInv'
<1>1. Committed' = Committed
  BY DEF TablesUnchanged, Committed
<1>2. /\ run' \in [Replicas -> Runs] /\ run'[r] = new
      /\ \A q \in Replicas \ {r} : run'[q] = run[q]
  BY SetRunFacts DEF BootIInv
<1>3. /\ IsDb(Committed) /\ next_user_id \in Nat
      /\ \A q \in Replicas : IsDb(run[q].own)
  BY InvFacts
<1>4. next_user_id' \in Int /\ next_user_id <= next_user_id'
  BY <1>3, MaxUserIdAssumption
<1>5. TablesOk'
  <2>1. TypeOK'
    BY <1>3, MaxUserIdAssumption DEF TablesUnchanged, BootIInv, TablesOk, TypeOK
  <2>2. Consistent(Committed') /\ PrincipalsOk'
    BY <1>1 DEF TablesUnchanged, BootIInv, TablesOk, PrincipalsOk
  <2>3. IdsUpTo(Committed', next_user_id')
    <3>1. \A n \in DOMAIN Committed.user :
            /\ Committed.user[n].user_id <= next_user_id
            /\ Committed.user[n].user_id \in Int
      BY <1>3, DbFields
         DEF BootIInv, TablesOk, IdsUpTo, IsTable, UserRecord, UserIds
    <3> QED  BY <1>1, <1>3, <1>4, <3>1 DEF IdsUpTo
  <2> QED  BY <2>1, <2>2, <2>3 DEF TablesOk
<1>6. ASSUME NEW q \in Replicas
      PROVE  RunOk(q)' /\ OwnOk(q)' /\ ProgressOk(q)'
  <2>1. CASE q = r
    <3>1. \A p \in Replicas \ {r} : Separate(run'[r].own, run'[p].own)
      BY <1>2
    <3> QED  BY <1>1, <1>2, <2>1, <3>1 DEF OwnOk
  <2>2. CASE q # r
    <3>1. run'[q] = run[q]
      BY <1>2, <2>2
    <3>2. RunOk(q)'
      BY <3>1 DEF BootIInv, RunOk, Open
    <3>3. OwnFits(run[q].own, Committed, next_user_id')
      BY <1>3, <1>4, FitsLater DEF BootIInv, OwnOk
    <3>4. \A p \in Replicas \ {q} : Separate(run[q].own, run'[p].own)
      <4>1. Separate(run[q].own, new.own)
        BY <2>2, SeparateSymmetric
      <4> QED  BY <1>2, <4>1 DEF BootIInv, OwnOk
    <3>5. OwnOk(q)'
      BY <1>1, <3>1, <3>3, <3>4 DEF OwnOk
    <3>6. ProgressOk(q)'
      <4> SUFFICES ASSUME Open(q)', NEW i \in 1 .. run[q].pos - 1
                   PROVE  DoneWith(q, run[q].plan[i])'
        BY <3>1 DEF ProgressOk
      <4>1. Open(q)
        BY <3>1 DEF Open
      <4>2. Visible(q)' = Visible(q)
        BY <1>1, <3>1 DEF Visible
      <4>3. DoneWith(q, run[q].plan[i])
        BY <4>1 DEF BootIInv, ProgressOk
      <4>4. run[q].plan[i] \in Entries
        <5>1. run[q].plan \in Seq(Entries) /\ run[q].pos \in Nat
          BY InvFacts DEF Runs
        <5>2. i \in 1 .. Len(run[q].plan)
          BY <4>1, <5>1 DEF BootIInv, RunOk, Open
        <5> QED  BY <5>1, <5>2
      <4>5. PICK e \in Entries : e = run[q].plan[i] /\ e = run'[q].plan[i]
        BY <3>1, <4>4
      <4>6. DoneWith(q, e)'
        BY <4>1, <4>2, <4>3, <4>5, StillDone, GrowsReflexive
      <4> QED  BY <4>5, <4>6, <3>1 DEF DoneWith
    <3> QED  BY <3>2, <3>5, <3>6
  <2> QED  BY <2>1, <2>2
<1> QED  BY <1>2, <1>5, <1>6, WatchFacts DEF BootIInv

\* The entries of a plan.
LEMMA PlanEntries ==
    ASSUME BootIInv, NEW r \in Replicas
    PROVE  /\ run[r].plan \in Seq(Entries) /\ run[r].pos \in Nat
           /\ \A i \in 1 .. Len(run[r].plan) : run[r].plan[i] \in Entries
           /\ run[r].phase \in {"insert", "read"} =>
                 run[r].pos \in 1 .. Len(run[r].plan) /\ Current(r) \in Entries
           /\ Open(r) => \A i \in 1 .. run[r].pos - 1 : i \in 1 .. Len(run[r].plan)
<1>1. run[r].plan \in Seq(Entries) /\ run[r].pos \in Nat
  BY InvFacts DEF Runs
<1>2. Len(run[r].plan) \in Nat /\ \A i \in 1 .. Len(run[r].plan) : run[r].plan[i] \in Entries
  BY <1>1
<1>3. RunOk(r)
  BY DEF BootIInv
<1>4. Open(r) => \A i \in 1 .. run[r].pos - 1 : i \in 1 .. Len(run[r].plan)
  BY <1>1, <1>2, <1>3 DEF RunOk, Open
<1> QED  BY <1>1, <1>2, <1>3, <1>4 DEF RunOk, Current

\* A run whose rows are gone and which is not open disturbs nobody.
LEMMA ClosedStep ==
    ASSUME BootIInv, NEW r \in Replicas, NEW new \in Runs, SetRun(r, new),
           TablesUnchanged, next_user_id' \in next_user_id .. MaxUserId,
           api' = api, Watch, new.own = NoRows, new.pos = 1,
           new.phase \in {"start", "ready", "failed"},
           new.phase = "start" => new.error = "none"
    PROVE  BootIInv'
<1>1. run'[r] = new
  BY SetRunFacts DEF BootIInv
<1>2. RunOk(r)' /\ ProgressOk(r)'
  BY <1>1 DEF RunOk, ProgressOk, Open
<1>3. OwnFits(new.own, Committed, next_user_id')
  <2>1. OwnFits(NoRows, Committed, next_user_id)
    BY InvFacts, NoRowsFit DEF BootIInv, TablesOk
  <2>2. next_user_id \in Int /\ next_user_id' \in Int /\ next_user_id <= next_user_id'
    BY InvFacts, MaxUserIdAssumption
  <2> QED  BY <2>1, <2>2, InvFacts, NoRowsDb, FitsLater
<1>4. \A q \in Replicas \ {r} : Separate(new.own, run[q].own)
  BY NoRowsSeparate
<1> QED  BY <1>2, <1>3, <1>4, QuietStep

\* A run that fails rolls back: it keeps the invariant if no table changes.
LEMMA FailStep ==
    ASSUME BootIInv, NEW r \in Replicas, NEW error \in Errors, Fail(r, error),
           TablesUnchanged, next_user_id' \in next_user_id .. MaxUserId,
           api' = api, Watch
    PROVE  BootIInv'
<1> DEFINE new == [run[r] EXCEPT !.phase = "failed", !.error = error,
                                 !.own = NoRows, !.pos = 1]
<1>1. new \in Runs /\ new.phase = "failed" /\ new.own = NoRows /\ new.pos = 1
  <2>1. run[r] \in Runs /\ NoRows \in Dbs
    BY InvFacts, NoRowsDb, DbsAreDbs
  <2> QED  BY <2>1 DEF Runs, Phases
<1>2. SetRun(r, new)
  BY DEF Fail
<1> HIDE DEF new
<1> QED  BY <1>1, <1>2, ClosedStep

\* load_plan: nothing to do, a file that is refused, or a plan to work through.
LEMMA LoadStep ==
    ASSUME BootIInv, NEW r \in Replicas, LoadPlan(r), Watch
    PROVE  BootIInv'
<1>1. /\ run[r] \in Runs /\ run[r].phase = "start" /\ run[r].pos = 1
      /\ run[r].own = NoRows /\ run[r].error = "none"
  BY InvFacts DEF LoadPlan, BootIInv, RunOk, Open
<1>2. /\ TablesUnchanged /\ api' = api
      /\ next_user_id' \in next_user_id .. MaxUserId
  BY MaxUserIdAssumption
     DEF LoadPlan, vars, TablesUnchanged, BootIInv, TablesOk, TypeOK
<1>3. CASE SetRun(r, [run[r] EXCEPT !.phase = "ready"])
  <2> DEFINE new == [run[r] EXCEPT !.phase = "ready"]
  <2>1. /\ new \in Runs /\ new.phase = "ready" /\ new.own = NoRows /\ new.pos = 1
    BY <1>1 DEF Runs, Phases
  <2>2. SetRun(r, new)
    BY <1>3
  <2> HIDE DEF new
  <2> QED  BY <1>2, <2>1, <2>2, ClosedStep
<1>4. CASE Fail(r, "file")
  <2>1. "file" \in Errors
    BY DEF Errors
  <2> QED  BY <1>2, <1>4, <2>1, FailStep
<1>5. ASSUME ValidFile(run[r].file), Plan(run[r].file) # <<>>,
             run[r].file \notin {NoFile, UnreadableFile},
             SetRun(r, [run[r] EXCEPT !.phase = "insert", !.plan = Plan(run[r].file)])
      PROVE  BootIInv'
  <2>1. WellFormed(run[r].file)
    <3>1. run[r].file \in Files
      BY <1>1 DEF Runs
    <3> QED  BY <1>5, <3>1, FilesAssumption DEF Files
  <2>2. PICK plan : plan = Plan(run[r].file)
    OBVIOUS
  <2>3. plan \in Seq(Entries) /\ plan # <<>>
    BY <1>5, <2>1, <2>2, PlanType
  <2>4. Len(plan) \in Nat /\ 1 \in 1 .. Len(plan)
    BY <2>3, EmptySeq, LenProperties
  <2> DEFINE new == [run[r] EXCEPT !.phase = "insert", !.plan = plan]
  <2>5. /\ new \in Runs /\ new.phase = "insert" /\ new.own = NoRows /\ new.pos = 1
        /\ new.plan = plan /\ new.error = "none"
    BY <1>1, <2>3 DEF Runs, Phases
  <2>6. SetRun(r, new)
    BY <1>5, <2>2
  <2> HIDE DEF new
  <2>7. run'[r] = new
    BY <2>5, <2>6, SetRunFacts DEF BootIInv
  <2>8. RunOk(r)' /\ ProgressOk(r)'
    BY <2>4, <2>5, <2>7 DEF RunOk, ProgressOk, Open
  <2>9. OwnFits(new.own, Committed, next_user_id')
    <3>1. OwnFits(NoRows, Committed, next_user_id)
      BY InvFacts, NoRowsFit DEF BootIInv, TablesOk
    <3> QED  BY <2>5, <3>1 DEF LoadPlan, vars
  <2>10. \A q \in Replicas \ {r} : Separate(new.own, run[q].own)
    BY <2>5, NoRowsSeparate
  <2> QED  BY <1>2, <2>5, <2>6, <2>8, <2>9, <2>10, QuietStep
<1> QED  BY <1>3, <1>4, <1>5 DEF LoadPlan

\* An entry is done: it is in what r sees, and r goes on.
LEMMA AdvanceStep ==
    ASSUME BootIInv, NEW r \in Replicas, run[r].phase \in {"insert", "read"},
           NEW own, IsDb(own), Advance(r, own), TablesUnchanged, api' = api,
           next_user_id' \in next_user_id .. MaxUserId, Watch,
           OwnFits(own, Committed, next_user_id'),
           \A q \in Replicas \ {r} : Separate(own, run[q].own),
           Grows(Visible(r), Merge(Committed, own)),
           Has(Merge(Committed, own), Current(r)),
           Accepts(Current(r), Merge(Committed, own)[Current(r).kind][Current(r).key])
    PROVE  BootIInv'
<1>1. PICK phase : phase = IF run[r].pos < Len(run[r].plan) THEN "insert" ELSE "commit"
  OBVIOUS
<1> DEFINE new == [run[r] EXCEPT !.own = own, !.pos = @ + 1, !.phase = phase]
<1>2. /\ run[r].plan \in Seq(Entries) /\ run[r].pos \in 1 .. Len(run[r].plan)
      /\ Len(run[r].plan) \in Nat
  BY PlanEntries, LenProperties
<1>3. /\ new \in Runs /\ new.phase = phase /\ new.own = own
      /\ new.pos = run[r].pos + 1 /\ new.plan = run[r].plan
      /\ new.error = run[r].error
  <2>1. run[r] \in Runs /\ own \in Dbs /\ phase \in Phases
    BY <1>1, InvFacts, DbsAreDbs DEF Phases
  <2>2. run[r].pos + 1 \in Nat
    BY <1>2
  <2> QED  BY <2>1, <2>2 DEF Runs
<1>4. SetRun(r, new)
  BY <1>1 DEF Advance
<1> HIDE DEF new
<1>5. run'[r] = new
  BY <1>3, <1>4, SetRunFacts DEF BootIInv
<1>6. RunOk(r)'
  <2>1. run[r].error = "none"
    BY DEF BootIInv, RunOk, Open
  <2> QED  BY <1>1, <1>2, <1>3, <1>5, <2>1 DEF RunOk, Open
<1>7. Open(r) /\ Open(r)' /\ Committed' = Committed
  BY <1>1, <1>3, <1>5 DEF Open, TablesUnchanged, Committed
<1>8. Visible(r)' = Merge(Committed, own)
  BY <1>3, <1>5, <1>7 DEF Visible
<1>9. ProgressOk(r)'
  <2> SUFFICES ASSUME NEW i \in 1 .. run[r].pos
               PROVE  DoneWith(r, run[r].plan[i])'
    <3>1. run'[r].pos - 1 = run[r].pos
      BY <1>2, <1>3, <1>5
    <3> QED  BY <3>1 DEF ProgressOk
  <2>1. PICK e \in Entries : e = run[r].plan[i] /\ e = run'[r].plan[i]
    BY <1>2, <1>3, <1>5, PlanEntries
  <2>2. CASE i = run[r].pos
    <3>1. e = Current(r)
      BY <2>1, <2>2 DEF Current
    <3> QED  BY <1>8, <2>1, <3>1 DEF DoneWith
  <2>3. CASE i # run[r].pos
    <3>1. i \in 1 .. run[r].pos - 1
      BY <1>2, <2>3
    <3>2. DoneWith(r, e)
      BY <1>7, <2>1, <3>1 DEF BootIInv, ProgressOk
    <3>3. DoneWith(r, e)'
      BY <1>7, <1>8, <3>2, StillDone
    <3> QED  BY <2>1, <3>3 DEF DoneWith
  <2> QED  BY <2>2, <2>3
<1> QED  BY <1>3, <1>4, <1>6, <1>9, QuietStep

\* One insert of the plan: a new row, a row that is there already, or a
\* refusal.
LEMMA InsertStep ==
    ASSUME BootIInv, NEW r \in Replicas, InsertIfMissing(r), Watch
    PROVE  BootIInv'
<1>1. PICK e \in Entries : e = Current(r)
  BY PlanEntries DEF InsertIfMissing
<1>2. /\ run[r].phase = "insert" /\ WaitsFor(r) = {}
      /\ TablesUnchanged /\ api' = api /\ DrawId(e)
  BY <1>1 DEF InsertIfMissing
<1>3. /\ next_user_id \in Nat /\ next_user_id' \in next_user_id .. MaxUserId
      /\ e.kind = "user" =>
            next_user_id' = next_user_id + 1 /\ next_user_id + 1 \in UserIds
      /\ e.kind # "user" => next_user_id' = next_user_id
  BY <1>2, InvFacts, MaxUserIdAssumption
     DEF DrawId, BootIInv, TablesOk, TypeOK, UserIds
<1>4. PICK own, v, row :
        /\ own = run[r].own /\ v = Merge(Committed, own) /\ v = Visible(r)
        /\ row = Row(v, e, next_user_id + 1)
  BY DEF Visible
<1>5. /\ IsDb(Committed) /\ IsDb(own) /\ OwnFits(own, Committed, next_user_id)
      /\ \A q \in Replicas \ {r} : Separate(own, run[q].own)
  BY <1>4, InvFacts DEF BootIInv, OwnOk
<1>6. \/ /\ Outcome(v, e) = "created"
         /\ Advance(r, [own EXCEPT ![e.kind] = Put(@, e.key, row)])
      \/ /\ Outcome(v, e) = "present" /\ e.kind \notin {"user", "credential"}
         /\ Advance(r, own)
      \/ SetRun(r, [run[r] EXCEPT !.phase = "read"])
      \/ /\ Outcome(v, e) \notin {"created", "present"}
         /\ Fail(r, Outcome(v, e))
  BY <1>1, <1>4 DEF InsertIfMissing
<1>7. OwnFits(own, Committed, next_user_id')
  BY <1>3, <1>5, FitsLater
<1>8. CASE /\ Outcome(v, e) = "created"
           /\ Advance(r, [own EXCEPT ![e.kind] = Put(@, e.key, row)])
  <2>1. PICK new : new = [own EXCEPT ![e.kind] = Put(@, e.key, row)]
    OBVIOUS
  <2>2. /\ IsDb(new)
        /\ Added(own, new, e.kind, e.key, row)
        /\ Added(v, Merge(Committed, new), e.kind, e.key, row)
        /\ OwnFits(new, Committed,
                   IF e.kind = "user" THEN next_user_id + 1 ELSE next_user_id)
    <3>1. PICK db, id : db = Committed /\ id = next_user_id
      OBVIOUS
    <3>2. /\ Outcome(Merge(db, own), e) = "created"
          /\ row = Row(Merge(db, own), e, id + 1)
          /\ IsDb(db) /\ OwnFits(own, db, id)
          /\ id \in Nat /\ (e.kind = "user" => id + 1 \in UserIds)
      BY <1>3, <1>4, <1>5, <1>8, <3>1
    <3>3. Stored(own, new, e.kind, e.key, row)
      BY <1>5, <2>1, EntryFields DEF Stored, IsDb
    <3>4. /\ IsDb(new)
          /\ Added(own, new, e.kind, e.key, row)
          /\ Added(Merge(db, own), Merge(db, new), e.kind, e.key, row)
          /\ OwnFits(new, db, IF e.kind = "user" THEN id + 1 ELSE id)
      BY <1>5, <3>2, <3>3, InsertFits
    <3> QED  BY <1>4, <3>1, <3>4
  <2>3. OwnFits(new, Committed, next_user_id')
    BY <1>3, <2>2
  <2>4. ASSUME NEW q \in Replicas \ {r}
        PROVE  Separate(new, run[q].own)
    <3>1. ~Has(v, e)
      BY <1>8, OutcomeMeans
    <3>2. ~Has(run[q].own, e) /\ ~SharesWith(run[q].own, e)
      BY <1>1, <1>2, <1>4, <3>1 DEF WaitsFor
    <3>3. IdsUpTo(run[q].own, (next_user_id + 1) - 1)
      <4>1. IdsUpTo(Merge(Committed, run[q].own), next_user_id)
        BY DEF BootIInv, OwnOk, OwnFits
      <4>2. /\ DOMAIN run[q].own.user \subseteq DOMAIN Merge(Committed, run[q].own).user
            /\ \A k \in DOMAIN run[q].own.user :
                  Merge(Committed, run[q].own).user[k] = run[q].own.user[k]
        BY MergeFields DEF Kinds
      <4> QED  BY <1>3, <4>1, <4>2 DEF IdsUpTo
    <3>4. IsDb(run[q].own) /\ next_user_id + 1 \in Int
      BY <1>3, InvFacts
    <3> QED  BY <1>4, <1>5, <2>2, <3>2, <3>3, <3>4, InsertSeparate
  <2>5. Grows(v, Merge(Committed, new))
    BY <2>2, AddedGrows
  <2>6. /\ Has(Merge(Committed, new), e)
        /\ Merge(Committed, new)[e.kind][e.key] = row
    BY <2>2 DEF Added, Has
  <2>7. Accepts(e, row)
    BY <1>4 DEF Accepts, Row
  <2>8. Advance(r, new)
    BY <1>8, <2>1
  <2> HIDE <1>6
  <2> QED  BY <1>1, <1>2, <1>3, <1>4, <2>2, <2>3, <2>4, <2>5, <2>6, <2>7, <2>8,
              AdvanceStep
<1>9. CASE /\ Outcome(v, e) = "present" /\ e.kind \notin {"user", "credential"}
           /\ Advance(r, own)
  <2>1. Has(v, e) /\ Accepts(e, v[e.kind][e.key])
    BY <1>9, OutcomeMeans DEF Accepts
  <2> QED  BY <1>1, <1>2, <1>3, <1>4, <1>5, <1>7, <1>9, <2>1, GrowsReflexive,
              AdvanceStep
<1>10. CASE SetRun(r, [run[r] EXCEPT !.phase = "read"])
  <2> DEFINE new == [run[r] EXCEPT !.phase = "read"]
  <2>1. /\ new \in Runs /\ new.phase = "read" /\ new.own = own
        /\ new.pos = run[r].pos /\ new.plan = run[r].plan
        /\ new.error = run[r].error
    BY <1>4, InvFacts DEF Runs, Phases
  <2>2. SetRun(r, new)
    BY <1>10
  <2> HIDE DEF new
  <2>3. run'[r] = new
    BY <2>1, <2>2, SetRunFacts DEF BootIInv
  <2>4. RunOk(r)' /\ Open(r) /\ Open(r)'
    BY <1>2, <2>1, <2>3 DEF BootIInv, RunOk, Open
  <2>5. Visible(r)' = Visible(r)
    BY <1>2, <1>4, <2>1, <2>3 DEF Visible, Committed, TablesUnchanged
  <2>6. ProgressOk(r)'
    <3> SUFFICES ASSUME NEW i \in 1 .. run[r].pos - 1
                 PROVE  DoneWith(r, run[r].plan[i])'
      BY <2>1, <2>3 DEF ProgressOk
    <3>1. PICK f \in Entries : f = run[r].plan[i] /\ f = run'[r].plan[i]
      BY <2>1, <2>3, <2>4, PlanEntries
    <3>2. DoneWith(r, f)
      BY <2>4, <3>1 DEF BootIInv, ProgressOk
    <3>3. DoneWith(r, f)'
      BY <2>4, <2>5, <3>2, StillDone, GrowsReflexive
    <3> QED  BY <3>1, <3>3 DEF DoneWith
  <2> QED  BY <1>2, <1>3, <1>5, <1>7, <2>1, <2>2, <2>4, <2>6, QuietStep
<1>11. CASE /\ Outcome(v, e) \notin {"created", "present"}
            /\ Fail(r, Outcome(v, e))
  <2>1. PICK error \in Errors : error = Outcome(v, e)
    BY <1>11, OutcomeMeans DEF Errors
  <2> QED  BY <1>2, <1>3, <1>11, <2>1, FailStep
<1> QED  BY <1>6, <1>8, <1>9, <1>10, <1>11

\* The read after a skipped insert.
LEMMA ReadStep ==
    ASSUME BootIInv, NEW r \in Replicas, ReadBack(r), Watch
    PROVE  BootIInv'
<1>1. PICK e \in Entries : e = Current(r)
  BY PlanEntries DEF ReadBack
<1>2. /\ run[r].phase = "read" /\ TablesUnchanged /\ api' = api
      /\ next_user_id' = next_user_id
  BY DEF ReadBack, vars, TablesUnchanged
<1>3. next_user_id' \in next_user_id .. MaxUserId
  BY <1>2, InvFacts, MaxUserIdAssumption DEF BootIInv, TablesOk, TypeOK
<1>4. PICK own, v : own = run[r].own /\ v = Merge(Committed, own) /\ v = Visible(r)
  BY DEF Visible
<1>5. /\ IsDb(own) /\ OwnFits(own, Committed, next_user_id')
      /\ \A q \in Replicas \ {r} : Separate(own, run[q].own)
  BY <1>2, <1>4, InvFacts DEF BootIInv, OwnOk
<1>6. CASE Has(v, e) /\ Accepts(e, v[e.kind][e.key]) /\ Advance(r, own)
  BY <1>1, <1>2, <1>3, <1>4, <1>5, <1>6, GrowsReflexive, AdvanceStep
<1>7. CASE \E error \in Errors : Fail(r, error)
  BY <1>2, <1>3, <1>7, FailStep
<1> QED  BY <1>1, <1>4, <1>6, <1>7 DEF ReadBack, Errors

\* A commit makes what r sees the committed database.
LEMMA Published ==
    ASSUME BootIInv, NEW r \in Replicas, Publish(r)
    PROVE  /\ IsDb(Visible(r)) /\ Committed' = Visible(r)
           /\ next_user_id' = next_user_id
           /\ external_principals' = external_principals
<1>1. PICK db : db = Visible(r)
  OBVIOUS
<1>2. IsDb(db)
  BY <1>1, InvFacts, MergeDb DEF Visible
<1>3. [k \in DOMAIN db.group_policy |-> None] = db.group_policy
  BY <1>2, DbFields DEF IsTable
<1>4. /\ Committed'.policy = db.policy /\ Committed'.group = db.group
      /\ Committed'.user = db.user /\ Committed'.membership = db.membership
      /\ Committed'.user_policy = db.user_policy
      /\ Committed'.group_policy = db.group_policy
      /\ Committed'.credential = db.credential
      /\ Committed' = [kind \in Kinds |-> Committed'[kind]]
  BY <1>1, <1>3 DEF Publish, Committed, Kinds
<1>5. \A kind \in Kinds : Committed'[kind] = db[kind]
  BY <1>4 DEF Kinds
<1>6. Committed' = db
  BY <1>2, <1>4, <1>5 DEF IsDb
<1> QED  BY <1>1, <1>2, <1>6 DEF Publish

\* Separate rows on top of a database leave its rows as they are.
LEMMA MergeGrows ==
    ASSUME NEW db, NEW own, Separate(own, db)
    PROVE  Grows(db, Merge(db, own))
BY MergeFields DEF Separate, Grows

\* What grows underneath a run grows for the run.
LEMMA MergeOfGrown ==
    ASSUME NEW old, NEW new, NEW own, Grows(old, new)
    PROVE  Grows(Merge(old, own), Merge(new, own))
<1> SUFFICES ASSUME NEW kind \in Kinds
             PROVE  /\ DOMAIN Merge(old, own)[kind] \subseteq DOMAIN Merge(new, own)[kind]
                    /\ \A k \in DOMAIN Merge(old, own)[kind] :
                          Merge(new, own)[kind][k] = Merge(old, own)[kind][k]
  BY DEF Grows
<1>1. /\ DOMAIN Merge(old, own)[kind] = DOMAIN old[kind] \cup DOMAIN own[kind]
      /\ \A k \in DOMAIN own[kind] : Merge(old, own)[kind][k] = own[kind][k]
      /\ \A k \in DOMAIN old[kind] \ DOMAIN own[kind] :
            Merge(old, own)[kind][k] = old[kind][k]
  BY MergeFields
<1>2. /\ DOMAIN Merge(new, own)[kind] = DOMAIN new[kind] \cup DOMAIN own[kind]
      /\ \A k \in DOMAIN own[kind] : Merge(new, own)[kind][k] = own[kind][k]
      /\ \A k \in DOMAIN new[kind] \ DOMAIN own[kind] :
            Merge(new, own)[kind][k] = new[kind][k]
  BY MergeFields
<1>3. /\ DOMAIN old[kind] \subseteq DOMAIN new[kind]
      /\ \A k \in DOMAIN old[kind] : new[kind][k] = old[kind][k]
  BY DEF Grows
<1> QED  BY <1>1, <1>2, <1>3

\* The ids of two databases that have been handed out, on top of each other.
LEMMA MergeIds ==
    ASSUME NEW db, NEW own, NEW id, IdsUpTo(db, id), IdsUpTo(own, id)
    PROVE  IdsUpTo(Merge(db, own), id)
BY MergeFields DEF IdsUpTo, Kinds

\* The ids that are used up with a run's rows merged in are used up by them.
LEMMA OwnIds ==
    ASSUME NEW db, NEW own, NEW id, IdsUpTo(Merge(db, own), id)
    PROVE  IdsUpTo(own, id)
BY MergeFields DEF IdsUpTo, Kinds

\* The tables after a commit are as consistent as what the run saw.
LEMMA PublishTables ==
    ASSUME BootIInv, NEW r \in Replicas, Publish(r)
    PROVE  TablesOk'
<1>1. PICK db : db = Visible(r)
  OBVIOUS
<1>2. /\ IsDb(db) /\ Committed' = db /\ next_user_id' = next_user_id
      /\ external_principals' = external_principals
  BY <1>1, Published
<1>3. OwnFits(run[r].own, Committed, next_user_id)
  BY DEF BootIInv, OwnOk
<1>4. Consistent(Committed') /\ IdsUpTo(Committed', next_user_id')
  BY <1>1, <1>2, <1>3 DEF OwnFits, Visible
<1>5. Grows(Committed, db)
  BY <1>1, <1>3, MergeGrows DEF OwnFits, Visible
<1>6. PrincipalsOk'
  <2>1. users' = db.user
    BY <1>1 DEF Publish
  <2>2. /\ DOMAIN users \subseteq DOMAIN users'
        /\ \A n \in DOMAIN users : users'[n] = users[n]
    BY <1>5, <2>1, CommittedFields DEF Grows, Kinds
  <2> QED  BY <1>2, <2>2 DEF BootIInv, TablesOk, PrincipalsOk
<1>7. TypeOK'
  <2>1. /\ IsTable(db.policy, Policies, PolicyRecord)
        /\ IsTable(db.group, Groups, GroupRecord)
        /\ IsTable(db.user, Usernames, UserRecord)
        /\ IsTable(db.membership, MembershipKeys, UserIds)
        /\ IsTable(db.user_policy, UserPolicyKeys, UserIds)
        /\ IsTable(db.group_policy, Groups \X Policies, {None})
        /\ IsTable(db.credential, AccessKeys, CredentialRecord)
    BY <1>2, DbFields
  <2>2. group_policies' \subseteq Groups \X Policies
    BY <1>1, <2>1 DEF Publish, IsTable
  <2> QED  BY <1>1, <1>2, <2>1, <2>2 DEF Publish, BootIInv, TablesOk, TypeOK
<1> QED  BY <1>4, <1>6, <1>7 DEF TablesOk

\* A run that commits, and ends, whether its answer arrives or not.
LEMMA PublishStep ==
    ASSUME BootIInv, NEW r \in Replicas, Publish(r), NEW new \in Runs,
           SetRun(r, new), api' = api, Watch, new.own = NoRows, new.pos = 1,
           new.phase \in {"ready", "failed"}
    PROVE  BootIInv'
<1>1. PICK db, other : db = Committed /\ other = run[r].own
  OBVIOUS
<1>2. /\ Committed' = Merge(db, other) /\ IsDb(Merge(db, other))
      /\ next_user_id' = next_user_id
  BY <1>1, Published DEF Visible
<1>3. TablesOk'
  BY PublishTables
<1>4. /\ run' \in [Replicas -> Runs] /\ run'[r] = new
      /\ \A q \in Replicas \ {r} : run'[q] = run[q]
  BY SetRunFacts DEF BootIInv
<1>5. /\ IsDb(db) /\ IsDb(other)
      /\ \A q \in Replicas : IsDb(run[q].own)
      /\ Separate(other, db) /\ Consistent(Merge(db, other))
      /\ IdsUpTo(Merge(db, other), next_user_id)
  BY <1>1, InvFacts DEF BootIInv, OwnOk, OwnFits
<1>6. Grows(db, Merge(db, other))
  BY <1>5, MergeGrows
<1>7. RunOk(r)' /\ OwnOk(r)' /\ ProgressOk(r)'
  <2>1. RunOk(r)' /\ ProgressOk(r)'
    BY <1>4 DEF RunOk, ProgressOk, Open
  <2>2. OwnFits(NoRows, Committed', next_user_id')
    BY <1>2, <1>5, NoRowsFit
  <2> QED  BY <1>4, <2>1, <2>2, NoRowsSeparate DEF OwnOk
<1>8. ASSUME NEW q \in Replicas \ {r}
      PROVE  RunOk(q)' /\ OwnOk(q)' /\ ProgressOk(q)'
  <2>1. run'[q] = run[q]
    BY <1>4
  <2>2. RunOk(q)'
    BY <2>1 DEF BootIInv, RunOk, Open
  <2>3. PICK own : own = run[q].own /\ own = run'[q].own
    BY <2>1
  <2>4. /\ Separate(own, db) /\ Separate(own, other) /\ Consistent(Merge(db, own))
        /\ IsDb(own) /\ IdsUpTo(own, next_user_id)
    BY <1>1, <1>5, <2>3, OwnIds DEF BootIInv, OwnOk, OwnFits
  <2>5. /\ Separate(own, Merge(db, other))
        /\ Consistent(Merge(Merge(db, other), own))
    BY <1>5, <2>4, CommitElsewhere
  <2>6. IdsUpTo(Merge(Merge(db, other), own), next_user_id)
    BY <1>5, <2>4, MergeIds
  <2>7. \A p \in Replicas \ {q} : Separate(own, run'[p].own)
    BY <1>4, <2>3, NoRowsSeparate DEF BootIInv, OwnOk
  <2>8. OwnOk(q)'
    BY <1>2, <2>3, <2>5, <2>6, <2>7 DEF OwnOk, OwnFits
  <2>9. ProgressOk(q)'
    <3> SUFFICES ASSUME Open(q)', NEW i \in 1 .. run[q].pos - 1
                 PROVE  DoneWith(q, run[q].plan[i])'
      BY <2>1 DEF ProgressOk
    <3>1. Open(q)
      BY <2>1 DEF Open
    <3>2. Visible(q) = Merge(db, own) /\ Visible(q)' = Merge(Merge(db, other), own)
      BY <1>1, <1>2, <2>3 DEF Visible
    <3>3. Grows(Visible(q), Visible(q)')
      BY <1>6, <3>2, MergeOfGrown
    <3>4. PICK e \in Entries : e = run[q].plan[i] /\ e = run'[q].plan[i]
      BY <2>1, <3>1, PlanEntries
    <3>5. DoneWith(q, e)
      BY <3>1, <3>4 DEF BootIInv, ProgressOk
    <3>6. DoneWith(q, e)'
      BY <3>3, <3>5, StillDone
    <3> QED  BY <3>4, <3>6 DEF DoneWith
  <2> QED  BY <2>2, <2>8, <2>9
<1> QED  BY <1>3, <1>4, <1>7, <1>8, WatchFacts DEF BootIInv

\* A commit whose answer arrives, and one whose answer is lost.
LEMMA CommitStep ==
    ASSUME BootIInv, NEW r \in Replicas, Commit(r) \/ CommitLost(r), Watch
    PROVE  BootIInv'
<1>1. run[r] \in Runs /\ NoRows \in Dbs
  BY InvFacts, NoRowsDb, DbsAreDbs
<1>2. CASE Commit(r)
  <2> DEFINE new == [run[r] EXCEPT !.phase = "ready", !.own = NoRows, !.pos = 1]
  <2>1. new \in Runs /\ new.phase = "ready" /\ new.own = NoRows /\ new.pos = 1
    BY <1>1 DEF Runs, Phases
  <2>2. SetRun(r, new) /\ Publish(r) /\ api' = api
    BY <1>2 DEF Commit
  <2> HIDE DEF new
  <2> QED  BY <2>1, <2>2, PublishStep
<1>3. CASE CommitLost(r)
  <2> DEFINE new == [run[r] EXCEPT !.phase = "failed", !.error = "backend",
                                   !.own = NoRows, !.pos = 1]
  <2>1. new \in Runs /\ new.phase = "failed" /\ new.own = NoRows /\ new.pos = 1
    BY <1>1 DEF Runs, Phases, Errors
  <2>2. SetRun(r, new) /\ Publish(r) /\ api' = api
    BY <1>3 DEF CommitLost, Fail
  <2> HIDE DEF new
  <2> QED  BY <2>1, <2>2, PublishStep
<1> QED  BY <1>2, <1>3

\* A failed statement, a deadlock and a restart.
LEMMA AbortStep ==
    ASSUME BootIInv, NEW r \in Replicas,
           BackendError(r) \/ DeadlockVictim(r) \/ Restart(r), Watch
    PROVE  BootIInv'
<1>1. TablesUnchanged /\ api' = api /\ next_user_id' = next_user_id
  BY DEF BackendError, DeadlockVictim, Restart, vars, TablesUnchanged
<1>2. next_user_id' \in next_user_id .. MaxUserId
  BY <1>1, InvFacts, MaxUserIdAssumption DEF BootIInv, TablesOk, TypeOK
<1>3. CASE BackendError(r) \/ DeadlockVictim(r)
  <2>1. \E error \in Errors : Fail(r, error)
    BY <1>3 DEF BackendError, DeadlockVictim, Errors
  <2> QED  BY <1>1, <1>2, <2>1, FailStep
<1>4. CASE Restart(r)
  <2> DEFINE new == NotStarted(run[r].file)
  <2>1. /\ new \in Runs /\ new.phase = "start" /\ new.own = NoRows
        /\ new.pos = 1 /\ new.error = "none"
    <3>1. run[r] \in Runs /\ NoRows \in Dbs /\ <<>> \in Seq(Entries)
      BY InvFacts, NoRowsDb, DbsAreDbs
    <3> QED  BY <3>1 DEF NotStarted, Runs, Phases, Errors
  <2>2. SetRun(r, new)
    BY <1>4 DEF Restart
  <2> HIDE DEF new
  <2> QED  BY <1>1, <1>2, <2>1, <2>2, ClosedStep
<1> QED  BY <1>3, <1>4

\* What a request does to the committed database.
LEMMA RequestFacts ==
    ASSUME BootIInv, ApiRequest
    PROVE  /\ TablesOk'
           /\ IsDb(Committed)' /\ next_user_id' \in Int
           /\ next_user_id <= next_user_id'
           /\ \A n \in DOMAIN Committed'.user \cap DOMAIN Committed.user :
                 /\ Committed'.user[n].user_id = Committed.user[n].user_id
                 /\ Committed'.user[n].email = Committed.user[n].email
                 /\ Committed'.user[n].external_id = Committed.user[n].external_id
           /\ \A n \in DOMAIN Committed'.user \ DOMAIN Committed.user :
                 Committed'.user[n].user_id = next_user_id + 1
           /\ \A k \in DOMAIN Committed.credential \cap DOMAIN Committed'.credential :
                 Committed'.credential[k] = Committed.credential[k]
<1>1. TypeOK /\ Links /\ Next
  BY StoreTables DEF BootIInv, ApiRequest, StoreInv, Links
<1>2. TypeOK' /\ Links'
  BY <1>1, TypeStep, LinksStep
<1>3. TablesOk'
  BY <1>2, StoreTablesNext DEF StoreInv, Links
<1>4. IsDb(Committed)'
  BY <1>2, CommittedDb, PTL
<1>5. /\ Committed.user = users /\ Committed'.user = users'
      /\ Committed.credential = credentials /\ Committed'.credential = credentials'
  BY DEF Committed
<1> QED  BY <1>1, <1>3, <1>4, <1>5, StoreCallFacts

\* What a run has inserted still fits after a request that waited for it.
LEMMA RequestFits ==
    ASSUME BootIInv, ApiRequest, NEW q \in Replicas
    PROVE  OwnFits(run[q].own, Committed', next_user_id')
<1>1. PICK db, new, own, id, later :
        /\ db = Committed /\ new = Committed' /\ own = run[q].own
        /\ id = next_user_id /\ later = next_user_id'
  OBVIOUS
<1>2. /\ IsDb(db) /\ IsDb(own) /\ id \in Int
      /\ Separate(own, db) /\ Consistent(Merge(db, own))
      /\ IdsUpTo(Merge(db, own), id)
  BY <1>1, InvFacts DEF BootIInv, OwnOk, OwnFits
<1>3. /\ Consistent(new) /\ IdsUpTo(new, later) /\ later \in Int /\ id <= later
  BY <1>1, RequestFacts DEF TablesOk
<1>4. \A n \in DOMAIN new.user \cap DOMAIN db.user :
              /\ new.user[n].user_id = db.user[n].user_id
              /\ new.user[n].email = db.user[n].email
              /\ new.user[n].external_id = db.user[n].external_id
  BY <1>1, RequestFacts
<1>5. \A kind \in Kinds :
        DOMAIN new[kind] \cap DOMAIN own[kind] \subseteq DOMAIN db[kind]
  BY <1>1 DEF ApiRequest, Unobstructed
<1>6. \A n \in DOMAIN new.user \ DOMAIN db.user :
              /\ new.user[n].user_id = id + 1
              /\ \A m \in DOMAIN own.user : ~SharesUnique(new.user[n], own.user[m])
  <2>1. new.user = users' /\ db.user = users
    BY <1>1 DEF Committed
  <2>2. \A n \in DOMAIN new.user \ DOMAIN db.user : new.user[n].user_id = id + 1
    BY <1>1, RequestFacts
  <2> QED  BY <1>1, <2>1, <2>2 DEF ApiRequest, Unobstructed
<1>7. \A kind \in Kinds : \A k \in DOMAIN own[kind] :
              \A ref \in References(Entry(kind, k, own[kind][k])) :
                 Has(db, ref) => Has(new, ref)
  <2>1. \A ref \in LockedBy(q) : Has(db, ref) => Has(new, ref)
    BY <1>1 DEF ApiRequest, Unobstructed, Has
  <2> QED  BY <1>1, <2>1 DEF LockedBy
<1>8. Separate(own, new) /\ Consistent(Merge(new, own))
  BY <1>2, <1>3, <1>4, <1>5, <1>6, <1>7, ApiConsistent
<1>9. IdsUpTo(Merge(new, own), later)
  <2>1. IdsUpTo(own, id)
    BY <1>2, OwnIds
  <2>2. IdsUpTo(own, later)
    BY <1>2, <1>3, <2>1, DbFields DEF IdsUpTo, IsTable, UserRecord, UserIds
  <2> QED  BY <1>3, <2>2, MergeIds
<1> QED  BY <1>1, <1>8, <1>9 DEF OwnFits

\* What a run is done with, a request leaves done or deletes.
LEMMA RequestDone ==
    ASSUME BootIInv, ApiRequest, Watch, NEW q \in Replicas, NEW e \in Entries,
           Open(q), DoneWith(q, e)
    PROVE  DoneWith(q, e)'
<1>1. PICK db, new, own : db = Committed /\ new = Committed' /\ own = run[q].own
  OBVIOUS
<1>2. run' = run /\ Open(q)'
  BY DEF ApiRequest, Open
<1>3. deleted'[q] = deleted[q] \cup Gone
  BY <1>2, WatchFacts
<1>4. Visible(q) = Merge(db, own) /\ Visible(q)' = Merge(new, own)
  BY <1>1, <1>2 DEF Visible
<1>5. CASE Ref(e.kind, e.key) \in deleted[q]
  BY <1>3, <1>5 DEF DoneWith
<1>6. CASE Has(Merge(db, own), e) /\ Accepts(e, Merge(db, own)[e.kind][e.key])
  <2>0. PICK kind, key : kind = e.kind /\ key = e.key /\ kind \in Kinds
    BY EntryFields
  <2>1. /\ DOMAIN Merge(db, own)[kind] = DOMAIN db[kind] \cup DOMAIN own[kind]
        /\ key \in DOMAIN own[kind] => Merge(db, own)[kind][key] = own[kind][key]
        /\ key \in DOMAIN db[kind] \ DOMAIN own[kind] =>
              Merge(db, own)[kind][key] = db[kind][key]
    BY <2>0, MergeFields
  <2>2. /\ DOMAIN Merge(new, own)[kind] = DOMAIN new[kind] \cup DOMAIN own[kind]
        /\ key \in DOMAIN own[kind] => Merge(new, own)[kind][key] = own[kind][key]
        /\ key \in DOMAIN new[kind] \ DOMAIN own[kind] =>
              Merge(new, own)[kind][key] = new[kind][key]
    BY <2>0, MergeFields
  <2>3. CASE key \in DOMAIN own[kind]
    <3>1. Has(Merge(new, own), e) /\ Accepts(e, Merge(new, own)[e.kind][e.key])
      BY <1>6, <2>0, <2>1, <2>2, <2>3 DEF Has
    <3> QED  BY <1>4, <3>1 DEF DoneWith
  <2>4. CASE key \in DOMAIN db[kind] \ DOMAIN own[kind] /\ key \in DOMAIN new[kind]
    <3>1. Accepts(e, db[kind][key])
      BY <1>6, <2>0, <2>1, <2>4
    <3>2. /\ kind = "user" => new[kind][key].external_id = db[kind][key].external_id
          /\ kind = "credential" => new[kind][key] = db[kind][key]
      BY <1>1, <2>4, RequestFacts
    <3>3. Accepts(e, new[kind][key])
      BY <2>0, <3>1, <3>2 DEF Accepts
    <3>4. Has(Merge(new, own), e) /\ Accepts(e, Merge(new, own)[e.kind][e.key])
      BY <2>0, <2>2, <2>4, <3>3 DEF Has
    <3> QED  BY <1>4, <3>4 DEF DoneWith
  <2>5. CASE key \in DOMAIN db[kind] \ DOMAIN new[kind]
    <3>1. Ref(kind, key) \in Gone
      BY <1>1, <2>0, <2>5 DEF Gone
    <3> QED  BY <1>3, <2>0, <3>1 DEF DoneWith
  <2> QED  BY <1>6, <2>0, <2>1, <2>3, <2>4, <2>5 DEF Has
<1> QED  BY <1>4, <1>5, <1>6 DEF DoneWith

\* A request of the API.
LEMMA ApiStep ==
    ASSUME BootIInv, ApiRequest, Watch
    PROVE  BootIInv'
<1>1. TablesOk'
  BY RequestFacts
<1>2. run' = run /\ api' \in Nat /\ run' \in [Replicas -> Runs]
  BY DEF ApiRequest, BootIInv
<1>3. ASSUME NEW q \in Replicas
      PROVE  RunOk(q)' /\ OwnOk(q)' /\ ProgressOk(q)'
  <2>1. RunOk(q)'
    BY <1>2 DEF BootIInv, RunOk, Open
  <2>2. OwnOk(q)'
    BY <1>2, RequestFits DEF BootIInv, OwnOk
  <2>3. ProgressOk(q)'
    <3> SUFFICES ASSUME Open(q)', NEW i \in 1 .. run[q].pos - 1
                 PROVE  DoneWith(q, run[q].plan[i])'
      BY <1>2 DEF ProgressOk
    <3>1. Open(q)
      BY <1>2 DEF Open
    <3>2. PICK e \in Entries : e = run[q].plan[i] /\ e = run'[q].plan[i]
      BY <1>2, <3>1, PlanEntries
    <3>3. DoneWith(q, e)
      BY <3>1, <3>2 DEF BootIInv, ProgressOk
    <3>4. DoneWith(q, e)'
      BY <3>1, <3>3, RequestDone
    <3> QED  BY <3>2, <3>4 DEF DoneWith
  <2> QED  BY <2>1, <2>2, <2>3
<1> QED  BY <1>1, <1>2, <1>3, WatchFacts DEF BootIInv

\* The first state: empty tables, and every replica before its file.
LEMMA BootStart == BootInit => BootIInv
<1> SUFFICES ASSUME BootInit PROVE BootIInv
  OBVIOUS
<1>1. TablesOk
  <2>1. TypeOK /\ Links
    BY InitTypeOK
       DEF BootInit, Init, Links, ReferentialIntegrity, NoInheritedGrants,
           UniqueIdentities, EmptyTable
  <2> QED  BY <2>1, StoreTables DEF StoreInv, Links
<1>2. PICK files \in Deployments : run = [r \in Replicas |-> NotStarted(files[r])]
  BY DEF BootInit
<1>3. \A r \in Replicas : NotStarted(files[r]) \in Runs
  <2>1. NoRows \in Dbs /\ <<>> \in Seq(Entries)
    BY NoRowsDb, DbsAreDbs
  <2> QED  BY <2>1 DEF NotStarted, Runs, Phases, Errors, Files
<1>4. ASSUME NEW r \in Replicas
      PROVE  RunOk(r) /\ OwnOk(r) /\ ProgressOk(r)
  <2>1. /\ run[r].phase = "start" /\ run[r].pos = 1 /\ run[r].error = "none"
        /\ \A q \in Replicas : run[q].own = NoRows
    BY <1>2 DEF NotStarted
  <2>2. RunOk(r) /\ ProgressOk(r)
    BY <2>1 DEF RunOk, ProgressOk, Open
  <2>3. OwnFits(NoRows, Committed, next_user_id)
    BY <1>1, CommittedDb, NoRowsFit DEF TablesOk
  <2> QED  BY <2>1, <2>2, <2>3, NoRowsSeparate DEF OwnOk
<1>5. api \in Nat /\ DOMAIN deleted = Replicas
  BY DEF BootInit
<1> QED  BY <1>1, <1>2, <1>3, <1>4, <1>5 DEF BootIInv

\* Nothing changes.
LEMMA BootStutter ==
    ASSUME BootIInv, UNCHANGED bootVars
    PROVE  BootIInv'
<1>1. Committed' = Committed /\ run' = run /\ deleted' = deleted
  BY DEF bootVars, Committed
<1>2. TablesOk'
  BY <1>1 DEF BootIInv, TablesOk, TypeOK, PrincipalsOk, bootVars
<1>3. \A r \in Replicas : RunOk(r)' /\ OwnOk(r)' /\ ProgressOk(r)'
  BY <1>1 DEF BootIInv, bootVars, RunOk, OwnOk, ProgressOk, DoneWith, Visible, Open
<1> QED  BY <1>1, <1>2, <1>3 DEF BootIInv, bootVars

\* Every step keeps the invariant.
LEMMA BootStep == BootIInv /\ [BootNext]_bootVars => BootIInv'
<1> SUFFICES ASSUME BootIInv, [BootNext]_bootVars PROVE BootIInv'
  OBVIOUS
<1>1. ASSUME NEW r \in Replicas, ReplicaStep(r), Watch
      PROVE  BootIInv'
  BY <1>1, LoadStep, InsertStep, ReadStep, CommitStep, AbortStep DEF ReplicaStep
<1>2. ASSUME NEW r \in Replicas, Disturbance(r), Watch
      PROVE  BootIInv'
  BY <1>2, CommitStep, AbortStep DEF Disturbance
<1> QED  BY <1>1, <1>2, ApiStep, BootStutter DEF BootNext

\* The inductive invariant holds.
LEMMA BootInvariant == BootSpec => []BootIInv
BY BootStart, BootStep, PTL DEF BootSpec

\* While the replicas apply their files in any interleaving, with crashes,
\* lost answers and deadlocks, and requests change the same tables, the tables
\* stay as consistent as the API alone leaves them, and a run that has ended
\* holds no row.
THEOREM BootstrapCorrect == BootSpec => []BootInv
<1>1. BootIInv => BootInv
  <2> SUFFICES ASSUME BootIInv PROVE BootInv
    OBVIOUS
  <2>1. StoreInv /\ TypeOK
    BY StoreTables DEF BootIInv, TablesOk
  <2>2. \A r \in Replicas : run[r] \in Runs /\ RunOk(r)
    BY DEF BootIInv
  <2> QED  BY <2>1, <2>2 DEF BootInv, BootTypeOK, RunOk, Runs, Phases
<1> QED  BY <1>1, BootInvariant, PTL

-----------------------------------------------------------------------------
(* Action properties. *)

\* Only a request or a commit changes a table.
LEMMA TableChanges ==
    ASSUME BootNext
    PROVE  \/ ApiRequest
           \/ \E r \in Replicas : Publish(r) /\ (Commit(r) \/ CommitLost(r))
           \/ Committed' = Committed
BY DEF BootNext, ReplicaStep, Disturbance, LoadPlan, InsertIfMissing, ReadBack,
       Commit, CommitLost, DeadlockVictim, BackendError, Restart, vars,
       TablesUnchanged, Committed

\* A commit adds rows and leaves the others as they were.
LEMMA CommitAdds ==
    ASSUME BootIInv, NEW r \in Replicas, Publish(r)
    PROVE  Grows(Committed, Committed')
<1>1. Separate(run[r].own, Committed)
  BY DEF BootIInv, OwnOk, OwnFits
<1> QED  BY <1>1, Published, MergeGrows DEF Visible

\* No step of any bootstrap changes or removes a committed row.
THEOREM OnlyAdds == BootSpec => BootstrapOnlyAdds
<1>1. BootIInv /\ [BootNext]_bootVars =>
        [UNCHANGED api =>
          \A kind \in Kinds : \A k \in DOMAIN Committed[kind] :
             k \in DOMAIN Committed'[kind]
             /\ Committed'[kind][k] = Committed[kind][k]]_bootVars
  <2> SUFFICES ASSUME BootIInv, BootNext, UNCHANGED api
               PROVE  Grows(Committed, Committed')
    BY DEF Grows
  <2>1. ~ApiRequest
    BY DEF ApiRequest, BootIInv
  <2> QED  BY <2>1, TableChanges, CommitAdds, GrowsReflexive
<1> QED  BY <1>1, BootInvariant, PTL DEF BootSpec, BootstrapOnlyAdds

\* At its commit a run is done with every entry of its plan.
LEMMA AllDone ==
    ASSUME BootIInv, NEW r \in Replicas, run[r].phase = "commit",
           NEW e \in Elements(run[r].plan)
    PROVE  e \in Entries /\ DoneWith(r, e)
<1>1. run[r].plan \in Seq(Entries) /\ run[r].pos = Len(run[r].plan) + 1
  BY PlanEntries DEF BootIInv, RunOk
<1>2. PICK i \in 1 .. Len(run[r].plan) : e = run[r].plan[i]
  BY <1>1 DEF Elements
<1>3. Open(r) /\ i \in 1 .. run[r].pos - 1
  BY <1>1, <1>2 DEF Open
<1> QED  BY <1>1, <1>2, <1>3 DEF BootIInv, ProgressOk

\* Only the replica itself changes the state of its run.
LEMMA OwnStep ==
    ASSUME BootIInv, BootNext, NEW r \in Replicas, run'[r] # run[r]
    PROVE  ReplicaStep(r) \/ Disturbance(r)
<1>1. run \in [Replicas -> Runs]
  BY DEF BootIInv
<1>2. ASSUME NEW q \in Replicas, q # r, NEW new, SetRun(q, new)
      PROVE  FALSE
  BY <1>1, <1>2 DEF SetRun
<1>3. ASSUME NEW q \in Replicas, ReplicaStep(q) \/ Disturbance(q), q # r
      PROVE  FALSE
  <2>1. \E new : SetRun(q, new)
    BY <1>3
       DEF ReplicaStep, Disturbance, LoadPlan, InsertIfMissing, ReadBack, Commit,
           CommitLost, DeadlockVictim, BackendError, Restart, Fail, Advance
  <2> QED  BY <1>2, <1>3, <2>1
<1>4. ~ApiRequest
  BY DEF ApiRequest
<1> QED  BY <1>3, <1>4 DEF BootNext

\* An open run that becomes ready has committed.
LEMMA ReadyByCommit ==
    ASSUME BootIInv, BootNext, NEW r \in Replicas, Open(r), run'[r].phase = "ready"
    PROVE  run[r].phase = "commit" /\ Publish(r)
<1>1. run \in [Replicas -> Runs] /\ \A q \in Replicas : run[q] \in Runs
  BY DEF BootIInv
<1>2. run'[r] # run[r]
  BY DEF Open
<1>3. ReplicaStep(r) \/ Disturbance(r)
  BY <1>2, OwnStep
<1>4. ASSUME NEW new, SetRun(r, new)
      PROVE  run'[r] = new
  BY <1>1, <1>4 DEF SetRun
<1>5. ASSUME NEW error, Fail(r, error)
      PROVE  FALSE
  <2>1. PICK new : new.phase = "failed" /\ SetRun(r, new)
    BY <1>1, <1>5 DEF Fail, Runs
  <2> QED  BY <1>4, <2>1
<1>6. ASSUME NEW own, Advance(r, own)
      PROVE  FALSE
  <2>1. PICK phase \in {"insert", "commit"} :
          phase = IF run[r].pos < Len(run[r].plan) THEN "insert" ELSE "commit"
    OBVIOUS
  <2>2. SetRun(r, [run[r] EXCEPT !.own = own, !.pos = @ + 1, !.phase = phase])
    BY <1>6, <2>1 DEF Advance
  <2>3. [run[r] EXCEPT !.own = own, !.pos = @ + 1, !.phase = phase].phase = phase
    BY <1>1 DEF Runs
  <2> QED  BY <1>4, <2>1, <2>2, <2>3
<1>7. ~LoadPlan(r) /\ ~Restart(r)
  BY DEF LoadPlan, Restart, Open
<1>8. ~CommitLost(r) /\ ~BackendError(r) /\ ~DeadlockVictim(r)
  BY <1>5 DEF CommitLost, BackendError, DeadlockVictim
<1>9. ~SetRun(r, [run[r] EXCEPT !.phase = "read"])
  <2> SUFFICES ASSUME SetRun(r, [run[r] EXCEPT !.phase = "read"]) PROVE FALSE
    OBVIOUS
  <2>1. PICK new : new.phase = "read" /\ SetRun(r, new)
    BY <1>1 DEF Runs
  <2> QED  BY <1>4, <2>1
<1>10. ~InsertIfMissing(r) /\ ~ReadBack(r)
  BY <1>5, <1>6, <1>9 DEF InsertIfMissing, ReadBack
<1>11. Commit(r)
  BY <1>3, <1>7, <1>8, <1>10 DEF ReplicaStep, Disturbance
<1> QED  BY <1>11 DEF Commit

\* A replica whose bootstrap reports success has every entry of its file in the
\* tables, but for those that a request deleted meanwhile.
THEOREM EveryEntryApplied == BootSpec => PlanApplied
<1>1. BootIInv /\ [BootNext]_bootVars =>
        [\A r \in Replicas :
          Open(r) /\ run'[r].phase = "ready" =>
             \A e \in Elements(run[r].plan) :
                Has(Committed', e) \/ Ref(e.kind, e.key) \in deleted[r]]_bootVars
  <2> SUFFICES ASSUME BootIInv, BootNext, NEW r \in Replicas, Open(r),
                      run'[r].phase = "ready", NEW e \in Elements(run[r].plan)
               PROVE  Has(Committed', e) \/ Ref(e.kind, e.key) \in deleted[r]
    OBVIOUS
  <2>1. run[r].phase = "commit" /\ Publish(r)
    BY ReadyByCommit
  <2>2. Committed' = Visible(r) /\ DoneWith(r, e)
    BY <2>1, Published, AllDone
  <2> QED  BY <2>2 DEF DoneWith
<1> QED  BY <1>1, BootInvariant, PTL DEF BootSpec, PlanApplied

\* The memberships, attachments and credentials that a commit makes visible go
\* to users with the identities that the file describes, unless a request has
\* deleted the user in between.
THEOREM GrantsAsDescribed == BootSpec => GrantsToDescribedUser
<1>1. BootIInv /\ [BootNext]_bootVars =>
        [\A r \in Replicas : Publishes(r) =>
          \A n \in GrantedTo(r) :
             Described(r, n, users'[n]) \/ Ref("user", n) \in deleted[r]]_bootVars
  <2> SUFFICES ASSUME BootIInv, NEW r \in Replicas, Publishes(r),
                      NEW n \in GrantedTo(r), Ref("user", n) \notin deleted[r],
                      NEW e \in Elements(run[r].plan), e.kind = "user", e.key = n
               PROVE  users'[n].external_id = e.row.external_id
    BY DEF Described
  <2>1. Accepts(e, Visible(r)[e.kind][e.key])
    BY AllDone DEF Publishes, DoneWith
  <2>2. users' = Visible(r).user
    BY DEF Publishes, Committed
  <2> QED  BY <2>1, <2>2 DEF Accepts
<1> QED  BY <1>1, BootInvariant, PTL DEF BootSpec, GrantsToDescribedUser

-----------------------------------------------------------------------------
(* The staged run of MemStore and the transaction of PostgreSQL. *)

\* What StageEntry works on, whatever the outcome of the entries before.
IsStage(s) ==
    /\ s = [ok |-> s.ok, db |-> s.db, next_user_id |-> s.next_user_id]
    /\ s.ok \in BOOLEAN
    /\ s.db = [kind \in Kinds |-> s.db[kind]]

\* The two databases hold the same rows, up to the ids that were handed out.
SameContent(a, b) ==
    /\ \A kind \in Kinds : DOMAIN a[kind] = DOMAIN b[kind]
    /\ \A n \in DOMAIN b.user :
          /\ a.user[n].email = b.user[n].email
          /\ a.user[n].external_id = b.user[n].external_id
    /\ \A k \in DOMAIN b.credential :
          a.credential[k].username = b.credential[k].username

Matches(s, v) == IsStage(s) /\ s.ok /\ SameContent(s.db, v)

\* f[i] is the clone after the first i entries, as ApplyStaged computes it, for
\* the first n entries and for all of them.
IsStagingTo(f, db, plan, id, n) ==
    f = [i \in 0 .. n |->
           IF i = 0 THEN [ok |-> TRUE, db |-> db, next_user_id |-> id]
           ELSE StageEntry(f[i - 1], plan[i])]

IsStaging(f, db, plan, id) == IsStagingTo(f, db, plan, id, Len(plan))

\* As long as nobody disturbs r, it sees what the staged run has after the
\* entries that r is done with.
StagedOk(r) ==
    Open(r) /\ alone[r] =>
        /\ \A f, id : IsStaging(f, Committed, run[r].plan, id) =>
                         Matches(f[run[r].pos - 1], Visible(r))
        /\ run[r].phase = "read" => Has(Visible(r), Current(r))

\* The outcome of an insert depends on the content alone.
LEMMA SameOutcome ==
    ASSUME NEW a, NEW b, NEW e \in Entries, SameContent(a, b)
    PROVE  Outcome(a, e) = Outcome(b, e)
<1>1. \A kind \in Kinds : DOMAIN a[kind] = DOMAIN b[kind]
  BY DEF SameContent
<1>2. Has(a, e) <=> Has(b, e)
  BY <1>1, EntryFields DEF Has
<1>3. SharesWith(a, e) <=> SharesWith(b, e)
  <2>1. DOMAIN a.user = DOMAIN b.user
    BY <1>1 DEF Kinds
  <2> QED  BY <2>1 DEF SharesWith, SharesUnique, SameContent
<1>4. \A ref \in References(e) : ref.kind \in Kinds
  BY EntryFields DEF References, Ref, Kinds
<1>5. \A ref \in References(e) : Has(a, ref) <=> Has(b, ref)
  BY <1>1, <1>4 DEF Has
<1> QED  BY <1>2, <1>3, <1>5 DEF Outcome

\* An insert that both stores make leaves them with the same content.
LEMMA StageCreates ==
    ASSUME NEW s, NEW v, NEW e \in Entries, NEW new, NEW id, Matches(s, v),
           Outcome(v, e) = "created",
           Added(v, new, e.kind, e.key, Row(v, e, id))
    PROVE  Matches(StageEntry(s, e), new)
<1>1. Outcome(s.db, e) = "created" /\ ~Has(s.db, e)
  BY SameOutcome, OutcomeMeans DEF Matches
<1>2. PICK row, kind, key, mem :
        /\ row = Row(s.db, e, s.next_user_id + 1) /\ kind = e.kind /\ key = e.key
        /\ mem = s.next_user_id + 1
  OBVIOUS
<1>3. kind \in Kinds
  BY <1>2, EntryFields
<1>4. PICK next : StageEntry(s, e) =
                    [s EXCEPT !.db[kind] = Put(@, key, row), !.next_user_id = next]
  BY <1>1, <1>2 DEF StageEntry, Matches
<1>5. PICK db : db = [s.db EXCEPT ![kind] = Put(@, key, row)]
  OBVIOUS
<1>6. StageEntry(s, e) = [ok |-> s.ok, db |-> db, next_user_id |-> next]
  BY <1>4, <1>5 DEF Matches, IsStage
<1>7. /\ db = [j \in Kinds |-> db[j]]
      /\ db[kind] = Put(s.db[kind], key, row)
      /\ \A j \in Kinds \ {kind} : db[j] = s.db[j]
  BY <1>3, <1>5 DEF Matches, IsStage
<1>8. /\ DOMAIN db[kind] = DOMAIN s.db[kind] \cup {key}
      /\ db[kind][key] = row
      /\ \A k \in DOMAIN s.db[kind] : db[kind][k] = s.db[kind][k]
  BY <1>1, <1>2, <1>7 DEF Put, Has
<1>9. /\ \A j \in Kinds \ {kind} : new[j] = v[j]
      /\ DOMAIN new[kind] = DOMAIN v[kind] \cup {key}
      /\ new[kind][key] = Row(v, e, id)
      /\ \A k \in DOMAIN v[kind] : new[kind][k] = v[kind][k]
  BY <1>2 DEF Added
<1>10. \A j \in Kinds : DOMAIN s.db[j] = DOMAIN v[j]
  BY DEF Matches, SameContent
<1>11. \A j \in Kinds : DOMAIN db[j] = DOMAIN new[j]
  BY <1>7, <1>8, <1>9, <1>10
<1>12. \A n \in DOMAIN new.user :
          db.user[n].email = new.user[n].email
          /\ db.user[n].external_id = new.user[n].external_id
  <2>1. \A n \in DOMAIN v.user :
          s.db.user[n].email = v.user[n].email
          /\ s.db.user[n].external_id = v.user[n].external_id
    BY DEF Matches, SameContent
  <2>2. CASE kind = "user"
    <3>1. /\ row.email = Row(v, e, id).email
          /\ row.external_id = Row(v, e, id).external_id
      BY <1>2, <2>2 DEF Row
    <3> QED  BY <1>3, <1>8, <1>9, <1>10, <2>1, <2>2, <3>1
  <2>3. CASE kind # "user"
    <3>1. db.user = s.db.user /\ new.user = v.user
      BY <1>7, <1>9, <2>3 DEF Kinds
    <3> QED  BY <2>1, <3>1
  <2> QED  BY <2>2, <2>3
<1>13. \A k \in DOMAIN new.credential :
          db.credential[k].username = new.credential[k].username
  <2>1. \A k \in DOMAIN v.credential :
          s.db.credential[k].username = v.credential[k].username
    BY DEF Matches, SameContent
  <2>2. CASE kind = "credential"
    <3>1. row.username = Row(v, e, id).username
      BY <1>2, <2>2 DEF Row
    <3> QED  BY <1>3, <1>8, <1>9, <1>10, <2>1, <2>2, <3>1
  <2>3. CASE kind # "credential"
    <3>1. db.credential = s.db.credential /\ new.credential = v.credential
      BY <1>7, <1>9, <2>3 DEF Kinds
    <3> QED  BY <2>1, <3>1
  <2> QED  BY <2>2, <2>3
<1>14. SameContent(db, new)
  BY <1>11, <1>12, <1>13 DEF SameContent
<1> QED  BY <1>6, <1>7, <1>14 DEF Matches, IsStage

\* A row that is there already: both stores take it or both refuse it.
LEMMA StagePresent ==
    ASSUME NEW s, NEW v, NEW e \in Entries, Matches(s, v), Has(v, e)
    PROVE  /\ Accepts(e, v[e.kind][e.key]) => Matches(StageEntry(s, e), v)
           /\ ~Accepts(e, v[e.kind][e.key]) => ~StageEntry(s, e).ok
<1>1. Outcome(s.db, e) = "present"
  BY SameOutcome, OutcomeMeans DEF Matches
<1>2. StageEntry(s, e) = [s EXCEPT !.ok = Accepts(e, s.db[e.kind][e.key])]
  BY <1>1 DEF StageEntry, Matches
<1>3. Accepts(e, s.db[e.kind][e.key]) <=> Accepts(e, v[e.kind][e.key])
  BY DEF Matches, SameContent, Accepts, Has
<1>4. Accepts(e, s.db[e.kind][e.key]) \in BOOLEAN
  BY DEF Accepts
<1>5. PICK ok \in BOOLEAN : ok = Accepts(e, s.db[e.kind][e.key])
  BY <1>4
<1>6. StageEntry(s, e) = [ok |-> ok, db |-> s.db, next_user_id |-> s.next_user_id]
  BY <1>2, <1>5 DEF Matches, IsStage
<1> QED  BY <1>3, <1>5, <1>6 DEF Matches, IsStage

\* An insert that PostgreSQL refuses fails in the staged run.
LEMMA StageRefuses ==
    ASSUME NEW s, NEW v, NEW e \in Entries, Matches(s, v),
           Outcome(v, e) \notin {"created", "present"}
    PROVE  ~StageEntry(s, e).ok
<1>1. Outcome(s.db, e) \notin {"created", "present"}
  BY SameOutcome DEF Matches
<1>2. StageEntry(s, e) = [s EXCEPT !.ok = FALSE]
  BY <1>1 DEF StageEntry, Matches
<1> QED  BY <1>2 DEF Matches, IsStage

\* The clone before the first entry, and how to go on by one entry.
LEMMA StagingGrows ==
    ASSUME NEW db, NEW plan, NEW id, NEW n \in Nat
    PROVE  /\ \E f : IsStagingTo(f, db, plan, id, 0)
           /\ (\E g : IsStagingTo(g, db, plan, id, n)) =>
                 \E f : IsStagingTo(f, db, plan, id, n + 1)
<1>0. PICK first : first = [ok |-> TRUE, db |-> db, next_user_id |-> id]
  OBVIOUS
<1>1. \E f : IsStagingTo(f, db, plan, id, 0)
  <2> DEFINE f == [i \in 0 .. 0 |-> first]
  <2>1. f = [i \in 0 .. 0 |-> IF i = 0 THEN first ELSE StageEntry(f[i - 1], plan[i])]
    OBVIOUS
  <2> HIDE DEF f
  <2>2. IsStagingTo(f, db, plan, id, 0)
    BY <1>0, <2>1 DEF IsStagingTo
  <2> QED  BY <2>2
<1>2. ASSUME NEW g, IsStagingTo(g, db, plan, id, n)
      PROVE  \E f : IsStagingTo(f, db, plan, id, n + 1)
  <2>0. PICK last : last = StageEntry(g[n], plan[n + 1])
    OBVIOUS
  <2> DEFINE f == [i \in 0 .. n + 1 |-> IF i = n + 1 THEN last ELSE g[i]]
  <2>1. ASSUME NEW i \in 0 .. n + 1
        PROVE  f[i] = IF i = 0 THEN first ELSE StageEntry(f[i - 1], plan[i])
    <3>1. CASE i = n + 1
      BY <2>0, <3>1
    <3>2. CASE i # n + 1
      <4>1. i \in 0 .. n /\ (i # 0 => i - 1 \in 0 .. n /\ i - 1 # n + 1)
        BY <3>2
      <4>2. g[i] = IF i = 0 THEN first ELSE StageEntry(g[i - 1], plan[i])
        BY <1>0, <1>2, <4>1 DEF IsStagingTo
      <4> QED  BY <4>1, <4>2, <3>2
    <3> QED  BY <3>1, <3>2
  <2>2. f = [i \in 0 .. n + 1 |-> f[i]]
    OBVIOUS
  <2> HIDE DEF f
  <2>3. IsStagingTo(f, db, plan, id, n + 1)
    BY <1>0, <2>1, <2>2 DEF IsStagingTo
  <2> QED  BY <2>3
<1> QED  BY <1>1, <1>2

\* The staged run exists for every plan.
LEMMA StagingExists ==
    ASSUME NEW db, NEW plan, NEW id, NEW n \in Nat
    PROVE  \E f : IsStagingTo(f, db, plan, id, n)
<1> DEFINE Bad == {m \in Nat : ~\E f : IsStagingTo(f, db, plan, id, m)}
<1> SUFFICES ASSUME Bad # {} PROVE FALSE
  OBVIOUS
<1>1. PICK m \in Bad : \A k \in Bad : m <= k
  <2>1. Bad \subseteq Nat
    OBVIOUS
  <2> HIDE DEF Bad
  <2> QED  BY <2>1, SmallestNumber
<1>2. m # 0
  BY StagingGrows
<1>3. m - 1 \in Nat /\ m - 1 \notin Bad
  BY <1>1, <1>2
<1>4. \E f : IsStagingTo(f, db, plan, id, m - 1)
  BY <1>3
<1>5. \E f : IsStagingTo(f, db, plan, id, (m - 1) + 1)
  BY <1>3, <1>4, StagingGrows
<1>6. (m - 1) + 1 = m
  BY <1>1
<1> QED  BY <1>5, <1>6

\* ApplyStaged is the last clone of the staged run.
LEMMA ApplyStagedIs ==
    ASSUME NEW db, NEW plan, Len(plan) \in Nat
    PROVE  \E f : /\ IsStaging(f, db, plan, next_user_id)
                  /\ ApplyStaged(db, plan) = f[Len(plan)]
<1> DEFINE F == CHOOSE f : IsStaging(f, db, plan, next_user_id)
<1>1. \E f : IsStaging(f, db, plan, next_user_id)
  BY StagingExists DEF IsStaging
<1>2. IsStaging(F, db, plan, next_user_id)
  BY <1>1
<1>3. ApplyStaged(db, plan) = F[Len(plan)]
  BY DEF ApplyStaged, IsStaging, IsStagingTo
<1> HIDE DEF F
<1> QED  BY <1>2, <1>3

\* The start of a staged run.
LEMMA StagingStarts ==
    ASSUME NEW f, NEW db, NEW plan, NEW id, IsStaging(f, db, plan, id),
           Len(plan) \in Nat
    PROVE  f[0] = [ok |-> TRUE, db |-> db, next_user_id |-> id]
<1>1. 0 \in 0 .. Len(plan)
  OBVIOUS
<1> QED  BY <1>1 DEF IsStaging, IsStagingTo

\* One entry of a staged run.
LEMMA StagingAt ==
    ASSUME NEW f, NEW db, NEW plan, NEW id, IsStaging(f, db, plan, id),
           Len(plan) \in Nat, NEW i \in 1 .. Len(plan)
    PROVE  f[i] = StageEntry(f[i - 1], plan[i])
<1>1. i \in 0 .. Len(plan) /\ i # 0
  OBVIOUS
<1> QED  BY <1>1 DEF IsStaging, IsStagingTo

\* A staged run that has failed stays failed.
LEMMA StageStops ==
    ASSUME NEW f, NEW db, NEW plan, NEW id, IsStaging(f, db, plan, id),
           Len(plan) \in Nat, NEW i \in 1 .. Len(plan), ~f[i].ok
    PROVE  ~f[Len(plan)].ok
<1> DEFINE Bad == {j \in i .. Len(plan) : f[j].ok}
<1>1. Bad = {}
  <2> SUFFICES ASSUME Bad # {} PROVE FALSE
    OBVIOUS
  <2>1. PICK m \in Bad : \A k \in Bad : m <= k
    <3>1. Bad \subseteq Nat
      OBVIOUS
    <3> HIDE DEF Bad
    <3> QED  BY <3>1, SmallestNumber
  <2>2. m # i /\ m \in 1 .. Len(plan) /\ m - 1 \in i .. Len(plan)
    BY <2>1
  <2>3. ~f[m - 1].ok
    BY <2>1, <2>2
  <2>4. f[m] = f[m - 1]
    BY <2>2, <2>3, StagingAt DEF StageEntry
  <2> QED  BY <2>1, <2>3, <2>4
<1> QED  BY <1>1

\* A step of r that keeps it open: it loads its plan, inserts or reads.
LEMMA OpenSteps ==
    ASSUME BootIInv, BootNext, NEW r \in Replicas, Open(r)', run'[r] # run[r]
    PROVE  LoadPlan(r) \/ InsertIfMissing(r) \/ ReadBack(r)
<1>1. run \in [Replicas -> Runs] /\ \A q \in Replicas : run[q] \in Runs
  BY DEF BootIInv
<1>3. ReplicaStep(r) \/ Disturbance(r)
  BY OwnStep
<1>4. ASSUME NEW new, SetRun(r, new)
      PROVE  run'[r] = new
  BY <1>1, <1>4 DEF SetRun
<1>5. ASSUME NEW error, Fail(r, error)
      PROVE  FALSE
  <2>1. PICK new : new.phase = "failed" /\ SetRun(r, new)
    BY <1>1, <1>5 DEF Fail, Runs
  <2> QED  BY <1>4, <2>1 DEF Open
<1>6. ~CommitLost(r) /\ ~BackendError(r) /\ ~DeadlockVictim(r)
  BY <1>5 DEF CommitLost, BackendError, DeadlockVictim
<1>7. ~Restart(r)
  <2> SUFFICES ASSUME Restart(r) PROVE FALSE
    OBVIOUS
  <2>1. PICK new : new.phase = "start" /\ SetRun(r, new)
    BY DEF Restart, NotStarted
  <2> QED  BY <1>4, <2>1 DEF Open
<1>8. ~Commit(r)
  <2> SUFFICES ASSUME Commit(r) PROVE FALSE
    OBVIOUS
  <2>1. PICK new : new.phase = "ready" /\ SetRun(r, new)
    BY <1>1 DEF Commit, Runs
  <2> QED  BY <1>4, <2>1 DEF Open
<1> QED  BY <1>3, <1>6, <1>7, <1>8 DEF ReplicaStep, Disturbance

\* The state of a run after an entry.
LEMMA AdvanceFacts ==
    ASSUME BootIInv, NEW r \in Replicas, NEW own, Advance(r, own)
    PROVE  /\ run'[r].phase \in {"insert", "commit"} /\ run'[r].own = own
           /\ run'[r].pos = run[r].pos + 1 /\ run'[r].plan = run[r].plan
<1>1. PICK phase \in {"insert", "commit"} :
        phase = IF run[r].pos < Len(run[r].plan) THEN "insert" ELSE "commit"
  OBVIOUS
<1> DEFINE new == [run[r] EXCEPT !.own = own, !.pos = @ + 1, !.phase = phase]
<1>2. SetRun(r, new)
  BY <1>1 DEF Advance
<1>3. run[r] \in Runs /\ run \in [Replicas -> Runs]
  BY DEF BootIInv
<1>4. /\ new.phase = phase /\ new.own = own
      /\ new.pos = run[r].pos + 1 /\ new.plan = run[r].plan
  BY <1>3 DEF Runs
<1> HIDE DEF new
<1>5. run'[r] = new
  BY <1>2, <1>3 DEF SetRun
<1> QED  BY <1>1, <1>4, <1>5

\* r and the staged run are both done with an entry.
LEMMA StagedAdvance ==
    ASSUME BootIInv, NEW r \in Replicas, run[r].phase \in {"insert", "read"},
           NEW own, Advance(r, own), Committed' = Committed,
           \A f, id : IsStaging(f, Committed, run[r].plan, id) =>
              Matches(StageEntry(f[run[r].pos - 1], Current(r)),
                      Merge(Committed, own))
    PROVE  StagedOk(r)'
<1>1. PICK db, plan, pos :
        db = Committed /\ plan = run[r].plan /\ pos = run[r].pos
  OBVIOUS
<1>2. /\ run'[r].phase # "read" /\ run'[r].own = own
      /\ run'[r].pos = pos + 1 /\ run'[r].plan = plan
  BY <1>1, AdvanceFacts
<1>3. pos \in 1 .. Len(plan) /\ Len(plan) \in Nat /\ Current(r) = plan[pos]
  BY <1>1, PlanEntries, LenProperties DEF Current
<1>4. ASSUME NEW f, NEW id, IsStaging(f, db, plan, id)
      PROVE  Matches(f[(pos + 1) - 1], Merge(db, own))
  <2>1. f[pos] = StageEntry(f[pos - 1], plan[pos])
    BY <1>3, <1>4, StagingAt
  <2>2. Matches(StageEntry(f[pos - 1], plan[pos]), Merge(db, own))
    BY <1>1, <1>3, <1>4
  <2>3. (pos + 1) - 1 = pos
    BY <1>3
  <2> QED  BY <2>1, <2>2, <2>3
<1>5. Visible(r)' = Merge(db, own) /\ Committed' = db
  BY <1>1, <1>2 DEF Visible
<1> QED  BY <1>2, <1>4, <1>5 DEF StagedOk

\* An insert of an undisturbed run.
LEMMA StagedInsert ==
    ASSUME BootIInv, NEW r \in Replicas, StagedOk(r), alone[r],
           InsertIfMissing(r), Open(r)'
    PROVE  StagedOk(r)'
<1>1. PICK e \in Entries : e = Current(r)
  BY PlanEntries DEF InsertIfMissing
<1>2. run[r].phase = "insert" /\ Open(r) /\ Committed' = Committed
  BY DEF InsertIfMissing, TablesUnchanged, Committed, Open
<1>3. PICK own, v, row, id :
        /\ own = run[r].own /\ v = Merge(Committed, own) /\ v = Visible(r)
        /\ id = next_user_id + 1 /\ row = Row(v, e, id)
  BY DEF Visible
<1>4. /\ IsDb(Committed) /\ IsDb(own) /\ OwnFits(own, Committed, next_user_id)
      /\ next_user_id \in Nat
  BY <1>3, InvFacts DEF BootIInv, OwnOk
<1>5. \A f, first : IsStaging(f, Committed, run[r].plan, first) =>
                       Matches(f[run[r].pos - 1], v)
  BY <1>2, <1>3 DEF StagedOk
<1>6. CASE /\ Outcome(v, e) = "created"
           /\ Advance(r, [own EXCEPT ![e.kind] = Put(@, e.key, row)])
  <2>1. PICK new : new = [own EXCEPT ![e.kind] = Put(@, e.key, row)]
    OBVIOUS
  <2>2. Added(v, Merge(Committed, new), e.kind, e.key, row)
    <3>1. PICK db, n : db = Committed /\ n = next_user_id
      OBVIOUS
    <3>2. /\ Outcome(Merge(db, own), e) = "created"
          /\ row = Row(Merge(db, own), e, n + 1)
          /\ IsDb(db) /\ OwnFits(own, db, n) /\ n \in Nat
          /\ (e.kind = "user" => n + 1 \in UserIds)
      <4>1. e.kind = "user" => next_user_id + 1 \in UserIds
        BY <1>1, <1>4, MaxUserIdAssumption DEF InsertIfMissing, DrawId, UserIds
      <4> QED  BY <1>3, <1>4, <1>6, <3>1, <4>1
    <3>3. Stored(own, new, e.kind, e.key, row)
      BY <1>4, <2>1, EntryFields DEF Stored, IsDb
    <3>4. Added(Merge(db, own), Merge(db, new), e.kind, e.key, row)
      BY <1>4, <3>2, <3>3, InsertFits
    <3> QED  BY <1>3, <3>1, <3>4
  <2>3. ASSUME NEW f, NEW first, IsStaging(f, Committed, run[r].plan, first)
        PROVE  Matches(StageEntry(f[run[r].pos - 1], e), Merge(Committed, new))
    <3>1. PICK s, w : s = f[run[r].pos - 1] /\ w = Merge(Committed, new)
      OBVIOUS
    <3>2. Matches(s, v) /\ Added(v, w, e.kind, e.key, Row(v, e, id))
      BY <1>3, <1>5, <2>2, <2>3, <3>1
    <3>3. Matches(StageEntry(s, e), w)
      BY <1>6, <3>2, StageCreates
    <3> QED  BY <3>1, <3>3
  <2>4. Advance(r, new)
    BY <1>6, <2>1
  <2> QED  BY <1>1, <1>2, <2>3, <2>4, StagedAdvance
<1>7. CASE /\ Outcome(v, e) = "present" /\ e.kind \notin {"user", "credential"}
           /\ Advance(r, own)
  <2>1. Has(v, e) /\ Accepts(e, v[e.kind][e.key])
    BY <1>7, OutcomeMeans DEF Accepts
  <2>2. ASSUME NEW f, NEW first, IsStaging(f, Committed, run[r].plan, first)
        PROVE  Matches(StageEntry(f[run[r].pos - 1], e), v)
    BY <1>5, <2>1, <2>2, StagePresent
  <2> QED  BY <1>1, <1>2, <1>3, <1>7, <2>2, StagedAdvance
<1>8. CASE /\ Outcome(v, e) = "present"
           /\ SetRun(r, [run[r] EXCEPT !.phase = "read"])
  <2>1. /\ run'[r].own = own /\ run'[r].pos = run[r].pos
        /\ run'[r].plan = run[r].plan
    BY <1>3, <1>8 DEF SetRun, BootIInv, Runs
  <2>2. Visible(r)' = v /\ Current(r)' = e
    BY <1>1, <1>2, <1>3, <2>1 DEF Visible, Current
  <2>3. Has(v, e)
    BY <1>8, OutcomeMeans
  <2> QED  BY <1>2, <1>5, <2>1, <2>2, <2>3 DEF StagedOk
<1>9. ~Fail(r, Outcome(v, e))
  <2> SUFFICES ASSUME Fail(r, Outcome(v, e)) PROVE FALSE
    OBVIOUS
  <2>1. run'[r].phase = "failed"
    BY DEF Fail, SetRun, BootIInv, Runs
  <2> QED  BY <2>1 DEF Open
<1> QED  BY <1>1, <1>3, <1>6, <1>7, <1>8, <1>9 DEF InsertIfMissing

\* A read of an undisturbed run.
LEMMA StagedRead ==
    ASSUME BootIInv, NEW r \in Replicas, StagedOk(r), alone[r],
           ReadBack(r), Open(r)'
    PROVE  StagedOk(r)'
<1>1. PICK e \in Entries : e = Current(r)
  BY PlanEntries DEF ReadBack
<1>2. run[r].phase = "read" /\ Open(r) /\ Committed' = Committed
  BY DEF ReadBack, vars, Committed, Open
<1>3. PICK own, v :
        own = run[r].own /\ v = Merge(Committed, own) /\ v = Visible(r)
  BY DEF Visible
<1>4. ASSUME NEW error, Fail(r, error) PROVE FALSE
  <2>1. run'[r].phase = "failed"
    BY <1>4 DEF Fail, SetRun, BootIInv, Runs
  <2> QED  BY <2>1 DEF Open
<1>5. Has(v, e) /\ Accepts(e, v[e.kind][e.key]) /\ Advance(r, own)
  BY <1>1, <1>3, <1>4 DEF ReadBack
<1>6. ASSUME NEW f, NEW first, IsStaging(f, Committed, run[r].plan, first)
      PROVE  Matches(StageEntry(f[run[r].pos - 1], e), v)
  <2>1. Matches(f[run[r].pos - 1], v)
    BY <1>2, <1>3, <1>6 DEF StagedOk
  <2> QED  BY <1>5, <2>1, StagePresent
<1> QED  BY <1>1, <1>2, <1>3, <1>5, <1>6, StagedAdvance

\* A run that begins sees what is committed, and so does the staged one.
LEMMA StagedLoad ==
    ASSUME BootIInv, NEW r \in Replicas, LoadPlan(r), Open(r)'
    PROVE  StagedOk(r)'
<1>1. /\ run[r] \in Runs /\ run[r].phase = "start" /\ run[r].pos = 1
      /\ run[r].own = NoRows
  BY InvFacts DEF LoadPlan, BootIInv, RunOk, Open
<1>2. ASSUME NEW error, Fail(r, error) PROVE FALSE
  <2>1. run'[r].phase = "failed"
    BY <1>2 DEF Fail, SetRun, BootIInv, Runs
  <2> QED  BY <2>1 DEF Open
<1>3. ASSUME SetRun(r, [run[r] EXCEPT !.phase = "ready"]) PROVE FALSE
  <2>1. run'[r].phase = "ready"
    BY <1>3 DEF SetRun, BootIInv, Runs
  <2> QED  BY <2>1 DEF Open
<1>4. PICK plan : plan = Plan(run[r].file)
  OBVIOUS
<1>5. SetRun(r, [run[r] EXCEPT !.phase = "insert", !.plan = plan])
  BY <1>2, <1>3, <1>4 DEF LoadPlan
<1>6. /\ run'[r].phase = "insert" /\ run'[r].plan = plan
      /\ run'[r].own = NoRows /\ run'[r].pos = 1
  BY <1>1, <1>5 DEF SetRun, BootIInv, Runs
<1>7. PICK db : db = Committed /\ db = Committed' /\ IsDb(db)
  BY InvFacts DEF LoadPlan, vars, Committed
<1>8. Visible(r)' = db
  BY <1>6, <1>7, MergeNoRows DEF Visible
<1>9. Len(plan) \in Nat
  <2>1. run[r].file \in Files /\ ValidFile(run[r].file)
    BY <1>1, <1>2, <1>3 DEF LoadPlan, Runs
  <2>2. run[r].file \notin {NoFile, UnreadableFile}
    BY <1>2, <1>3 DEF LoadPlan
  <2>3. WellFormed(run[r].file)
    BY <2>1, <2>2, FilesAssumption DEF Files
  <2> QED  BY <1>4, <2>1, <2>3, PlanType, LenProperties
<1>10. ASSUME NEW f, NEW id, IsStaging(f, db, plan, id)
       PROVE  Matches(f[1 - 1], db)
  <2>1. f[0] = [ok |-> TRUE, db |-> db, next_user_id |-> id]
    BY <1>9, <1>10, StagingStarts
  <2>2. SameContent(db, db)
    BY DEF SameContent
  <2>3. PICK s : s = [ok |-> TRUE, db |-> db, next_user_id |-> id]
    OBVIOUS
  <2>4. s.ok = TRUE /\ s.db = db /\ s.next_user_id = id
    BY <2>3
  <2>5. IsStage(s)
    BY <1>7, <2>3, <2>4 DEF IsStage, IsDb
  <2> QED  BY <2>1, <2>2, <2>3, <2>4, <2>5 DEF Matches
<1> QED  BY <1>6, <1>7, <1>8, <1>10 DEF StagedOk

\* Every step keeps an undisturbed run in line with the staged one.
LEMMA StagedStep ==
    BootIInv /\ (\A r \in Replicas : StagedOk(r)) /\ [BootNext]_bootVars
       => (\A r \in Replicas : StagedOk(r))'
<1> SUFFICES ASSUME BootIInv, \A r \in Replicas : StagedOk(r),
                    [BootNext]_bootVars, NEW r \in Replicas
             PROVE  StagedOk(r)'
  OBVIOUS
<1>1. CASE UNCHANGED bootVars
  <2>1. run' = run /\ Committed' = Committed /\ alone' = alone
    BY <1>1 DEF bootVars, Committed
  <2> QED  BY <2>1 DEF StagedOk, Visible, Current, Open
<1>2. CASE BootNext /\ ~(Open(r)' /\ alone'[r])
  BY <1>2 DEF StagedOk
<1>3. CASE BootNext /\ Open(r)' /\ alone'[r]
  <2>1. alone[r] /\ (run'[r] # run[r] \/ Committed' = Committed)
    BY <1>3 DEF BootNext, Watch
  <2>2. CASE run'[r] = run[r]
    BY <2>1, <2>2, <1>3 DEF StagedOk, Visible, Current, Open
  <2>3. CASE run'[r] # run[r]
    BY <1>3, <2>1, <2>3, OpenSteps, StagedLoad, StagedInsert, StagedRead
  <2> QED  BY <2>2, <2>3
<1> QED  BY <1>1, <1>2, <1>3

\* The errors that come from the file and the tables.
LEMMA RefusedBy ==
    ASSUME BootIInv, BootNext, NEW r \in Replicas, Open(r),
           run'[r].error \in {"already_exists", "not_found", "wrong_identity"}
    PROVE  \/ /\ run[r].phase = "insert"
              /\ Outcome(Visible(r), Current(r)) \notin {"created", "present"}
           \/ /\ run[r].phase = "read"
              /\ \/ ~Has(Visible(r), Current(r))
                 \/ ~Accepts(Current(r), Visible(r)[Current(r).kind][Current(r).key])
<1>1. run \in [Replicas -> Runs] /\ run[r] \in Runs /\ run[r].error = "none"
  BY DEF BootIInv, RunOk
<1>2. ReplicaStep(r) \/ Disturbance(r)
  BY <1>1, OwnStep
<1>3. ASSUME NEW error, Fail(r, error)
      PROVE  run'[r].error = error
  BY <1>1, <1>3 DEF Fail, SetRun, Runs
<1>4. ~LoadPlan(r) /\ ~Restart(r)
  BY DEF LoadPlan, Restart, Open
<1>5. ~CommitLost(r) /\ ~BackendError(r) /\ ~DeadlockVictim(r)
  BY <1>3 DEF CommitLost, BackendError, DeadlockVictim
<1>6. ~Commit(r)
  BY <1>1 DEF Commit, SetRun, Runs
<1>7. ASSUME NEW own, Advance(r, own)
      PROVE  FALSE
  <2>1. PICK phase : phase = IF run[r].pos < Len(run[r].plan) THEN "insert" ELSE "commit"
    OBVIOUS
  <2>2. SetRun(r, [run[r] EXCEPT !.own = own, !.pos = @ + 1, !.phase = phase])
    BY <1>7, <2>1 DEF Advance
  <2>3. [run[r] EXCEPT !.own = own, !.pos = @ + 1, !.phase = phase].error = "none"
    BY <1>1 DEF Runs
  <2> QED  BY <1>1, <2>2, <2>3 DEF SetRun
<1>8. ~SetRun(r, [run[r] EXCEPT !.phase = "read"])
  BY <1>1 DEF SetRun, Runs
<1>9. CASE InsertIfMissing(r)
  BY <1>7, <1>8, <1>9 DEF InsertIfMissing
<1>10. CASE ReadBack(r)
  BY <1>7, <1>10 DEF ReadBack
<1> QED  BY <1>2, <1>4, <1>5, <1>6, <1>9, <1>10 DEF ReplicaStep, Disturbance

\* A run that nobody disturbs ends in PostgreSQL, statement by statement, with
\* the content that MemStore's staged copy has, and it is refused exactly where
\* the staged run is.
THEOREM TwoStoresAgree == BootSpec => StoresAgree
<1> DEFINE StageInv == \A r \in Replicas : StagedOk(r)
<1>1. BootInit => StageInv
  <2> SUFFICES ASSUME BootInit, NEW r \in Replicas PROVE StagedOk(r)
    OBVIOUS
  <2>1. run[r].phase = "start"
    BY DEF BootInit, NotStarted
  <2> QED  BY <2>1 DEF StagedOk, Open
<1>2. BootIInv /\ StageInv /\ [BootNext]_bootVars => StageInv'
  BY StagedStep
<1>3. BootIInv /\ StageInv /\ [BootNext]_bootVars =>
        [\A r \in Replicas :
          Open(r) /\ alone[r] =>
             /\ run'[r].phase = "ready" =>
                   LET staged == ApplyStaged(Committed, run[r].plan)
                   IN staged.ok /\ Content(staged.db) = Content(Committed')
             /\ run'[r].error \in {"already_exists", "not_found",
                                   "wrong_identity"} =>
                   ~ApplyStaged(Committed, run[r].plan).ok]_bootVars
  <2> SUFFICES ASSUME BootIInv, StageInv, BootNext, NEW r \in Replicas,
                      Open(r), alone[r]
               PROVE  /\ run'[r].phase = "ready" =>
                           /\ ApplyStaged(Committed, run[r].plan).ok
                           /\ Content(ApplyStaged(Committed, run[r].plan).db)
                                 = Content(Committed')
                      /\ run'[r].error \in {"already_exists", "not_found",
                                            "wrong_identity"} =>
                           ~ApplyStaged(Committed, run[r].plan).ok
    OBVIOUS
  <2>1. PICK plan, pos, v, db :
          /\ plan = run[r].plan /\ pos = run[r].pos /\ v = Visible(r)
          /\ db = Committed
    OBVIOUS
  <2>2. Len(plan) \in Nat
    BY <2>1, PlanEntries, LenProperties
  <2>3. PICK f : /\ IsStaging(f, db, plan, next_user_id)
                 /\ ApplyStaged(db, plan) = f[Len(plan)]
    BY <2>2, ApplyStagedIs
  <2>4. Matches(f[pos - 1], v)
    BY <2>1, <2>3 DEF StagedOk
  <2>5. ASSUME run'[r].phase = "ready"
        PROVE  f[Len(plan)].ok /\ Content(f[Len(plan)].db) = Content(Committed')
    <3>1. run[r].phase = "commit" /\ Committed' = v
      BY <2>1, <2>5, ReadyByCommit, Published
    <3>2. pos - 1 = Len(plan)
      BY <2>1, <2>2, <3>1 DEF BootIInv, RunOk
    <3>3. PICK a : a = f[Len(plan)].db /\ SameContent(a, v)
      BY <2>4, <3>2 DEF Matches
    <3>4. Content(a) = Content(v)
      <4>1. DOMAIN a.user = DOMAIN v.user /\ \A kind \in Kinds : DOMAIN a[kind] = DOMAIN v[kind]
        BY <3>3 DEF SameContent, Kinds
      <4> QED  BY <3>3, <4>1 DEF Content, SameContent
    <3> QED  BY <2>4, <3>1, <3>2, <3>3, <3>4 DEF Matches
  <2>6. ASSUME run'[r].error \in {"already_exists", "not_found", "wrong_identity"}
        PROVE  ~f[Len(plan)].ok
    <3>1. /\ run[r].phase \in {"insert", "read"}
          /\ \/ Outcome(v, Current(r)) \notin {"created", "present"}
             \/ /\ Has(v, Current(r))
                /\ ~Accepts(Current(r), v[Current(r).kind][Current(r).key])
      <4>1. run[r].phase = "read" => Has(v, Current(r))
        BY <2>1 DEF StagedOk
      <4> QED  BY <2>1, <2>6, <4>1, RefusedBy
    <3>2. PICK e \in Entries : e = Current(r) /\ e = plan[pos]
      BY <2>1, <3>1, PlanEntries DEF Current
    <3>3. pos \in 1 .. Len(plan)
      BY <2>1, <3>1, PlanEntries
    <3>4. f[pos] = StageEntry(f[pos - 1], e)
      <4>1. f[pos] = StageEntry(f[pos - 1], plan[pos])
        BY <2>2, <2>3, <3>3, StagingAt
      <4> QED  BY <3>2, <4>1
    <3>5. ~StageEntry(f[pos - 1], e).ok
      BY <2>4, <3>1, <3>2, StagePresent, StageRefuses
    <3> QED  BY <2>2, <2>3, <3>3, <3>4, <3>5, StageStops
  <2> QED  BY <2>1, <2>3, <2>5, <2>6
<1> HIDE DEF StageInv
<1> QED  BY <1>1, <1>2, <1>3, BootInvariant, PTL DEF BootSpec, StoresAgree
=============================================================================
