-------------------------- MODULE AuthzStoreProofs --------------------------
(***************************************************************************)
(* Proofs about AuthzStore, for every choice of its constants: the store   *)
(* invariant (types, referential integrity, no inherited grants, unique    *)
(* identities) and the action property on the policies of a user.          *)
(***************************************************************************)
EXTENDS AuthzStore, TLAPS

-----------------------------------------------------------------------------
(* Tables. *)

\* Inserting a row of the right type under a key of the right type keeps a
\* table a table (BTreeMap::insert of store/mem.rs).
LEMMA PutIsTable ==
    ASSUME NEW f, NEW K, NEW R, IsTable(f, K, R), NEW k \in K, NEW v \in R
    PROVE  IsTable(Put(f, k, v), K, R)
BY DEF IsTable, Put

\* Keeping some of the rows keeps a table a table (BTreeMap::retain and
\* remove of store/mem.rs).
LEMMA KeepIsTable ==
    ASSUME NEW f, NEW K, NEW R, IsTable(f, K, R), NEW S \in SUBSET DOMAIN f
    PROVE  IsTable(Keep(f, S), K, R)
BY DEF IsTable, Keep

\* The empty table has every type.
LEMMA EmptyIsTable ==
    ASSUME NEW K, NEW R
    PROVE  IsTable(EmptyTable, K, R)
BY DEF IsTable, EmptyTable

-----------------------------------------------------------------------------
(* Types. *)

\* Every step of the store keeps the types of its tables.
LEMMA TypeStep == TypeOK /\ [Next]_vars => TypeOK'
<1> SUFFICES ASSUME TypeOK, [Next]_vars PROVE TypeOK'
  OBVIOUS
<1> USE MaxUserIdAssumption DEF TypeOK
<1>1. ASSUME NEW new \in NewUser, CreateUser(new) PROVE TypeOK'
  <2> DEFINE r == [user_id |-> next_user_id + 1, email |-> new.email,
                   external_id |-> new.external_id,
                   friendly_name |-> new.friendly_name]
  <2>1. r \in UserRecord /\ new.username \in Usernames
    BY <1>1 DEF CreateUser, NewUser, UserRecord, UserIds
  <2>2. IsTable(users', Usernames, UserRecord)
    <3>1. users' = Put(users, new.username, r)
      BY <1>1 DEF CreateUser
    <3> HIDE DEF r
    <3> QED  BY <3>1, <2>1, PutIsTable
  <2> QED  BY <1>1, <2>2 DEF CreateUser
<1>2. ASSUME NEW new \in NewUser, BurnUserId(new) PROVE TypeOK'
  BY <1>2 DEF BurnUserId
<1>3. ASSUME NEW n \in Usernames, DeleteUser(n) PROVE TypeOK'
  BY <1>3, KeepIsTable DEF DeleteUser, CascadeDeleteUser
<1>4. ASSUME NEW n \in Usernames, NEW f \in FriendlyNames,
             SetFriendlyName(n, f)
      PROVE  TypeOK'
  BY <1>4 DEF SetFriendlyName, IsTable, UserRecord, Optional
<1>5. ASSUME NEW g \in Groups, NEW record \in GroupRecord,
             CreateGroup(g, record)
      PROVE  TypeOK'
  BY <1>5, PutIsTable DEF CreateGroup
<1>6. ASSUME NEW g \in Groups, DeleteGroup(g) PROVE TypeOK'
  BY <1>6, KeepIsTable DEF DeleteGroup, CascadeDeleteGroup
<1>7. ASSUME NEW p \in Policies, NEW record \in PolicyRecord,
             CreatePolicy(p, record)
      PROVE  TypeOK'
  BY <1>7, PutIsTable DEF CreatePolicy
<1>8. ASSUME NEW p \in Policies, NEW record \in PolicyRecord,
             UpdatePolicy(p, record)
      PROVE  TypeOK'
  BY <1>8 DEF UpdatePolicy, IsTable
<1>9. ASSUME NEW p \in Policies, DeletePolicy(p) PROVE TypeOK'
  BY <1>9, KeepIsTable DEF DeletePolicy, CascadeDeletePolicy
<1>10. ASSUME NEW g \in Groups, NEW n \in Usernames, AddMembership(g, n)
       PROVE  TypeOK'
  <2>1. users[n].user_id \in UserIds /\ <<g, n>> \in MembershipKeys
    BY <1>10 DEF AddMembership, IsTable, UserRecord, MembershipKeys
  <2> QED  BY <1>10, <2>1, PutIsTable DEF AddMembership
<1>11. ASSUME NEW g \in Groups, NEW n \in Usernames, RemoveMembership(g, n)
       PROVE  TypeOK'
  BY <1>11, KeepIsTable DEF RemoveMembership
<1>12. ASSUME NEW n \in Usernames, NEW p \in Policies,
              AttachPolicyToUser(n, p)
       PROVE  TypeOK'
  <2>1. users[n].user_id \in UserIds /\ <<n, p>> \in UserPolicyKeys
    BY <1>12 DEF AttachPolicyToUser, IsTable, UserRecord, UserPolicyKeys
  <2> QED  BY <1>12, <2>1, PutIsTable DEF AttachPolicyToUser
<1>13. ASSUME NEW n \in Usernames, NEW p \in Policies,
              DetachPolicyFromUser(n, p)
       PROVE  TypeOK'
  BY <1>13, KeepIsTable DEF DetachPolicyFromUser
<1>14. ASSUME NEW g \in Groups, NEW p \in Policies, AttachPolicyToGroup(g, p)
       PROVE  TypeOK'
  BY <1>14 DEF AttachPolicyToGroup
<1>15. ASSUME NEW g \in Groups, NEW p \in Policies,
              DetachPolicyFromGroup(g, p)
       PROVE  TypeOK'
  BY <1>15 DEF DetachPolicyFromGroup
<1>16. ASSUME NEW n \in Usernames, NEW k \in AccessKeys,
              CreateCredential(n, k)
       PROVE  TypeOK'
  <2> DEFINE r == [username |-> n, user_id |-> users[n].user_id]
  <2>1. r \in CredentialRecord
    BY <1>16 DEF CreateCredential, IsTable, UserRecord, CredentialRecord
  <2>2. credentials' = Put(credentials, k, r)
    BY <1>16 DEF CreateCredential
  <2> HIDE DEF r
  <2>3. IsTable(credentials', AccessKeys, CredentialRecord)
    BY <2>1, <2>2, PutIsTable
  <2> QED  BY <1>16, <2>3 DEF CreateCredential
<1>17. ASSUME NEW n \in Usernames, NEW k \in AccessKeys,
              DeleteCredential(n, k)
       PROVE  TypeOK'
  BY <1>17, KeepIsTable DEF DeleteCredential
<1>18. ASSUME NEW n \in Usernames, NEW i \in Principals,
              CreateExternalPrincipal(n, i)
       PROVE  TypeOK'
  <2> DEFINE r == [username |-> n, user_id |-> users[n].user_id]
  <2>1. r \in PrincipalRecord
    BY <1>18 DEF CreateExternalPrincipal, IsTable, UserRecord, PrincipalRecord
  <2>2. external_principals' = Put(external_principals, i, r)
    BY <1>18 DEF CreateExternalPrincipal
  <2> HIDE DEF r
  <2>3. IsTable(external_principals', Principals, PrincipalRecord)
    BY <2>1, <2>2, PutIsTable
  <2> QED  BY <1>18, <2>3 DEF CreateExternalPrincipal
<1>19. ASSUME NEW n \in Usernames, NEW i \in Principals,
              DeleteExternalPrincipal(n, i)
       PROVE  TypeOK'
  BY <1>19, KeepIsTable DEF DeleteExternalPrincipal
<1>20. CASE UNCHANGED vars
  BY <1>20 DEF vars
<1> QED
  BY <1>1, <1>2, <1>3, <1>4, <1>5, <1>6, <1>7, <1>8, <1>9, <1>10, <1>11,
     <1>12, <1>13, <1>14, <1>15, <1>16, <1>17, <1>18, <1>19, <1>20
     DEF Next, UserNext, GroupNext, PolicyNext, AttachmentNext, CredentialNext

\* The empty tables are typed.
LEMMA InitTypeOK == Init => TypeOK
BY MaxUserIdAssumption, EmptyIsTable DEF Init, TypeOK

\* The tables of the store always hold rows of their types.
THEOREM TypeCorrect == Spec => []TypeOK
BY InitTypeOK, TypeStep, PTL DEF Spec

-----------------------------------------------------------------------------
(* References, grants and identities. *)

\* A user that survives a step keeps its user_id, its email and its external
\* id, and no user appears: enough to keep every fact about users.
LEMMA SetFriendlyNameFacts ==
    ASSUME TypeOK, NEW n \in Usernames, NEW f, SetFriendlyName(n, f)
    PROVE  /\ DOMAIN users' = DOMAIN users
           /\ \A m \in DOMAIN users :
                 /\ users'[m].user_id = users[m].user_id
                 /\ users'[m].email = users[m].email
                 /\ users'[m].external_id = users[m].external_id
BY DEF SetFriendlyName, TypeOK, IsTable, UserRecord

\* The parts of the store invariant that relate one table to another.
Links == ReferentialIntegrity /\ NoInheritedGrants /\ UniqueIdentities

\* Every step of the store keeps references, grants and identities intact.
LEMMA LinksStep == TypeOK /\ Links /\ [Next]_vars => Links'
<1> SUFFICES ASSUME TypeOK, Links, [Next]_vars PROVE Links'
  OBVIOUS
<1> USE MaxUserIdAssumption
        DEF Links, ReferentialIntegrity, NoInheritedGrants, UniqueIdentities
<1>1. ASSUME NEW new \in NewUser, CreateUser(new) PROVE Links'
  <2>1. /\ DOMAIN users' = DOMAIN users \cup {new.username}
        /\ users'[new.username].user_id = next_user_id + 1
        /\ users'[new.username].email = new.email
        /\ users'[new.username].external_id = new.external_id
        /\ \A m \in DOMAIN users : users'[m] = users[m]
    BY <1>1 DEF CreateUser, UserConflict, Put
  <2>2. NoInheritedGrants' /\ ReferentialIntegrity'
    BY <1>1, <2>1 DEF CreateUser
  <2>3. UniqueIdentities'
    <3>1. \A m \in DOMAIN users : /\ users[m].user_id \in Int
                                  /\ users[m].user_id < next_user_id + 1
      BY DEF TypeOK, IsTable, UserRecord, UserIds
    <3>2. next_user_id \in Int /\ next_user_id' = next_user_id + 1
      BY <1>1 DEF TypeOK, CreateUser
    <3>3. \A m \in DOMAIN users :
             /\ new.email # None => users[m].email # new.email
             /\ new.external_id # None => users[m].external_id # new.external_id
      BY <1>1 DEF CreateUser, UserConflict, FindUserByEmail,
                  FindUserByExternalId
    <3>4. \A m \in DOMAIN users' : users'[m].user_id \leq next_user_id'
      BY <2>1, <3>1, <3>2
    <3>5. ASSUME NEW k \in DOMAIN users', NEW m \in DOMAIN users', k # m
          PROVE  /\ users'[k].user_id # users'[m].user_id
                 /\ users'[k].email # None => users'[k].email # users'[m].email
                 /\ users'[k].external_id # None =>
                       users'[k].external_id # users'[m].external_id
      BY <2>1, <3>1, <3>2, <3>3, <3>5
    <3> QED  BY <3>4, <3>5
  <2> QED  BY <2>2, <2>3
<1>2. ASSUME NEW new \in NewUser, BurnUserId(new) PROVE Links'
  <2>1. \A m \in DOMAIN users : users[m].user_id \leq next_user_id + 1
    BY DEF TypeOK, IsTable, UserRecord, UserIds
  <2> QED  BY <1>2, <2>1 DEF BurnUserId
<1>3. ASSUME NEW n \in Usernames, DeleteUser(n) PROVE Links'
  <2>1. ReferentialIntegrity'
    BY <1>3 DEF DeleteUser, CascadeDeleteUser, Keep
  <2>2. NoInheritedGrants'
    BY <1>3 DEF DeleteUser, CascadeDeleteUser, Keep
  <2>3. UniqueIdentities'
    BY <1>3 DEF DeleteUser, Keep
  <2> QED  BY <2>1, <2>2, <2>3
<1>4. ASSUME NEW n \in Usernames, NEW f \in FriendlyNames,
             SetFriendlyName(n, f)
      PROVE  Links'
  BY <1>4, SetFriendlyNameFacts DEF SetFriendlyName
<1>5. ASSUME NEW g \in Groups, NEW record \in GroupRecord,
             CreateGroup(g, record)
      PROVE  Links'
  BY <1>5 DEF CreateGroup, Put
<1>6. ASSUME NEW g \in Groups, DeleteGroup(g) PROVE Links'
  BY <1>6 DEF DeleteGroup, CascadeDeleteGroup, Keep
<1>7. ASSUME NEW p \in Policies, NEW record \in PolicyRecord,
             CreatePolicy(p, record)
      PROVE  Links'
  BY <1>7 DEF CreatePolicy, Put
<1>8. ASSUME NEW p \in Policies, NEW record \in PolicyRecord,
             UpdatePolicy(p, record)
      PROVE  Links'
  BY <1>8 DEF UpdatePolicy
<1>9. ASSUME NEW p \in Policies, DeletePolicy(p) PROVE Links'
  BY <1>9 DEF DeletePolicy, CascadeDeletePolicy, Keep
<1>10. ASSUME NEW g \in Groups, NEW n \in Usernames, AddMembership(g, n)
       PROVE  Links'
  BY <1>10 DEF AddMembership, Put
<1>11. ASSUME NEW g \in Groups, NEW n \in Usernames, RemoveMembership(g, n)
       PROVE  Links'
  BY <1>11 DEF RemoveMembership, Keep
<1>12. ASSUME NEW n \in Usernames, NEW p \in Policies,
              AttachPolicyToUser(n, p)
       PROVE  Links'
  BY <1>12 DEF AttachPolicyToUser, Put
<1>13. ASSUME NEW n \in Usernames, NEW p \in Policies,
              DetachPolicyFromUser(n, p)
       PROVE  Links'
  BY <1>13 DEF DetachPolicyFromUser, Keep
<1>14. ASSUME NEW g \in Groups, NEW p \in Policies, AttachPolicyToGroup(g, p)
       PROVE  Links'
  BY <1>14 DEF AttachPolicyToGroup
<1>15. ASSUME NEW g \in Groups, NEW p \in Policies,
              DetachPolicyFromGroup(g, p)
       PROVE  Links'
  BY <1>15 DEF DetachPolicyFromGroup
<1>16. ASSUME NEW n \in Usernames, NEW k \in AccessKeys,
              CreateCredential(n, k)
       PROVE  Links'
  BY <1>16 DEF CreateCredential, Put
<1>17. ASSUME NEW n \in Usernames, NEW k \in AccessKeys,
              DeleteCredential(n, k)
       PROVE  Links'
  BY <1>17 DEF DeleteCredential, Keep
<1>18. ASSUME NEW n \in Usernames, NEW i \in Principals,
              CreateExternalPrincipal(n, i)
       PROVE  Links'
  BY <1>18 DEF CreateExternalPrincipal, Put
<1>19. ASSUME NEW n \in Usernames, NEW i \in Principals,
              DeleteExternalPrincipal(n, i)
       PROVE  Links'
  BY <1>19 DEF DeleteExternalPrincipal, Keep
<1>20. CASE UNCHANGED vars
  BY <1>20 DEF vars
<1> QED
  BY <1>1, <1>2, <1>3, <1>4, <1>5, <1>6, <1>7, <1>8, <1>9, <1>10, <1>11,
     <1>12, <1>13, <1>14, <1>15, <1>16, <1>17, <1>18, <1>19, <1>20
     DEF Next, UserNext, GroupNext, PolicyNext, AttachmentNext, CredentialNext

\* The store invariant holds of every behaviour of the store: in particular a
\* user never inherits the rows of an earlier user of the same name, and
\* lookups by id, email and external id are unambiguous.
THEOREM StoreCorrect == Spec => []StoreInv
<1>1. Init => TypeOK /\ Links
  BY InitTypeOK
     DEF Init, Links, ReferentialIntegrity, NoInheritedGrants,
         UniqueIdentities, EmptyTable
<1>2. TypeOK /\ Links /\ [Next]_vars => (TypeOK /\ Links)'
  BY TypeStep, LinksStep
<1>3. TypeOK /\ Links => StoreInv
  BY DEF StoreInv, Links
<1> QED  BY <1>1, <1>2, <1>3, PTL DEF Spec

\* No membership or attachment ever names a group or a policy that is gone.
THEOREM NoDanglingReference == Spec => []ReferentialIntegrity
BY StoreCorrect, PTL DEF StoreInv

\* Nobody ever holds a row that was given to an earlier user of the same name.
THEOREM NothingInherited == Spec => []NoInheritedGrants
BY StoreCorrect, PTL DEF StoreInv

\* The lookups by id, email and external id never have two answers.
THEOREM IdentitiesUnique == Spec => []UniqueIdentities
BY StoreCorrect, PTL DEF StoreInv

\* A row of group_members, user_policies or group_policies names only
\* policies and groups that exist, so a step that adds no such row can only
\* take policies away.
LEMMA GainStep ==
    ASSUME StoreInv, [Next]_vars, NEW n \in Usernames,
           DOMAIN group_members' \subseteq DOMAIN group_members,
           DOMAIN user_policies' \subseteq DOMAIN user_policies,
           group_policies' \subseteq group_policies
    PROVE  ListEffectiveUserPolicies(n)' \subseteq ListEffectiveUserPolicies(n)
<1> SUFFICES ASSUME NEW p \in ListEffectiveUserPolicies(n)'
             PROVE  p \in ListEffectiveUserPolicies(n)
  OBVIOUS
<1>1. CASE <<n, p>> \in DOMAIN user_policies'
  <2>1. <<n, p>> \in DOMAIN user_policies
    BY <1>1
  <2>2. p \in DOMAIN policies
    BY <2>1 DEF StoreInv, ReferentialIntegrity
  <2> QED  BY <2>1, <2>2 DEF ListEffectiveUserPolicies
<1>2. ASSUME NEW g \in Groups, <<g, n>> \in DOMAIN group_members',
             <<g, p>> \in group_policies'
      PROVE  p \in ListEffectiveUserPolicies(n)
  <2>1. <<g, n>> \in DOMAIN group_members /\ <<g, p>> \in group_policies
    BY <1>2
  <2>2. p \in DOMAIN policies
    BY <2>1 DEF StoreInv, ReferentialIntegrity
  <2> QED  BY <2>1, <2>2 DEF ListEffectiveUserPolicies
<1> QED  BY <1>1, <1>2 DEF ListEffectiveUserPolicies

\* Only a new membership or a new attachment ever gives a user a policy.
THEOREM GainsAreGrants == Spec => PoliciesGainedOnlyByGrant
<1>1. StoreInv /\ [Next]_vars =>
        [\A n \in Usernames :
          ListEffectiveUserPolicies(n)' \subseteq ListEffectiveUserPolicies(n)
          \/ ~ /\ DOMAIN group_members' \subseteq DOMAIN group_members
               /\ DOMAIN user_policies' \subseteq DOMAIN user_policies
               /\ group_policies' \subseteq group_policies]_vars
  BY GainStep
<1> QED
  BY <1>1, StoreCorrect, PTL DEF Spec, PoliciesGainedOnlyByGrant

=============================================================================
