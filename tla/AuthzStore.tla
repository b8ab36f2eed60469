----------------------------- MODULE AuthzStore -----------------------------
(***************************************************************************)
(* The tables of the lakeFS authorization server and the store calls that  *)
(* change them: `Inner` and the store traits of store/mem.rs, which        *)
(* PostgreSQL implements with the schema of migrations/0001_initial.sql    *)
(* and one statement per call (store/pg).  A call runs under the write     *)
(* lock, or as one statement, so it is one atomic action here.             *)
(*                                                                         *)
(* A map of the code (BTreeMap, or a table with a primary key) is a        *)
(* function whose domain is the set of keys.  A call that answers          *)
(* NotFound or AlreadyExists changes no row; it is the negation of the     *)
(* guard of its action and needs no action of its own, with one exception: *)
(* a refused insert of a user consumes a value of the identity column      *)
(* (BurnUserId).                                                           *)
(***************************************************************************)
EXTENDS Integers

CONSTANTS
    Usernames, Emails, ExternalIds, FriendlyNames,
    Groups, Descriptions,
    Policies, Statements, Acls, Dates,
    AccessKeys, Principals,
    None,           \* Option::None
    MaxUserId       \* bound on the identity column

ASSUME MaxUserIdAssumption == MaxUserId \in Nat

ASSUME NoneAssumption ==
    None \notin Usernames \cup Emails \cup ExternalIds \cup FriendlyNames
                \cup Descriptions \cup Acls

VARIABLES
    users, next_user_id, groups, policies,
    group_members, user_policies, group_policies,
    credentials, external_principals

vars == <<users, next_user_id, groups, policies, group_members,
          user_policies, group_policies, credentials, external_principals>>

-----------------------------------------------------------------------------
(* The rows. *)

Optional(S) == S \cup {None}

UserIds == 1 .. MaxUserId

\* The columns of a user that a lookup or a constraint reads.  `source` and the
\* password are written once, and only same_user reads them, the way it reads
\* the friendly name; the creation date is never tested.
UserRecord ==
    [user_id : UserIds, email : Optional(Emails),
     external_id : Optional(ExternalIds),
     friendly_name : Optional(FriendlyNames)]

NewUser ==
    [username : Usernames, email : Optional(Emails),
     external_id : Optional(ExternalIds),
     friendly_name : Optional(FriendlyNames)]

GroupRecord == [description : Optional(Descriptions)]

PolicyRecord ==
    [creation_date : Dates, statement : Statements, acl : Optional(Acls)]

\* In memory the record copies the user_id of its user when it is inserted;
\* PostgreSQL joins it in when the row is read.
CredentialRecord == [username : Usernames, user_id : UserIds]

\* `user_id` is an auxiliary column here: the code stores the username only.
PrincipalRecord == [username : Usernames, user_id : UserIds]

(***************************************************************************)
(* group_members and user_policies are sets of pairs in the code.  Here    *)
(* they map each pair to the user_id that the user had when the row was    *)
(* inserted, an auxiliary column that no action reads.  It tells a user    *)
(* from a later user of the same name.                                     *)
(***************************************************************************)
MembershipKeys == Groups \X Usernames

UserPolicyKeys == Usernames \X Policies

\* `f` is a table: its keys are in K and its rows in R.
IsTable(f, K, R) == /\ DOMAIN f \subseteq K
                    /\ f \in [DOMAIN f -> R]

Put(f, k, v) == [x \in DOMAIN f \cup {k} |-> IF x = k THEN v ELSE f[x]]

Keep(f, S) == [x \in S |-> f[x]]

EmptyTable == [x \in {} |-> None]

Init ==
    /\ users = EmptyTable
    /\ next_user_id = 0
    /\ groups = EmptyTable
    /\ policies = EmptyTable
    /\ group_members = EmptyTable
    /\ user_policies = EmptyTable
    /\ group_policies = {}
    /\ credentials = EmptyTable
    /\ external_principals = EmptyTable

-----------------------------------------------------------------------------
(* Reads. *)

FindUserByEmail(e) == {n \in DOMAIN users : users[n].email = e}

FindUserByExternalId(x) == {n \in DOMAIN users : users[n].external_id = x}

\* The policies a user holds directly or through a group, without duplicates.
ListEffectiveUserPolicies(n) ==
    {p \in DOMAIN policies :
        \/ <<n, p>> \in DOMAIN user_policies
        \/ \E g \in Groups : /\ <<g, n>> \in DOMAIN group_members
                             /\ <<g, p>> \in group_policies}

-----------------------------------------------------------------------------
(* Matching of a create with the stored row of that name (service.rs): a   *)
(* value that the request leaves out does not count.                       *)

SameIfGiven(requested, existing) == requested = None \/ requested = existing

\* Fault: the external id is not compared.
SameUser_IgnoresExternalId(new, existing) ==
    /\ SameIfGiven(new.friendly_name, existing.friendly_name)
    /\ SameIfGiven(new.email, existing.email)

SameUser(new, existing) ==
    /\ SameIfGiven(new.friendly_name, existing.friendly_name)
    /\ SameIfGiven(new.email, existing.email)
    /\ SameIfGiven(new.external_id, existing.external_id)

-----------------------------------------------------------------------------
(* Users. *)

\* Fault: the check of the external id is missing.
UserConflict_NoExternalIdCheck(new) ==
    \/ new.username \in DOMAIN users
    \/ new.email # None /\ FindUserByEmail(new.email) # {}

\* The uniqueness checks of an insert: username, then email, then external id.
UserConflict(new) ==
    \/ new.username \in DOMAIN users
    \/ new.email # None /\ FindUserByEmail(new.email) # {}
    \/ new.external_id # None /\ FindUserByExternalId(new.external_id) # {}

CreateUser(new) ==
    /\ ~UserConflict(new)
    /\ next_user_id < MaxUserId
    /\ next_user_id' = next_user_id + 1
    /\ users' = Put(users, new.username,
                    [user_id |-> next_user_id + 1, email |-> new.email,
                     external_id |-> new.external_id,
                     friendly_name |-> new.friendly_name])
    /\ UNCHANGED <<groups, policies, group_members, user_policies,
                   group_policies, credentials, external_principals>>

\* PostgreSQL draws the identity value before it checks the unique indexes, so
\* a refused insert leaves a gap in the ids; MemStore leaves none.
BurnUserId(new) ==
    /\ UserConflict(new)
    /\ next_user_id < MaxUserId
    /\ next_user_id' = next_user_id + 1
    /\ UNCHANGED <<users, groups, policies, group_members, user_policies,
                   group_policies, credentials, external_principals>>

\* Fault: the credentials of a deleted user stay.
CascadeDeleteUser_KeepsCredentials(n) ==
    /\ group_members' = Keep(group_members,
                             {k \in DOMAIN group_members : k[2] # n})
    /\ user_policies' = Keep(user_policies,
                             {k \in DOMAIN user_policies : k[1] # n})
    /\ external_principals' =
          Keep(external_principals,
               {i \in DOMAIN external_principals :
                    external_principals[i].username # n})
    /\ UNCHANGED credentials

\* The rows that ON DELETE CASCADE removes with a user.
CascadeDeleteUser(n) ==
    /\ group_members' = Keep(group_members,
                             {k \in DOMAIN group_members : k[2] # n})
    /\ user_policies' = Keep(user_policies,
                             {k \in DOMAIN user_policies : k[1] # n})
    /\ credentials' =
          Keep(credentials,
               {k \in DOMAIN credentials : credentials[k].username # n})
    /\ external_principals' =
          Keep(external_principals,
               {i \in DOMAIN external_principals :
                    external_principals[i].username # n})

DeleteUser(n) ==
    /\ n \in DOMAIN users
    /\ users' = Keep(users, DOMAIN users \ {n})
    /\ CascadeDeleteUser(n)
    /\ UNCHANGED <<next_user_id, groups, policies, group_policies>>

SetFriendlyName(n, f) ==
    /\ n \in DOMAIN users
    /\ users' = [users EXCEPT ![n].friendly_name = f]
    /\ UNCHANGED <<next_user_id, groups, policies, group_members,
                   user_policies, group_policies, credentials,
                   external_principals>>

-----------------------------------------------------------------------------
(* Groups and policies. *)

CreateGroup(g, record) ==
    /\ g \notin DOMAIN groups
    /\ groups' = Put(groups, g, record)
    /\ UNCHANGED <<users, next_user_id, policies, group_members,
                   user_policies, group_policies, credentials,
                   external_principals>>

\* Fault: the policies of a deleted group stay.
CascadeDeleteGroup_KeepsPolicies(g) ==
    /\ group_members' = Keep(group_members,
                             {k \in DOMAIN group_members : k[1] # g})
    /\ UNCHANGED group_policies

CascadeDeleteGroup(g) ==
    /\ group_members' = Keep(group_members,
                             {k \in DOMAIN group_members : k[1] # g})
    /\ group_policies' = {k \in group_policies : k[1] # g}

DeleteGroup(g) ==
    /\ g \in DOMAIN groups
    /\ groups' = Keep(groups, DOMAIN groups \ {g})
    /\ CascadeDeleteGroup(g)
    /\ UNCHANGED <<users, next_user_id, policies, user_policies,
                   credentials, external_principals>>

CreatePolicy(p, record) ==
    /\ p \notin DOMAIN policies
    /\ policies' = Put(policies, p, record)
    /\ UNCHANGED <<users, next_user_id, groups, group_members,
                   user_policies, group_policies, credentials,
                   external_principals>>

UpdatePolicy(p, record) ==
    /\ p \in DOMAIN policies
    /\ policies' = [policies EXCEPT ![p] = record]
    /\ UNCHANGED <<users, next_user_id, groups, group_members,
                   user_policies, group_policies, credentials,
                   external_principals>>

\* Fault: the direct attachments of a deleted policy stay.
CascadeDeletePolicy_KeepsUserPolicies(p) ==
    /\ group_policies' = {k \in group_policies : k[2] # p}
    /\ UNCHANGED user_policies

CascadeDeletePolicy(p) ==
    /\ user_policies' = Keep(user_policies,
                             {k \in DOMAIN user_policies : k[2] # p})
    /\ group_policies' = {k \in group_policies : k[2] # p}

DeletePolicy(p) ==
    /\ p \in DOMAIN policies
    /\ policies' = Keep(policies, DOMAIN policies \ {p})
    /\ CascadeDeletePolicy(p)
    /\ UNCHANGED <<users, next_user_id, groups, group_members,
                   credentials, external_principals>>

-----------------------------------------------------------------------------
(* Memberships and attachments.  An insert of an existing row is a no-op   *)
(* that answers success, so it keeps the row as it is.                     *)

AddMembership(g, n) ==
    /\ g \in DOMAIN groups
    /\ n \in DOMAIN users
    /\ <<g, n>> \notin DOMAIN group_members
    /\ group_members' = Put(group_members, <<g, n>>, users[n].user_id)
    /\ UNCHANGED <<users, next_user_id, groups, policies, user_policies,
                   group_policies, credentials, external_principals>>

RemoveMembership(g, n) ==
    /\ <<g, n>> \in DOMAIN group_members
    /\ group_members' = Keep(group_members,
                             DOMAIN group_members \ {<<g, n>>})
    /\ UNCHANGED <<users, next_user_id, groups, policies, user_policies,
                   group_policies, credentials, external_principals>>

AttachPolicyToUser(n, p) ==
    /\ n \in DOMAIN users
    /\ p \in DOMAIN policies
    /\ <<n, p>> \notin DOMAIN user_policies
    /\ user_policies' = Put(user_policies, <<n, p>>, users[n].user_id)
    /\ UNCHANGED <<users, next_user_id, groups, policies, group_members,
                   group_policies, credentials, external_principals>>

DetachPolicyFromUser(n, p) ==
    /\ <<n, p>> \in DOMAIN user_policies
    /\ user_policies' = Keep(user_policies,
                             DOMAIN user_policies \ {<<n, p>>})
    /\ UNCHANGED <<users, next_user_id, groups, policies, group_members,
                   group_policies, credentials, external_principals>>

AttachPolicyToGroup(g, p) ==
    /\ g \in DOMAIN groups
    /\ p \in DOMAIN policies
    /\ <<g, p>> \notin group_policies
    /\ group_policies' = group_policies \cup {<<g, p>>}
    /\ UNCHANGED <<users, next_user_id, groups, policies, group_members,
                   user_policies, credentials, external_principals>>

DetachPolicyFromGroup(g, p) ==
    /\ <<g, p>> \in group_policies
    /\ group_policies' = group_policies \ {<<g, p>>}
    /\ UNCHANGED <<users, next_user_id, groups, policies, group_members,
                   user_policies, credentials, external_principals>>

-----------------------------------------------------------------------------
(* Credentials and external principals. *)

CreateCredential(n, k) ==
    /\ n \in DOMAIN users
    /\ k \notin DOMAIN credentials
    /\ credentials' = Put(credentials, k,
                          [username |-> n, user_id |-> users[n].user_id])
    /\ UNCHANGED <<users, next_user_id, groups, policies, group_members,
                   user_policies, group_policies, external_principals>>

\* Only a credential that belongs to the user of the path is deleted.
DeleteCredential(n, k) ==
    /\ k \in DOMAIN credentials
    /\ credentials[k].username = n
    /\ credentials' = Keep(credentials, DOMAIN credentials \ {k})
    /\ UNCHANGED <<users, next_user_id, groups, policies, group_members,
                   user_policies, group_policies, external_principals>>

CreateExternalPrincipal(n, i) ==
    /\ n \in DOMAIN users
    /\ i \notin DOMAIN external_principals
    /\ external_principals' =
          Put(external_principals, i,
              [username |-> n, user_id |-> users[n].user_id])
    /\ UNCHANGED <<users, next_user_id, groups, policies, group_members,
                   user_policies, group_policies, credentials>>

DeleteExternalPrincipal(n, i) ==
    /\ i \in DOMAIN external_principals
    /\ external_principals[i].username = n
    /\ external_principals' =
          Keep(external_principals, DOMAIN external_principals \ {i})
    /\ UNCHANGED <<users, next_user_id, groups, policies, group_members,
                   user_policies, group_policies, credentials>>

-----------------------------------------------------------------------------

UserNext ==
    \/ \E new \in NewUser : CreateUser(new) \/ BurnUserId(new)
    \/ \E n \in Usernames : DeleteUser(n)
    \/ \E n \in Usernames, f \in FriendlyNames : SetFriendlyName(n, f)

GroupNext ==
    \/ \E g \in Groups, record \in GroupRecord : CreateGroup(g, record)
    \/ \E g \in Groups : DeleteGroup(g)

PolicyNext ==
    \/ \E p \in Policies, record \in PolicyRecord :
          CreatePolicy(p, record) \/ UpdatePolicy(p, record)
    \/ \E p \in Policies : DeletePolicy(p)

AttachmentNext ==
    \/ \E g \in Groups, n \in Usernames :
          AddMembership(g, n) \/ RemoveMembership(g, n)
    \/ \E n \in Usernames, p \in Policies :
          AttachPolicyToUser(n, p) \/ DetachPolicyFromUser(n, p)
    \/ \E g \in Groups, p \in Policies :
          AttachPolicyToGroup(g, p) \/ DetachPolicyFromGroup(g, p)

CredentialNext ==
    \/ \E n \in Usernames, k \in AccessKeys :
          CreateCredential(n, k) \/ DeleteCredential(n, k)
    \/ \E n \in Usernames, i \in Principals :
          CreateExternalPrincipal(n, i) \/ DeleteExternalPrincipal(n, i)

Next ==
    UserNext \/ GroupNext \/ PolicyNext \/ AttachmentNext \/ CredentialNext

Spec == Init /\ [][Next]_vars

-----------------------------------------------------------------------------
(* Properties. *)

\* Every table holds rows of its type under keys of its type.
TypeOK ==
    /\ IsTable(users, Usernames, UserRecord)
    /\ next_user_id \in 0 .. MaxUserId
    /\ IsTable(groups, Groups, GroupRecord)
    /\ IsTable(policies, Policies, PolicyRecord)
    /\ IsTable(group_members, MembershipKeys, UserIds)
    /\ IsTable(user_policies, UserPolicyKeys, UserIds)
    /\ group_policies \subseteq Groups \X Policies
    /\ IsTable(credentials, AccessKeys, CredentialRecord)
    /\ IsTable(external_principals, Principals, PrincipalRecord)

\* No row points at a group or a policy that is gone: the cascades of
\* delete_group and delete_policy reach every table that names them.
ReferentialIntegrity ==
    /\ \A k \in DOMAIN group_members : k[1] \in DOMAIN groups
    /\ \A k \in DOMAIN user_policies : k[2] \in DOMAIN policies
    /\ \A k \in group_policies :
          k[1] \in DOMAIN groups /\ k[2] \in DOMAIN policies

\* A name can be deleted and created again, even for another person.  Every
\* membership, attachment, credential and external principal found under a
\* name was given to the very user that has the name now (the same user_id),
\* never inherited from an earlier user of that name.
NoInheritedGrants ==
    /\ \A k \in DOMAIN group_members :
          k[2] \in DOMAIN users /\ group_members[k] = users[k[2]].user_id
    /\ \A k \in DOMAIN user_policies :
          k[1] \in DOMAIN users /\ user_policies[k] = users[k[1]].user_id
    /\ \A k \in DOMAIN credentials :
          /\ credentials[k].username \in DOMAIN users
          /\ credentials[k].user_id = users[credentials[k].username].user_id
    /\ \A i \in DOMAIN external_principals :
          /\ external_principals[i].username \in DOMAIN users
          /\ external_principals[i].user_id =
                users[external_principals[i].username].user_id

\* The lookups by user_id, email and external id of GET /auth/users have at
\* most one answer, and no id of a present or past user is handed out again.
UniqueIdentities ==
    /\ \A n \in DOMAIN users : users[n].user_id \leq next_user_id
    /\ \A m, n \in DOMAIN users : m # n =>
          /\ users[m].user_id # users[n].user_id
          /\ users[m].email # None => users[m].email # users[n].email
          /\ users[m].external_id # None =>
                users[m].external_id # users[n].external_id

\* What every writer of the tables preserves: store calls (store/mem.rs), the
\* handlers that make several of them, and the bootstrap transaction.
StoreInv ==
    TypeOK /\ ReferentialIntegrity /\ NoInheritedGrants /\ UniqueIdentities

\* Creating a user, a group or a policy, deleting anything, renaming a user or
\* rewriting a policy never gives a user a policy they did not hold: a policy
\* is only gained by a new membership or a new attachment.
PoliciesGainedOnlyByGrant ==
    [][ \A n \in Usernames :
          ListEffectiveUserPolicies(n)' \subseteq ListEffectiveUserPolicies(n)
          \/ ~ /\ DOMAIN group_members' \subseteq DOMAIN group_members
               /\ DOMAIN user_policies' \subseteq DOMAIN user_policies
               /\ group_policies' \subseteq group_policies ]_vars

=============================================================================
