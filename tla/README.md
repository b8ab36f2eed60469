# A TLA+ model of lakefs-auth

lakefs-auth is two servers around lakeFS: `lakefs-authz`, the authorization
server that stores users, groups, policies and credentials and that lakeFS asks
on every request, and `lakefs-authn`, the authentication server that logs people
in through an OpenID Connect provider and provisions their lakeFS users through
the API of the first. This directory models the state these servers keep and the
races in how they change it. TLC checks the models on small instances and TLAPS
proves the main results for every value of the constants.

## The system

| Part | State | Operations | Hard behaviour |
|---|---|---|---|
| Authorization store (`lakefs-authz/src/store`) | users, groups, policies, memberships, attachments, credentials, external principals; an identity column | insert, delete with cascades, attach, detach, lookups, lists; one implementation in memory, one in PostgreSQL | names are reused; unique columns; forgotten cascades; two stores that must answer alike |
| Service handlers (`service.rs`, `handlers/`, `store/pg/mod.rs`) | a request in flight | create with a re-read on conflict, read-then-write update, page-then-owner lists | other requests run between two store calls; backend errors; the 408 of the timeout layer |
| Bootstrap (`bootstrap.rs`, `store/bootstrap.rs`) | a plan, a transaction | insert what is missing | replicas and API calls at the same time, READ COMMITTED, lost commits |
| Pagination (`pagination.rs`) | the cursor of a walk | pages by key, walks over them | rows change between pages; a proxy that answers anything |
| Token id claims (`service.rs`, `cleanup.rs`, `store/pg/tokens.rs`) | claimed ids with their expiry | claim, periodic cleanup in every replica | cleanup against claims, clock lag, the boundary at the expiry |
| Supervisor (`lakefs-auth-core/src/tasks.rs`) | the task it runs, a delay | restart after a return or a panic | a task that stays dead |
| Provisioning (`lakefs-authn/src/provision.rs`, `lakefs-authz-client/src/lib.rs`) | a login task; HTTP requests and replies | lookup, create, read back, create without email, add groups, roll back, retry | concurrent logins, lost replies, late requests, crashes, dropped browsers |
| OpenID Connect keys (`oidc/mod.rs`) | the discovered metadata, the last refresh | scheduled refresh, refresh on an unknown key | key rotation, waiting callbacks, cooldowns |
| Browser and STS login (`routes/`, `lakefs/session.rs`) | three cookies in the browser | login, callback, logout | several tabs, callbacks in any order, timeouts in the middle |
| Session cookie (`lakefs/gob.rs`, `lakefs/securecookie.rs`, `lakefs/jwt.rs`) | none | write what lakeFS reads | length prefixes, sizes and ages at their limits |
| Claims, names, bearer tokens, policy builder (`oidc/claims.rs`, `validate.rs`, `text.rs`, `auth/`, `policy_builder.rs`) | none | parse, flatten, compare, escape, verify | two readers of one value; special characters; settings with blanks |

The provisioner of `lakefs-authn` calls `lakefs-authz` over HTTP; lakeFS reads the
store through the same API and claims token ids; the cleanup task and bootstrap
write to the store directly. `PROJECT.json` lists every part, also those that are
not modelled, the hazards at their source lines, and the map from each definition
to the lines it models.

What makes each part correct: the store never lets a grant outlive the user it was
given to, keeps the columns by which people are found unique, and answers the same in
both implementations; a handler of several calls answers something that was true, and
changes the tables only by single store calls; a bootstrap file is applied whole, adds
only, and grants to the identity it describes; a walk finds the rows that stay exactly
once; a valid token is claimed once, and expired claims go away; a login ends, ends
with its own user, and leaves a user in exactly its own groups; a flow cookie makes one
session; a key rotation at the provider costs one fetch per window and locks nobody out
for good; and what one server writes, the other reads back.

## Modules

| Module | What it models |
|---|---|
| `AuthzStore` | the tables and every store call that changes them, one atomic action each |
| `StoreAnswers` | extends it with what every call answers, in PostgreSQL and in memory, as functions of the tables |
| `AuthzService` | extends `AuthzStore` with the handlers that make several store calls, interleaved with every other request |
| `Bootstrap` | extends `AuthzStore` with the bootstrap transactions of several replicas |
| `Provisioning` | extends `AuthzStore` with login tasks, HTTP requests and replies, and failures |
| `Pages` | keyset pages and the cursor walks of the clients |
| `OneTimeTokens` | abstract: a valid token id is accepted at most once |
| `TokenClaims` | the table of claims, the cleanup tasks and their supervisor; refines `OneTimeTokens` |
| `OidcKeys` | the provider's signing keys: discovery loop, logins, the refresh for an unknown key |
| `LoginFlow` | the routes of the browser and the STS login with the cookies of one browser |
| `SessionCookie`, `TextRules`, `BearerTokens`, `IdentityClaims`, `PolicyBuilder` | pure functions: the session cookie, names and texts, bearer tokens, ID token claims, the builder's write route |
| `Conversions` | hands inputs to those five modules, one at a time |
| `AuthzStoreProofs`, `TwoStoresProofs`, `AuthzServiceProofs`, `RequestProofs`, `OidcKeysProofs`, `LoginFlowProofs`, `PagesProofs`, `ProvisioningProofs` | the theorems |
| `MC...` | small instances for TLC |

**AuthzStore.** A `BTreeMap` of `store/mem.rs`, which is a table with a primary key
in PostgreSQL, is a function whose domain is the set of keys. A store call is one
step: it holds the write lock in memory and is one SQL statement in PostgreSQL.
Calls that answer `NotFound` or `AlreadyExists` change no row and have no action,
except that PostgreSQL spends an identity value on a refused insert
(`BurnUserId`). Memberships, direct attachments and principals carry an auxiliary
`user_id`, the id their user had when they were inserted, which no action reads; it
is what tells a user from a later user of the same name. The bodies of policies, the
secrets and the creation dates of users are not kept.

**StoreAnswers.** The handlers work against the trait `Store`; the API tests run on
`MemStore`, production on `PgStore`. Each call appears twice, as `Pg...` (the SQL
statement, the constraints that refuse it and the error that `convert.rs` makes of the
constraint's name, the owner check of `fetch_owned_page`) and as `Mem...` (the checks
and the map operations in their order). A page query is the set of keys it lets
through. The one difference that the two stores have is stated in
`AlikeButForTheOrder`: a credential or principal whose key is taken and whose user is
missing is refused by both, with different errors.

**AuthzService.** `req[h]` is the request a handler runs and the call it is at.
`create_*` is an insert and, on a conflict, a re-read of the row by its key;
`update_policy` is a read and a write; a list of a user's or a group's rows is a page
and, when the page is empty, a check of the owner. Requests of one call are the
actions of the store (`OtherRequest`). Any call may fail (500), and the timeout layer
may drop a handler between two calls (408). `seen[h]` is auxiliary: what a list or an
update could truthfully have answered at each moment since it began. A list asks for
one page that holds all rows; cursors are the subject of `Pages`.

**Bootstrap.** A file becomes a plan (`parse_plan` with its refusals), a plan a
transaction of one statement per entry. `run[r]` holds the entries still to do and the
rows that the open transaction of replica `r` has inserted. A statement sees the
committed rows and those of its own transaction; an insert waits for an open
transaction that holds the same key; an inserted row keeps the rows it refers to from
being deleted; waiting in a circle makes one of the waiting the victim. A user or a
credential that exists already is read back in a second statement and compared.
Meanwhile the replicas that are up serve API requests. A commit may get no answer, a
statement may fail, and a replica that failed may start again. `ApplyStaged` is the
same plan on the copy of `MemStore`. `deleted` and `alone` are auxiliary.

**Pages.** A key is its place in the byte order. A page is read at one moment, rows are
inserted and deleted between two pages; an answer may be lost and asked for again, and
a proxy may answer any page and any cursor (`StrayAnswer`), after which `honest` is
false and only the end of the walk is promised. Both clients are modelled; they differ
in what they make of a refused request and of a walk that is too long.

**Provisioning.** `login[l].pc` is the call that login `l` waits for. Requests and
replies are in `net`. The server serves a request in its own step (a create in two,
the insert and the re-read), the client continues when it takes the reply. Failures:
a 500 or 408 without effect, a connection that cannot be made, a reply lost before or
after the effect, a request that outlives its client and runs late
(`LateRequests`), a browser that goes away (a login in its lookup ends, a create goes
on in its own task), a crash of the authentication server, and an administrator who
deletes groups. What `derive_username`, `verified_email` and `resolve_groups` make of
the claims is the input `Claims` here; the functions themselves are in `IdentityClaims`.

**TokenClaims.** `now` is the clock by which lakeFS judges a token; a replica may lag
behind it by `Lag[r]`. The cleanup reads its clock in one step and deletes in another.
A delete may fail and a task may panic, a bounded number of times, and the supervisor
starts it again. A replica whose cleanup interval is zero never deletes.

**OidcKeys.** The metadata of a discovery is the set of keys it read. A discovery is
two steps, the provider's read of its key set and the server's publication in
`current`; the loop makes it without a lock, a login behind `last_key_refresh`, a fair
lock with a queue. A login is either route, browser callback or STS: a snapshot of
`current`, the code exchange (which fixes the key its token is signed with), a first
verification, and, for an unknown key, `refresh_for_key_error` and a second one. Times
are ages in ticks, capped at the longest window; the sleeps of the loop have any
length. Fetches fail, the loop panics a bounded number of times, and a client that
goes away drops its handler at any await, with the lock or the place in the queue. The
provider (external) keeps a key as long as a token signed with it is in flight.
`produced`, `since` and `via` are auxiliary and read by no guard.

**LoginFlow.** The server keeps nothing of a login. A request carries the cookies of
the moment it is sent, its answer changes the jar when it arrives, and two connections
share the jar. A login stands for the state, the nonce and the verifier drawn for it;
the provider redeems a code once. The callback decides in one step up to the code
exchange, then waits for the exchange and for the rest (ID token, claims,
provisioning), where every step may fail. The timeout layer answers 408 without
cookies; answers get lost; the server restarts and refuses until discovery has
succeeded. A logout always clears the session, but removes the flow and the ID token
only if its request carried them, as the private cookie jar of axum does
(`LogoutAnswer`). `spent` is auxiliary, and so are the `flow` and the `before` of an
answer: the login that the request is the provider's answer to, and the logins whose
session had come by then. Key rotation and the creation of the user are single choices here and the
subjects of `OidcKeys` and `Provisioning`.

**The functions.** `SessionCookie` keeps the bytes of the gob stream and the parts of
the envelope; base64 adds length only, and a MAC is a value fixed by its key and its
message, which may contain the separator. The other four work on texts of abstract
characters. Each has its properties as operators on one input, and `Conversions` makes
them invariants of a machine that is handed one input per behaviour.

## Runs

| Run | Question | Result |
|---|---|---|
| `store` | do store calls in any order, with names reused, keep references intact, identities unique, grants with their user, and policies gained only by grants; do the two stores answer alike, and the several ways to one row agree? | holds |
| `service_reads` | does a list of two reads answer something that was true at one moment, and is what `update_policy` keeps something that was stored, as one row, before it wrote? | holds |
| `service_creates` | can a create decided by a re-read tell two identities that one user is theirs, or touch a table other than by a store call? | it cannot |
| `bootstrap` | with replicas, API requests, lost commits and restarts: is a file that was applied in the tables, do grants go to the identity it describes, is nothing overwritten, do both stores agree, does every start end? | holds |
| `pages` | are rows that stay found once, does the list's own cursor go forward, does every walk end? | holds |
| `provisioning_races` | without server failures, is every user in exactly its own groups once its logins are over? | holds |
| `provisioning_faults` | under failures, does a login always end, and never with another identity's user? | holds |
| `provisioning_rollback` | does a rollback spare a user that another login finished? | violated |
| `token_claims` | do the claims implement the one-time promise, and do expired claims go away? | holds |
| `oidc_keys` | after a rotation, do logins share one fetch per window, keep the lock's discipline, get served by a fetch of their own, and all end; do the published keys catch up? | holds |
| `login_flow` | with tabs that overwrite each other, replayed and foreign callbacks, timeouts and restarts: is a flow used once and in time, cancelled only by its own callback or a logout, does a session end with the ID token that was there when its logout was sent, does every request end? | holds |
| `conversions` | do sessions, names, claims, bearer tokens and the builder's answers mean the same to the one who writes and the one who reads? | holds |

An invariant of a run is often a conjunction of named parts, each with its comment in
the module: `StoreInv` (types, `ReferentialIntegrity`, `NoInheritedGrants`,
`UniqueIdentities`), `BootInv` (types, `StoreInv`), `ServiceInv` (types,
`KeptFieldsWereStored`),
`ProvInv` (types and retries, `SessionIsOwn`), `KeysInv` (types, `LockDiscipline`),
`PagesInv` (types and bounds, `HonestCursorAdvances`), `RowsFoundOnce`
(`NoStayingRowMissed`, `NoRowTwice`), `LoginInv` (types, `FlowUsedOnce`),
and the five of `Conversions`.

### Where the code and its comments disagree

`provisioning_rollback` shows one of them: the server answers 201 when a create repeats
an existing user, so the 409 by which the client means to learn of a concurrent login
does not come; both logins act as the creator (`lakefs-authz-client/src/lib.rs:294-313`),
and either may roll back, which deletes the user that the other has finished.

The modules state others, which TLC refutes with the constants named here:

* `OmittedFieldsKept` (constants of `service_reads`): `update_policy` writes back what
  it read, so a concurrent update of the `acl` or the creation date is undone
  (`service.rs:232-234`).
* `NoUserWithoutGroups` (`provisioning_races` with `MaxLost = 1`): a create whose reply
  is lost is neither completed nor rolled back, and a later login does not repair it.
* `GroupsAreOwn` (`provisioning_rollback` with three logins): memberships go by
  username. After a rollback the name may go to another identity, which a login that is
  still adding groups then puts into its own group.
* `WaitersServed` (`oidc_keys`): a login that waited for a key refresh reads `current`,
  not what the refresh produced. A scheduled discovery that read the keys before the
  rotation may publish them after the refresh (`oidc/mod.rs:154`, `oidc/mod.rs:207`).
* `NoGrantToSomeoneElse` (`bootstrap`): under READ COMMITTED an API request can delete
  and re-create a user between the check of its identity and the grants
  (`store/bootstrap.rs`, `store/pg/mod.rs:214`). `GrantsToDescribedUser` is what holds.
* `EveryFailureConsumesFlow` (`login_flow`): the 408 of the timeout layer is a failure
  after the state check that leaves the flow cookie in place.
* `IdTokenAsLongAsSession` (`login_flow`): the ID token is to be kept "for as long as the
  session itself" (`lakefs/session.rs:96-97`). A logout that is sent while a callback
  waits carries no ID token and so removes none (`routes/browser.rs:249`). If its answer
  arrives after that of the callback, the session goes (`routes/browser.rs:252`) and the
  ID token stays. `IdTokenEndsWithSession` is what holds: there is no other way.
* `UnfitTokenLeavesNone` (`login_flow`): after a login whose ID token does not fit its
  cookie, logout is to behave "as if no ID token existed" (`lakefs/session.rs:99-100`).
  The login removes none either (`routes/browser.rs:108`), so the next logout sends the
  one of the login before.

### Bounds

* `store`: two usernames, because the unique columns need two rows to clash; one
  email, external id, policy, key and principal; two groups, so that the effective
  policies come from several; three identity values, so that a name is deleted and
  created again after an id was burnt; one policy body, since no property of this
  run looks into it (`service_reads` has several). Usernames and groups are symmetric.
* `service_*`: one handler, since what a second one does to the tables is a step of
  `OtherRequest` too; two for the property that compares two answers. Each run
  enables the operations its property is about. `service_reads` has no access keys:
  the list of credentials has the shape of the list of principals, and the theorem
  covers both.
* `bootstrap`: two replicas and six pairs of files: the same person twice, the same
  policies in two orders (the two wait in a circle), another identity under the same
  username and key, a group that nobody creates, files that are refused, empty or
  absent; one restart, two API requests (a delete and a re-create).
* `pages`: five keys, one outside the prefix, pages of one to three rows, walks of at
  most three pages, two attempts per request: a walk completes, meets a deleted cursor
  row, and is cut.
* `provisioning_races`: three logins, two of one identity, the third with the same
  email, two groups. `provisioning_faults`: two identities that derive one username,
  one server error, two lost messages, one crash, late requests. One retry per call:
  a second retry repeats the same step.
* `token_claims`: two tokens that expire at different times, three replicas (exact,
  one tick behind, cleanup off), a clock that runs past the last expiry by the
  largest lag, two failures.
* `oidc_keys`: two logins (one fetches, one waits); two keys, one rotation; windows of
  two ticks after a success and one after a failure, so that the two differ; one panic
  of the loop. Logins start again, so the run does not bound their number.
* `login_flow`: two connections and two logins, one with an ID token that fits its
  cookie and one without; a flow and a request last one tick each, and time three
  ticks, so that both run out.
* `conversions`: texts of up to three to five characters over the characters the code
  treats specially; lengths on both sides of every change of the gob length prefix, of
  the cookie limit and of the username limit; ages at each limit and one second off.

Deadlock is not checked where the system may rest: in the provisioning runs when every
login has ended, in `bootstrap` and `pages` when the runs or the walk have ended, in
`login_flow` when the bounded time is used up, in `conversions` after the one input.

### Fairness

`Provisioning` has weak fairness on the steps of the server and of each login: both
run on tokio, which polls every task that can make progress, and a request always
gets an answer or is lost (a lost one is a failure step). `TokenClaims` has weak
fairness on the clock and on each replica's cleanup and its supervisor: the ticker
fires for ever and the supervisor restarts for ever. Failures have no fairness.
`OidcKeys` has weak fairness on each login, on the loop's timer and on its supervisor,
since every request to the provider has a timeout, and strong fairness on the loop's
two steps of a discovery: a loop that tries for ever meets a provider that answers.
`Bootstrap` has weak fairness on the steps of a replica, with the deadlock detection of
PostgreSQL among them; restarts, errors and API requests have none. `Pages` has weak
fairness on an answer to a request, from the list or from something else, and on the
client that goes on. `LoginFlow` has weak fairness on time, on the timeout layer and on
the delivery of answers; the provider and the authorization server have none, since
`EveryRequestEnds` is about their silence. The store and the service have none and
claim no liveness.

### Mutants

Each property that holds is paired in `PROJECT.json` with a faulty version of a
modelled operation (definitions whose comment begins with "Fault") that violates it,
and a conjunction with one for each of its parts: a cascade that forgets a table, a
missing uniqueness check, an owner that is not checked, a cutoff one tick early, a
cursor that is the extra row, a flow that a successful login keeps.

## Theorems

Constants are arbitrary sets; the assumptions are that marks such as `None` and `Keep`
are no values and differ from each other, that the bounds and windows are natural
numbers, that the keys of a list are finitely many positive numbers (their order is
all that counts), that a default page is not empty and not above the maximum, and, for
the tokens, that no clock runs ahead of lakeFS. A bootstrap file is one that
deserializes (`WellFormed`: lists, and optional texts that may be blank) and there is at
least one date. The inputs of `Conversions` are texts, lists and numbers of the kind the
parsers before them deliver; a codec with the same key makes the same MACs; lakeFS answers a policy with 201 and a body, with another
status, or not at all; and a configured post-login URL that is relative is a path of
this server, as the default `/` is. The code does not validate the last one: it is the
operator's setting.

* `AuthzStoreProofs!TypeCorrect`, `StoreCorrect`: `StoreInv` (types, referential
  integrity, no inherited grants, unique identities) is inductive. The parts need each
  other: that a deleted user takes the rows along is only enough because every row
  names a user that exists, and a fresh id differs from all others only because every
  id is at most the counter. `NoDanglingReference`, `NothingInherited` and
  `IdentitiesUnique` are its parts.
* `AuthzStoreProofs!GainsAreGrants`: an action property. A step that adds no
  membership and no attachment adds no effective policy. It rests on referential
  integrity: a new policy would otherwise revive an attachment that outlived it.
* `TwoStoresProofs!ReadsAnswerAlike`, `WritesAnswerAlike`: in every reachable state
  the two stores answer alike. Both are consequences of `StoreInv`, call by call: a page
  with rows proves its owner, and the joins of the SQL drop nothing, only because no
  row refers to something that is gone; the constraint that PostgreSQL reports names
  the reference that `MemStore` misses first.
* `TwoStoresProofs!LookupsFindOneRow`: the several ways to one row agree. Again a
  consequence of `StoreInv`: identities are unique, so a lookup finds at most one row
  (`LookupFinds`), and a credential or a principal names a user that exists, so what is
  listed for a user is what can be got and deleted under its name (`CredentialWays`,
  `PrincipalWays`).
* `TwoStoresProofs!BootstrapCorrect`, `OnlyAdds`, `EveryEntryApplied`,
  `GrantsAsDescribed`: for any number of replicas, files, restarts and API requests, the
  tables stay correct, a bootstrap changes and removes no row of others, a committed run
  has applied every entry of its file except what the API deleted meanwhile, and it
  grants only to the user its file describes. They follow from `BootIInv`
  (`BootInvariant`): the tables satisfy `StoreInv` for the committed rows (`TablesOk`), a
  run holds a plan that its file can become (`RunOk`), its uncommitted rows fit the tables
  and each other and are apart from those of other runs, since it holds the locks on
  their keys (`OwnOk`), and every entry before the current one is done (`ProgressOk`).
  None of the four is inductive alone: a commit keeps unique identities only because of
  the locks, and an entry that was skipped stays done only because whatever made it
  superfluous can be lost only by a delete that `deleted` records.
* `TwoStoresProofs!TwoStoresAgree`: a bootstrap that nobody disturbs leaves the tables in
  PostgreSQL as `MemStore` would. `MemStore` stages the whole plan on a copy, PostgreSQL
  inserts row by row, so the invariant has to say that the tables together with the rows
  of the run are the staged copy after the entries done so far (`StagedOk`). That
  `ApplyStaged` gives such a copy after every entry (`StagingExists`) is an induction over
  the plan.
* `AuthzServiceProofs!ServiceImplementsStore`: the handlers implement the store
  (`RequestInv`: bodies are well formed, and the row an update read is a policy), so
  `StoreInv` holds for any number of interleaved requests (`ServiceKeepsStoreInv`).
* `AuthzServiceProofs!ListsAnswerTrue`: the two reads of a list answer one moment.
  The invariant `ListInv` adds that while a list waits for its owner check, an owner
  that exists has had an empty page since the request began. It is inductive because
  rows prove their owner (`RowsProveOwner`) and because an owner that appears has no
  rows yet (`NewOwnerEmpty`), which are both consequences of `StoreInv`.
* `AuthzServiceProofs!UpdatesKeepOneVersion`: an update keeps one stored version.
  `KeptInv` adds that the row an update has read, and not yet written, was stored at a
  moment of the request; the write takes both fields from it.
* `AuthzServiceProofs!CreatesAgreeOnIdentity`: two creates that are told of one user
  agree on who it is. The property only compares answers; `ToldInv` has to tie each
  answer to the tables: the `user_id` it names stands for one email and one external id,
  in the tables and in all other answers, and was handed out before. That is inductive
  because no step changes the identity of a row and a new row takes an id above the
  counter (`IdentityStep`).
* `RequestProofs!TypeCorrect`, `ClaimsAreSingleUse`: the table with its cleanups
  refines `OneTimeTokens` under the mapping to the claims of tokens that are still
  valid. The invariant is that a claim keeps its expiry and that no cutoff is ahead of
  the clock.
* `RequestProofs!BearersPass`: servers with the same settings understand each other, and
  no other token passes, for every secret, static token, header and clock skew. One side
  trims a setting that the other has already trimmed, so it rests on trimming twice being
  trimming once (`NonBlankAgain`).
* `RequestProofs!BuilderReportsTruth`: the page is told what really happened, for every
  request and answer. Every path through the route either ends before lakeFS is asked
  (`TurnedAway`) or is a request of the caller's session whose answer is passed on (`Sent`);
  `RouteFacts` goes through the early returns in their order.
* `RequestProofs!NamesKeepTheirMeaning`: the pattern that a prefix becomes matches exactly
  the names that begin with it, for any text. `LIKE` reads from left to right;
  `ReadsPrefix` says that after the escaped form of the first characters exactly those
  names are left that begin with them. An accepted identifier names its own entity in a
  path (`PathsKeepNames`), and a login ends where it may (`AcceptedPathIsOwn`).
* `RequestProofs!RequirementsMeanTheSame`, `UnverifiedEmailsUnused`: parts of
  `ClaimsMeanTheSame`. Both enforcers of the required claims refuse the same logins
  (`FlattenShape` gives the forms a flattened claim has), and no unverified email is a
  name or an address of a user, wherever the list of name claims has it.
* `RequestProofs!SealsHold`: a part of `SessionsWork`. A sealed session cookie opens with
  its own key, under its own name and until its age limit, and not otherwise, nor with
  one of its parts missing, for every content and every MAC, one with separators
  included. Which items a damaged envelope splits into depends on what was lost; each way
  leaves fewer than three parts, a MAC of the wrong length, or a message of the wrong
  length (`DamageShows`).
* `OidcKeysProofs!FetchesAreApart`: an action property, from the invariant `WindowInv`
  (`WindowInvariant`). A refresh can look only at `last_key_refresh`, which a failed
  refresh overwrites. No failure hides a success younger than the window (`Recorded`)
  because nothing is fetched inside the window (`QuietWindow`), and that holds because
  the lock keeps two fetches apart (`OneFetcher`); none of the three is inductive alone.
* `OidcKeysProofs!LockIsDisciplined`, `OwnRefreshIsServed`: from `RefreshInv`, which adds
  to `WindowInv` that the queue holds exactly the waiting logins, each once, also when
  one leaves from its middle (`WithoutOne`), and that the provider serves the key of
  every token in flight, so that the answer to an own refresh knows it (`ServedInv`).
* `LoginFlowProofs!FlowsAreUsedOnce`, `LoginsAreNotCancelled`, `SessionsComeInTime`,
  `IdTokensEndWithSessions`: from `FlowInv` (`FlowInvariant`) and `OnceInv`. What the jar holds depends on the answers that are still
  on their way, so the invariant says of each what it may carry (`AnswerInv`: a new flow
  has no code yet and is in one answer only; a session comes with the end of its flow,
  an ID token only with its session) and of each waiting handler since when and for which login it
  waits (`HandlerInv`). A used flow stays out of the jar because its code is redeemed and
  the code of a flow that an answer sets is not. `OnceInv` (`SessionsComeOnce`) adds that
  the session of a login is on its way once and never after it has come, since its code
  is redeemed once; so the ID token that a logout did not find cannot be one whose
  session had come before the logout was sent.
* `PagesProofs!CursorsAdvance`, `RowsAreFoundOnce`: from `PageWalkInv`
  (`PageWalkInvariant`). A page is cut out of the list so that it is closed downwards
  (`FirstKeys`, `FirstIsFull`); hence it holds everything between the cursor that was
  sent and the one it answers (`ListPage`). The invariant remembers this for the page on
  its way (`PageOk`), for the rows that stay: inserts and deletes after the read cannot
  break it. `SmallestKey` and `LargestKey` replace the induction over the keys by the
  well-foundedness of the naturals and by the rank of a key in a finite set.
* `ProvisioningProofs!LoginsEndWithTheirUser`, `LoginsKeepTheStore`: from
  `ProvisioningInv` (`ProvisioningInvariant`), under every fault at once: `StoreInv`, and
  `TasksInv`, which says that the request a login waits for is of the operation of its
  place, though requests of calls it has given up are still around, and that the row in
  a reply to a lookup or a create is of the identity that asked, also when the server
  found it on its second look. As every server step is a step of the store, the theorems
  about `AuthzStore` hold of the logins.
* `ProvisioningProofs!MembershipsAreOwn`, `UsersGetTheirGroups`: under `Calm` (no error of
  the server, nothing lost, no crash; browsers may go away, requests may outlive them,
  groups may be deleted) and, for the second, when the logins of one identity bring the
  same groups (`SameGroups`). Without `Calm` both are false: a crash leaves a user without
  groups, and after one server error a login whose user another one rolled back adds its
  groups to whoever has the name next. The invariant `CalmInv` (`CalmInvariant`) follows
  a user from its creation: no user is deleted, and one login answers for it, because its
  reply is on its way, or it is adding the groups one after the other, or it has added
  all that exist. The reply finds its login waiting since a call has one request
  (`OneRequest`) and a browser that goes away does not end the task that creates.

The induction theorems of the library are out of the provers' reach. Where a theorem is
about every length of a text or a plan, the proof takes the smallest position at which the
claim fails, which the well-foundedness of the naturals gives, and derives it there from
the position before. That works for recursive functions, whose equation the provers can
use (`StagingExists`, `ReadsPrefix`), not for folds.

Only model-checked: liveness (`EveryLoginEnds`, `ExpiredClaimsRemoved`, `LoginsEnd`,
`KeysCatchUp`, `EveryRunEnds`, `WalkEnds`, `EveryRequestEnds`), which is out of the
prover's reach; the other parts of `SessionsWork` (`GobCorrect`, `SessionTtlKept`,
`EveryNameFits`) and of `ClaimsMeanTheSame` (`SettingsReadBack`, `GroupsAgree`), whose
encoders and splitters fold over and filter sequences, about which the provers know
nothing.

## Not modelled

* Cryptography itself: MACs, signatures, sealed secrets, password hashes and the
  generation of keys. A MAC or a signature is an opaque value that fits its key.
* The policy catalog, a table of constants; the web pages; the wording of errors.
* The flags of the configuration with their defaults, and the reading of files. The
  parsers with rules of their own are in `IdentityClaims`, `TextRules` and
  `SessionCookie`.
* Metrics, telemetry and the wiring in `main`: they count and log, and nothing reads
  them back.
* The length of the supervisor's delays and its abort, which happens only when the
  process ends.
* The texts of the authorize and the logout URL; a library builds them.
* Serialization failures of PostgreSQL, which READ COMMITTED does not raise, and
  the isolation between the two reads of one list inside PostgreSQL, which is what
  `AuthzService` interleaves.
