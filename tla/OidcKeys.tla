------------------------------ MODULE OidcKeys ------------------------------
(***************************************************************************)
(* The signing keys of the identity provider as the login server keeps     *)
(* them (oidc/mod.rs, oidc/discovery.rs), while the provider rotates them. *)
(* Three kinds of tasks share them:                                        *)
(*                                                                         *)
(*   the discovery loop, started again by its supervisor, fetches the keys *)
(*       and publishes them in `current`, taking no lock around the fetch  *)
(*   a login (the browser callback or the STS login) takes a snapshot of   *)
(*       `current`, exchanges its code, and verifies the ID token          *)
(*   a login that meets an unknown key refreshes the keys behind the lock  *)
(*       `last_key_refresh`, at most once per window, and verifies again   *)
(*                                                                         *)
(* The metadata of one discovery is the set of keys it read.  A handler    *)
(* whose client goes away is dropped at the await it is in, which gives    *)
(* its lock or its place in the lock's queue back.                         *)
(***************************************************************************)
EXTENDS Integers, Sequences, FiniteSets

CONSTANTS
    Logins,                 \* logins in flight at the same time
    MaxKey,                 \* bound: keys the provider ever signs with
    MinRefreshInterval,     \* min_refresh_interval, in ticks
    FailedRefreshCooldown,  \* failed_refresh_cooldown, in ticks
    MaxPanics,              \* bound: panics of the discovery loop
    None

ASSUME IntervalsAssumption ==
    /\ MinRefreshInterval \in Nat
    /\ FailedRefreshCooldown \in Nat

ASSUME KeysAssumption == MaxKey \in Nat \ {0} /\ MaxPanics \in Nat

ASSUME NoneAssumption ==
    /\ None \notin Logins
    /\ None \notin [age : Nat, succeeded : BOOLEAN]
    /\ None \notin {"wait", "shared", "own"}

VARIABLES
    signing,            \* provider: the key it signs with
    serving,            \* provider: the keys of its JWKS
    current,            \* the published keys, {} before the first discovery
    lock,               \* holder of the lock on last_key_refresh, or None
    queue,              \* the logins that wait for it, in order
    last_key_refresh,   \* None, or its age and whether it succeeded
    login,              \* login[c]: how far login c is
    loop,               \* the discovery loop
    panics,             \* panics of the loop so far
    produced,           \* auxiliary: keys the last key refresh produced
    since               \* auxiliary: age of the last successful key refresh

provider == <<signing, serving>>
refresh == <<lock, queue, last_key_refresh>>
ghosts == <<produced, since>>
keyVars == <<signing, serving, current, lock, queue, last_key_refresh,
             login, loop, panics, produced, since>>

Keys == 1 .. MaxKey

-----------------------------------------------------------------------------
(* Logins. *)

\* `keys` is the metadata the login verifies with: its snapshot of current,
\* then what refresh_for_key_error fetched.  `via` is auxiliary: "wait" when
\* a refresh was running as the login asked for one, and at the end "shared"
\* or "own" for the refresh that gave it its keys.
Login(phase, keys, outcome) ==
    [phase |-> phase, key |-> None, keys |-> keys, outcome |-> outcome,
     via |-> None]

Idle == Login("idle", {}, None)

End(outcome) == Login("done", {}, outcome)

Set(c, l) == login' = [login EXCEPT ![c] = l]

\* The token is verified again with the keys of the refresh.  A known key
\* leaves the other checks (the nonce, the claims), which may refuse it.
VerifyAgain(c, keys, via, outcome) ==
    /\ outcome \in IF login[c].key \in keys
                   THEN {"accepted", "refused"} ELSE {"unknown_key"}
    /\ Set(c, [End(outcome) EXCEPT !.via = via])

Outcomes == {"accepted", "refused", "unknown_key"}

InFlight == {c \in Logins : login[c].phase \notin {"idle", "done"}}

Init ==
    /\ signing = 1
    /\ serving = {1}
    /\ current = {}
    /\ lock = None
    /\ queue = <<>>
    /\ last_key_refresh = None
    /\ login = [c \in Logins |-> Idle]
    /\ loop = [phase |-> "fetching", keys |-> {}]
    /\ panics = 0
    /\ produced = {}
    /\ since = MinRefreshInterval

-----------------------------------------------------------------------------
(* The identity provider: it publishes a new key together with signing     *)
(* with it, and retires an old one when no token in flight needs it.       *)

Rotate ==
    /\ signing < MaxKey
    /\ signing' = signing + 1
    /\ serving' = serving \cup {signing + 1}
    /\ UNCHANGED <<current, refresh, login, loop, panics, ghosts>>

Retire ==
    /\ \E k \in serving \ {signing} :
          /\ \A c \in InFlight : login[c].key # k
          /\ serving' = serving \ {k}
    /\ UNCHANGED <<signing, current, refresh, login, loop, panics, ghosts>>

-----------------------------------------------------------------------------
(* The discovery loop. *)

\* discover, as the provider sees it: the JWKS is read ...
LoopReads ==
    /\ loop.phase = "fetching"
    /\ loop' = [phase |-> "answered", keys |-> serving]
    /\ UNCHANGED <<provider, current, refresh, login, panics, ghosts>>

\* ... and as the server sees it: the answer is published.
LoopPublishes ==
    /\ loop.phase = "answered"
    /\ current' = loop.keys
    /\ loop' = [phase |-> "asleep", keys |-> {}]
    /\ UNCHANGED <<provider, refresh, login, panics, ghosts>>

\* A failed discovery keeps the previous keys.
LoopFails ==
    /\ loop.phase \in {"fetching", "answered"}
    /\ loop' = [phase |-> "asleep", keys |-> {}]
    /\ UNCHANGED <<provider, current, refresh, login, panics, ghosts>>

\* The end of the backoff, or of the refresh interval.
LoopWakes ==
    /\ loop.phase = "asleep"
    /\ loop' = [loop EXCEPT !.phase = "fetching"]
    /\ UNCHANGED <<provider, current, refresh, login, panics, ghosts>>

LoopPanics ==
    /\ loop.phase # "ended"
    /\ panics < MaxPanics
    /\ panics' = panics + 1
    /\ loop' = [phase |-> "ended", keys |-> {}]
    /\ UNCHANGED <<provider, current, refresh, login, ghosts>>

\* Fault: the end of the loop goes unnoticed.
Supervise_GivesUp ==
    /\ loop.phase = "ended"
    /\ UNCHANGED keyVars

\* supervise: the loop is started again, with a discovery first.
Supervise ==
    /\ loop.phase = "ended"
    /\ loop' = [phase |-> "fetching", keys |-> {}]
    /\ UNCHANGED <<provider, current, refresh, login, panics, ghosts>>

-----------------------------------------------------------------------------
(* A login. *)

\* The server must be ready; the snapshot is taken before the code exchange.
Begin(c) ==
    /\ login[c].phase = "idle"
    /\ Set(c, IF current = {}
              THEN End("not_ready")
              ELSE Login("exchanging", current, None))
    /\ UNCHANGED <<provider, current, refresh, loop, panics, ghosts>>

\* exchange_code: a token signed with the provider's key of that moment, or
\* an error.
ExchangeCode(c) ==
    /\ login[c].phase = "exchanging"
    /\ \/ Set(c, [login[c] EXCEPT !.phase = "verifying", !.key = signing])
       \/ Set(c, End("refused"))
    /\ UNCHANGED <<provider, current, refresh, loop, panics, ghosts>>

\* verify_id_token, first verification: an unknown key asks for a refresh; any
\* other defect of the response or the token is final.
VerifyIdToken(c) ==
    /\ login[c].phase = "verifying"
    /\ \/ Set(c, End("refused")) /\ UNCHANGED queue
       \/ /\ login[c].key \in login[c].keys
          /\ Set(c, End("accepted"))
          /\ UNCHANGED queue
       \/ /\ login[c].key \notin login[c].keys
          /\ Set(c, [login[c] EXCEPT
                        !.phase = "waiting",
                        !.via = IF lock # None THEN "wait" ELSE None])
          /\ queue' = Append(queue, c)
    /\ UNCHANGED <<provider, current, lock, last_key_refresh, loop, panics,
                   ghosts>>

Hold(previous) ==
    IF previous.succeeded
    THEN MinRefreshInterval
    ELSE IF FailedRefreshCooldown < MinRefreshInterval
         THEN FailedRefreshCooldown ELSE MinRefreshInterval

HeldOff ==
    /\ last_key_refresh # None
    /\ last_key_refresh.age < Hold(last_key_refresh)

GetsLock(c) ==
    /\ login[c].phase = "waiting"
    /\ lock = None
    /\ queue # <<>> /\ Head(queue) = c

\* refresh_for_key_error inside the window: nothing is fetched.
RefreshHeldOff(c) ==
    /\ GetsLock(c)
    /\ HeldOff
    /\ \/ /\ last_key_refresh.succeeded
          /\ LET via == IF login[c].via = "wait" THEN "shared" ELSE None
             IN \E outcome \in Outcomes : VerifyAgain(c, current, via, outcome)
       \/ ~last_key_refresh.succeeded /\ Set(c, End("unknown_key"))
    /\ queue' = Tail(queue)
    /\ UNCHANGED <<provider, current, lock, last_key_refresh, loop, panics,
                   ghosts>>

\* Fault: the window is not looked at again once the lock is there.
RefreshStarts_Unchecked(c) ==
    /\ GetsLock(c)
    /\ lock' = c
    /\ queue' = Tail(queue)
    /\ Set(c, [login[c] EXCEPT !.phase = "fetching"])
    /\ UNCHANGED <<provider, current, last_key_refresh, loop, panics, ghosts>>

\* refresh_for_key_error outside the window: the lock is held over the fetch.
RefreshStarts(c) ==
    /\ GetsLock(c)
    /\ ~HeldOff
    /\ lock' = c
    /\ queue' = Tail(queue)
    /\ Set(c, [login[c] EXCEPT !.phase = "fetching"])
    /\ UNCHANGED <<provider, current, last_key_refresh, loop, panics, ghosts>>

\* Fault: the second verification uses the snapshot of the first.
RefreshReads_KeepsSnapshot(c) ==
    /\ login[c].phase = "fetching"
    /\ Set(c, [login[c] EXCEPT !.phase = "answered"])
    /\ UNCHANGED <<provider, current, refresh, loop, panics, ghosts>>

RefreshReads(c) ==
    /\ login[c].phase = "fetching"
    /\ Set(c, [login[c] EXCEPT !.phase = "answered", !.keys = serving])
    /\ UNCHANGED <<provider, current, refresh, loop, panics, ghosts>>

\* The answer is published, the refresh recorded, the lock given back, and the
\* token verified with the new keys.
RefreshEnds(c) ==
    /\ login[c].phase = "answered"
    /\ current' = login[c].keys
    /\ last_key_refresh' = [age |-> 0, succeeded |-> TRUE]
    /\ lock' = None
    /\ \E outcome \in Outcomes : VerifyAgain(c, login[c].keys, "own", outcome)
    /\ produced' = login[c].keys
    /\ since' = 0
    /\ UNCHANGED <<provider, queue, loop, panics>>

\* Fault: a failed refresh returns with the lock still taken.
RefreshFails_KeepsLock(c) ==
    /\ login[c].phase \in {"fetching", "answered"}
    /\ last_key_refresh' = [age |-> 0, succeeded |-> FALSE]
    /\ Set(c, End("unknown_key"))
    /\ UNCHANGED <<provider, current, lock, queue, loop, panics, ghosts>>

\* A refresh that fails is recorded too, and the login is refused.
RefreshFails(c) ==
    /\ login[c].phase \in {"fetching", "answered"}
    /\ last_key_refresh' = [age |-> 0, succeeded |-> FALSE]
    /\ lock' = None
    /\ Set(c, End("unknown_key"))
    /\ UNCHANGED <<provider, current, queue, loop, panics, ghosts>>

\* A dropped wait for the lock leaves its queue.
QueueWithout(c) ==
    IF \E i \in DOMAIN queue : queue[i] = c
    THEN LET i == CHOOSE i \in DOMAIN queue : queue[i] = c
         IN SubSeq(queue, 1, i - 1) \o SubSeq(queue, i + 1, Len(queue))
    ELSE queue

\* Fault: a handler that is dropped leaves the refresh marked as running.
Disconnect_KeepsLock(c) ==
    /\ c \in InFlight
    /\ Set(c, End("gone"))
    /\ queue' = QueueWithout(c)
    /\ UNCHANGED <<provider, current, lock, last_key_refresh, loop, panics,
                   ghosts>>

\* The client goes away and its handler is dropped where it waits.
Disconnect(c) ==
    /\ c \in InFlight
    /\ Set(c, End("gone"))
    /\ lock' = IF lock = c THEN None ELSE lock
    /\ queue' = QueueWithout(c)
    /\ UNCHANGED <<provider, current, last_key_refresh, loop, panics, ghosts>>

\* The next login of this slot.
Again(c) ==
    /\ login[c].phase = "done"
    /\ Set(c, Idle)
    /\ UNCHANGED <<provider, current, refresh, loop, panics, ghosts>>

-----------------------------------------------------------------------------
(* Time.  No age beyond the longest window is told apart from it. *)

\* Fault: ages are not capped.
Older_Uncapped(age) == age + 1

Older(age) == IF age < MinRefreshInterval THEN age + 1 ELSE age

Tick ==
    /\ last_key_refresh' =
          IF last_key_refresh = None THEN None
          ELSE [last_key_refresh EXCEPT !.age = Older(@)]
    /\ since' = Older(since)
    /\ UNCHANGED <<provider, current, lock, queue, login, loop, panics,
                   produced>>

Loop == LoopReads \/ LoopPublishes \/ LoopWakes \/ Supervise

Refresh(c) ==
    \/ RefreshHeldOff(c) \/ RefreshStarts(c) \/ RefreshReads(c)
    \/ RefreshEnds(c) \/ RefreshFails(c)

Progress(c) == ExchangeCode(c) \/ VerifyIdToken(c) \/ Refresh(c)

Next ==
    \/ Rotate \/ Retire \/ Tick
    \/ Loop \/ LoopFails \/ LoopPanics
    \/ \E c \in Logins :
          Begin(c) \/ Progress(c) \/ Disconnect(c) \/ Again(c)

\* The runtime runs every task that can go on, requests to the provider have
\* a timeout, and a loop that tries for ever meets a provider that answers.
Fairness ==
    /\ WF_keyVars(LoopWakes) /\ WF_keyVars(Supervise)
    /\ SF_keyVars(LoopReads) /\ SF_keyVars(LoopPublishes)
    /\ \A c \in Logins : WF_keyVars(Progress(c))

Spec == Init /\ [][Next]_keyVars /\ Fairness

-----------------------------------------------------------------------------
(* Properties. *)

Fetching(c) == login[c].phase \in {"fetching", "answered"}

\* Logins, keys and ages are what their types say.
KeysTypeOK ==
    /\ signing \in Keys
    /\ serving \subseteq Keys
    /\ current \subseteq Keys
    /\ lock \in Logins \cup {None}
    /\ queue \in Seq(Logins)
    /\ last_key_refresh \in
          [age : 0 .. MinRefreshInterval, succeeded : BOOLEAN] \cup {None}
    /\ login \in
          [Logins -> [phase : {"idle", "exchanging", "verifying", "waiting",
                               "fetching", "answered", "done"},
                      key : Keys \cup {None},
                      keys : SUBSET Keys,
                      outcome : {None, "not_ready", "accepted", "refused",
                                 "unknown_key", "gone"},
                      via : {None, "wait", "shared", "own"}]]
    /\ loop \in [phase : {"fetching", "answered", "asleep", "ended"},
                 keys : SUBSET Keys]
    /\ panics \in 0 .. MaxPanics
    /\ produced \subseteq Keys
    /\ since \in 0 .. MinRefreshInterval

\* However logins end (served, failed or dropped with their connection), the
\* lock is held by the one login that fetches, and the queue holds exactly the
\* logins that wait, each once.
LockDiscipline ==
    /\ \A c \in Logins : Fetching(c) <=> lock = c
    /\ \A c \in Logins :
          login[c].phase = "waiting" <=> \E i \in DOMAIN queue : queue[i] = c
    /\ \A i, j \in DOMAIN queue : queue[i] = queue[j] => i = j

\* The state invariant of the refresh for an unknown key (refresh_for_key_error):
\* types, and the discipline of its lock.
KeysInv == KeysTypeOK /\ LockDiscipline

\* A burst of logins after a rotation costs the provider one fetch: no login
\* starts a key refresh while one that succeeded is younger than
\* min_refresh_interval, whoever made it and whatever failed since.
OneFetchPerWindow ==
    [][\A c \in Logins :
          login[c].phase = "waiting" /\ login'[c].phase = "fetching"
              => since >= MinRefreshInterval]_keyVars

\* A login that fetched the keys itself is not refused for an unknown key: its
\* token was signed with a key the provider serves as long as the login runs.
OwnRefreshServes ==
    \A c \in Logins : login[c].via = "own" => login[c].outcome # "unknown_key"

\* The claim of the tests and of refresh_for_key_error: a login that waited
\* for a refresh uses the keys that refresh produced and is not refused for an
\* unknown key.  It
\* reads `current` instead, where the discovery loop, which takes no lock, may
\* have published an older answer.
WaitersServed ==
    [][\A c \in Logins :
          /\ login[c].phase = "waiting"
          /\ login'[c].via = "shared"
          /\ login[c].key \in produced
          => login'[c].outcome # "unknown_key"]_keyVars

\* Every login ends, whoever holds the lock and disconnects or fails.
LoginsEnd ==
    \A c \in Logins : c \in InFlight ~> c \notin InFlight

\* After the last rotation the published keys catch up for good, though
\* discoveries fail, the loop panics and late answers publish old keys.
KeysCatchUp == <>[](signing \in current)

=============================================================================
