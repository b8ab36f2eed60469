--------------------------- MODULE OidcKeysProofs ---------------------------
(***************************************************************************)
(* OneFetchPerWindow, and below KeysInv and OwnRefreshServes, for any      *)
(* number of logins, keys and panics and any lengths of the windows.       *)
(*                                                                         *)
(* What a refresh may look at is last_key_refresh, which a failed refresh  *)
(* overwrites; that no failure hides a success younger than the window     *)
(* (Recorded) holds because nothing is fetched inside the window           *)
(* (QuietWindow), and that rests on the lock: two fetches never overlap    *)
(* (OneFetcher).                                                           *)
(***************************************************************************)
EXTENDS OidcKeys, SequenceTheorems, TLAPS

LoginType ==
    [phase : {"idle", "exchanging", "verifying", "waiting", "fetching",
              "answered", "done"},
     key : Keys \cup {None},
     keys : SUBSET Keys,
     outcome : {None, "not_ready", "accepted", "refused", "unknown_key",
                "gone"},
     via : {None, "wait", "shared", "own"}]

RefreshType == [age : 0 .. MinRefreshInterval, succeeded : BOOLEAN]

WindowType ==
    /\ signing \in Keys
    /\ serving \subseteq Keys
    /\ current \subseteq Keys
    /\ loop \in [phase : {"fetching", "answered", "asleep", "ended"},
                 keys : SUBSET Keys]
    /\ lock \in Logins \cup {None}
    /\ last_key_refresh \in RefreshType \cup {None}
    /\ login \in [Logins -> LoginType]
    /\ since \in 0 .. MinRefreshInterval

OneFetcher == \A c \in Logins : Fetching(c) <=> lock = c

QuietWindow == lock # None => since = MinRefreshInterval

Recorded ==
    since < MinRefreshInterval =>
        /\ last_key_refresh # None
        /\ last_key_refresh.succeeded
        /\ last_key_refresh.age = since

WindowInv == WindowType /\ OneFetcher /\ QuietWindow /\ Recorded

USE IntervalsAssumption, KeysAssumption, NoneAssumption

\* Initially nothing is fetched and no success is younger than the window.
LEMMA WindowInit == Init => WindowInv
BY DEF Init, WindowInv, WindowType, OneFetcher, QuietWindow, Recorded,
       Fetching, Idle, Login, LoginType, RefreshType, Keys

\* The record of a login that ended.
LEMMA EndType ==
    ASSUME NEW outcome \in {"not_ready", "accepted", "refused", "unknown_key",
                            "gone"}
    PROVE  End(outcome) \in LoginType /\ End(outcome).phase = "done"
BY DEF End, Login, LoginType

\* The second verification ends the login.
LEMMA VerifyAgainType ==
    ASSUME login \in [Logins -> LoginType], NEW c \in Logins,
           NEW keys \in SUBSET Keys, NEW via \in {None, "shared", "own"},
           NEW outcome \in Outcomes, VerifyAgain(c, keys, via, outcome)
    PROVE  \E l \in LoginType :
              l.phase = "done" /\ login' = [login EXCEPT ![c] = l]
<1> DEFINE l == [End(outcome) EXCEPT !.via = via]
<1>1. End(outcome) \in LoginType /\ End(outcome).phase = "done"
  BY EndType DEF Outcomes
<1>2. l \in LoginType /\ l.phase = "done"
  BY <1>1 DEF LoginType
<1>3. login' = [login EXCEPT ![c] = l]
  BY DEF VerifyAgain, Set
<1> QED
  BY <1>2, <1>3

\* Steps that leave the refreshes alone and move logins only between phases
\* outside the fetch keep the invariant.
LEMMA SparesRefresh ==
    ASSUME WindowInv, WindowType',
           UNCHANGED <<lock, last_key_refresh, since>>,
           \A c \in Logins : Fetching(c)' <=> Fetching(c)
    PROVE  WindowInv'
BY DEF WindowInv, OneFetcher, QuietWindow, Recorded

\* The provider and the discovery loop touch no refresh.
LEMMA LoopSteps ==
    ASSUME WindowInv,
           \/ Rotate \/ Retire \/ Loop \/ LoopFails \/ LoopPanics
    PROVE  WindowInv'
<1>1. UNCHANGED <<lock, last_key_refresh, since, login>>
  BY DEF Rotate, Retire, Loop, LoopReads, LoopPublishes, LoopWakes, Supervise,
         LoopFails, LoopPanics, refresh, ghosts
<1>2. signing' \in Keys /\ serving' \subseteq Keys /\ current' \subseteq Keys
      /\ loop' \in [phase : {"fetching", "answered", "asleep", "ended"},
                    keys : SUBSET Keys]
  BY DEF WindowInv, WindowType, Keys, Rotate, Retire, Loop, LoopReads,
         LoopPublishes, LoopWakes, Supervise, LoopFails, LoopPanics, provider
<1>3. WindowType'
  BY <1>1, <1>2 DEF WindowInv, WindowType
<1> QED
  BY <1>1, <1>3, SparesRefresh DEF Fetching

\* A login outside the fetch, and its second verification from the window.
LEMMA LoginSteps ==
    ASSUME WindowInv, NEW c \in Logins,
           \/ Begin(c) \/ ExchangeCode(c) \/ VerifyIdToken(c)
           \/ RefreshHeldOff(c) \/ Again(c)
    PROVE  WindowInv'
<1>1. /\ UNCHANGED <<signing, serving, current, loop, lock, last_key_refresh,
                     since>>
      /\ login[c].phase \notin {"fetching", "answered"}
  BY DEF Begin, ExchangeCode, VerifyIdToken, RefreshHeldOff, GetsLock, Again,
         provider, refresh, ghosts
<1>2. \E l \in LoginType :
        /\ l.phase \notin {"fetching", "answered"}
        /\ login' = [login EXCEPT ![c] = l]
  <2>1. login[c] \in LoginType /\ signing \in Keys /\ current \subseteq Keys
    BY DEF WindowInv, WindowType
  <2>2. CASE Begin(c)
    BY <2>1, <2>2 DEF Begin, Set, End, Login, LoginType
  <2>3. CASE ExchangeCode(c)
    BY <2>1, <2>3 DEF ExchangeCode, Set, End, Login, LoginType
  <2>4. CASE VerifyIdToken(c)
    BY <2>1, <2>4 DEF VerifyIdToken, Set, End, Login, LoginType
  <2>5. CASE RefreshHeldOff(c)
    <3>1. login \in [Logins -> LoginType] /\ current \in SUBSET Keys
      BY DEF WindowInv, WindowType
    <3>2. CASE Set(c, End("unknown_key"))
      BY <3>1, <3>2, EndType DEF Set
    <3>3. CASE \E via \in {None, "shared"}, outcome \in Outcomes :
                 VerifyAgain(c, current, via, outcome)
      BY <3>1, <3>3, VerifyAgainType
    <3> QED  BY <2>5, <3>2, <3>3 DEF RefreshHeldOff
  <2>6. CASE Again(c)
    BY <2>1, <2>6 DEF Again, Set, Idle, Login, LoginType
  <2> QED  BY <2>2, <2>3, <2>4, <2>5, <2>6
<1>3. WindowType'
  BY <1>1, <1>2 DEF WindowInv, WindowType
<1> QED
  BY <1>1, <1>2, <1>3, SparesRefresh DEF Fetching, WindowInv, WindowType

\* A refresh takes the lock, outside the window.
LEMMA StartStep ==
    ASSUME WindowInv, NEW c \in Logins, RefreshStarts(c)
    PROVE  WindowInv' /\ since = MinRefreshInterval
<1> USE DEF WindowInv, WindowType
<1>1. lock = None /\ ~HeldOff /\ lock' = c
      /\ UNCHANGED <<signing, serving, current, loop, last_key_refresh, since>>
      /\ login' = [login EXCEPT ![c] = [login[c] EXCEPT !.phase = "fetching"]]
  BY DEF RefreshStarts, GetsLock, Set, provider, ghosts
<1>2. since = MinRefreshInterval
  BY <1>1 DEF Recorded, HeldOff, Hold, RefreshType
<1>3. WindowType'
  BY <1>1 DEF LoginType
<1>4. OneFetcher'
  BY <1>1 DEF OneFetcher, Fetching, LoginType
<1> QED
  BY <1>1, <1>2, <1>3, <1>4 DEF QuietWindow, Recorded

\* The fetch goes on, behind the lock.
LEMMA ReadStep ==
    ASSUME WindowInv, NEW c \in Logins, RefreshReads(c)
    PROVE  WindowInv'
<1> USE DEF WindowInv, WindowType
<1>1. /\ UNCHANGED <<signing, serving, current, loop, lock, last_key_refresh,
                     since>>
      /\ login[c].phase = "fetching"
      /\ login' = [login EXCEPT ![c] = [login[c] EXCEPT
                       !.phase = "answered", !.keys = serving]]
  BY DEF RefreshReads, Set, provider, refresh, ghosts
<1>2. WindowType'
  <2>1. [login[c] EXCEPT !.phase = "answered", !.keys = serving] \in LoginType
    <3>1. login[c] \in LoginType /\ serving \in SUBSET Keys
      OBVIOUS
    <3> QED  BY <3>1 DEF LoginType
  <2> QED  BY <1>1, <2>1
<1>3. \A d \in Logins : Fetching(d)' <=> Fetching(d)
  BY <1>1 DEF Fetching, LoginType
<1> QED
  BY <1>1, <1>2, <1>3, SparesRefresh

\* The end of a fetch, or of its handler, gives the lock back.
LEMMA EndSteps ==
    ASSUME WindowInv, NEW c \in Logins,
           RefreshEnds(c) \/ RefreshFails(c) \/ Disconnect(c)
    PROVE  WindowInv'
<1> USE DEF WindowInv, WindowType
<1>1. \E l \in LoginType :
        l.phase = "done" /\ login' = [login EXCEPT ![c] = l]
  <2>1. login[c].keys \in SUBSET Keys
    BY DEF LoginType
  <2>2. CASE RefreshEnds(c)
    BY <2>1, <2>2, VerifyAgainType DEF RefreshEnds, Set
  <2>3. CASE RefreshFails(c) \/ Disconnect(c)
    BY <2>3, EndType DEF RefreshFails, Disconnect, Set
  <2> QED  BY <2>2, <2>3
<1>2. UNCHANGED <<signing, serving, loop>> /\ current' \subseteq Keys
  BY DEF RefreshEnds, RefreshFails, Disconnect, provider, LoginType
<1>3. CASE RefreshEnds(c)
  <2>1. lock' = None /\ lock = c /\ since' = 0
        /\ last_key_refresh' = [age |-> 0, succeeded |-> TRUE]
    BY <1>3 DEF RefreshEnds, OneFetcher, Fetching
  <2>2. WindowType'
    BY <1>1, <1>2, <2>1 DEF RefreshType
  <2>3. OneFetcher'
    BY <1>1, <2>1 DEF OneFetcher, Fetching
  <2>4. QuietWindow' /\ Recorded'
    <3>1. [age |-> 0, succeeded |-> TRUE] \in [age : Nat, succeeded : BOOLEAN]
      OBVIOUS
    <3>2. last_key_refresh' # None
      BY <2>1, <3>1
    <3> QED  BY <2>1, <3>2 DEF QuietWindow, Recorded
  <2> QED  BY <2>2, <2>3, <2>4
<1>4. CASE RefreshFails(c)
  <2>1. lock' = None /\ lock = c /\ since' = since
        /\ last_key_refresh' = [age |-> 0, succeeded |-> FALSE]
    BY <1>4 DEF RefreshFails, OneFetcher, Fetching, ghosts
  <2> QED
    BY <1>1, <1>2, <2>1
       DEF OneFetcher, Fetching, QuietWindow, Recorded, RefreshType, LoginType
<1>5. CASE Disconnect(c)
  <2>1. lock' = (IF lock = c THEN None ELSE lock)
        /\ UNCHANGED <<since, last_key_refresh>>
    BY <1>5 DEF Disconnect, ghosts
  <2> QED
    BY <1>1, <1>2, <2>1
       DEF OneFetcher, Fetching, QuietWindow, Recorded, LoginType
<1> QED  BY <1>3, <1>4, <1>5

\* Time makes the success and its record older together.
LEMMA TickStep ==
    ASSUME WindowInv, Tick
    PROVE  WindowInv'
BY DEF WindowInv, WindowType, Tick, Older, OneFetcher, Fetching, QuietWindow,
       Recorded, RefreshType, provider

\* Every step keeps the invariant.
LEMMA WindowStep == WindowInv /\ [Next]_keyVars => WindowInv'
<1> SUFFICES ASSUME WindowInv, [Next]_keyVars PROVE WindowInv'
  OBVIOUS
<1>1. CASE UNCHANGED keyVars
  BY <1>1 DEF keyVars, WindowInv, WindowType, OneFetcher, Fetching,
              QuietWindow, Recorded
<1>2. CASE Next
  BY <1>2, LoopSteps, LoginSteps, StartStep, ReadStep, EndSteps, TickStep
     DEF Next, Progress, Refresh
<1> QED  BY <1>1, <1>2

\* Only RefreshStarts begins a fetch.
LEMMA OnlyStarts ==
    ASSUME WindowInv, Next, NEW c \in Logins,
           login[c].phase = "waiting", login'[c].phase = "fetching"
    PROVE  RefreshStarts(c)
<1>1. login[c] \in LoginType /\ login \in [Logins -> LoginType]
  BY DEF WindowInv, WindowType
<1>2. CASE \/ Rotate \/ Retire \/ Tick \/ Loop \/ LoopFails \/ LoopPanics
  BY <1>2 DEF Rotate, Retire, Tick, Loop, LoopReads, LoopPublishes, LoopWakes,
              Supervise, LoopFails, LoopPanics
<1>3. CASE \E d \in Logins :
             Begin(d) \/ Progress(d) \/ Disconnect(d) \/ Again(d)
  <2>1. PICK d \in Logins :
             Begin(d) \/ Progress(d) \/ Disconnect(d) \/ Again(d)
    BY <1>3
  <2>2. d = c
    BY <1>1, <2>1 DEF Begin, Progress, ExchangeCode, VerifyIdToken, Refresh,
       RefreshHeldOff, RefreshStarts, RefreshReads, RefreshEnds, RefreshFails,
       Disconnect, Again, Set, VerifyAgain
  <2>3. login \in [Logins -> LoginType] /\ current \in SUBSET Keys
    BY DEF WindowInv, WindowType
  <2>4. ~Disconnect(c)
    BY <2>3, EndType DEF Disconnect, Set
  <2>5. ~RefreshHeldOff(c)
    <3>1. ~Set(c, End("unknown_key"))
      BY <2>3, EndType DEF Set
    <3>2. ~ \E via \in {None, "shared"}, outcome \in Outcomes :
               VerifyAgain(c, current, via, outcome)
      BY <2>3, VerifyAgainType
    <3> QED  BY <3>1, <3>2 DEF RefreshHeldOff
  <2> QED
    BY <2>1, <2>2, <2>4, <2>5 DEF Begin, Progress, ExchangeCode, VerifyIdToken,
       Refresh, RefreshReads, RefreshEnds, RefreshFails, Again
<1> QED  BY <1>2, <1>3 DEF Next

\* The invariant holds in every state the server reaches.
THEOREM WindowInvariant == Spec => []WindowInv
BY WindowInit, WindowStep, PTL DEF Spec

\* For any number of logins: however they queue, fail, disconnect and start
\* again, refresh_for_key_error fetches nothing while a success is younger
\* than min_refresh_interval.
THEOREM FetchesAreApart == Spec => OneFetchPerWindow
<1>1. WindowInv /\ [Next]_keyVars =>
        [\A c \in Logins :
           login[c].phase = "waiting" /\ login'[c].phase = "fetching"
               => since >= MinRefreshInterval]_keyVars
  BY OnlyStarts, StartStep
<1> QED
  BY <1>1, WindowInvariant, PTL DEF Spec, OneFetchPerWindow

-----------------------------------------------------------------------------
(***************************************************************************)
(* KeysInv and OwnRefreshServes.  The queue of the lock is a sequence that *)
(* logins join at its end and leave at its head or, dropped, anywhere;     *)
(* that it holds exactly the waiting logins, each once, is inductive by    *)
(* itself.  That an own refresh knows the key of the token rests on the    *)
(* provider, which serves the key of every token in flight (Served): the   *)
(* answer to the refresh was read while the login was in flight.           *)
(***************************************************************************)

QueueDiscipline ==
    /\ \A c \in Logins :
          login[c].phase = "waiting" <=> \E i \in DOMAIN queue : queue[i] = c
    /\ \A i, j \in DOMAIN queue : queue[i] = queue[j] => i = j

QueueInv == queue \in Seq(Logins) /\ QueueDiscipline

CountsInv == panics \in 0 .. MaxPanics /\ produced \subseteq Keys

Served(l) ==
    /\ l.phase \in {"verifying", "waiting", "fetching", "answered"} =>
          l.key \in serving
    /\ l.phase = "answered" => l.key \in l.keys
    /\ l.via = "own" => l.phase = "done" /\ l.outcome # "unknown_key"

ServedInv == signing \in serving /\ \A c \in Logins : Served(login[c])

RefreshInv == WindowInv /\ QueueInv /\ CountsInv /\ ServedInv

Without(q, i) == SubSeq(q, 1, i - 1) \o SubSeq(q, i + 1, Len(q))

\* A sequence without its i-th element.
LEMMA WithoutOne ==
    ASSUME NEW S, NEW q \in Seq(S), NEW i \in 1 .. Len(q)
    PROVE  /\ Without(q, i) \in Seq(S)
           /\ Len(Without(q, i)) = Len(q) - 1
           /\ \A j \in 1 .. Len(Without(q, i)) :
                 Without(q, i)[j] = IF j < i THEN q[j] ELSE q[j + 1]
<1> DEFINE a == SubSeq(q, 1, i - 1)
           b == SubSeq(q, i + 1, Len(q))
           r == Without(q, i)
<1>1. a \in Seq(S) /\ Len(a) = i - 1 /\ \A j \in 1 .. (i - 1) : a[j] = q[j]
  OBVIOUS
<1>2. b \in Seq(S) /\ Len(b) = Len(q) - i
      /\ \A j \in 1 .. (Len(q) - i) : b[j] = q[i + j]
  OBVIOUS
<1>3. r = a \o b
  BY DEF Without
<1> HIDE DEF a, b, r
<1>4. r \in Seq(S) /\ Len(r) = Len(a) + Len(b)
      /\ \A j \in 1 .. Len(a) + Len(b) :
           r[j] = IF j <= Len(a) THEN a[j] ELSE b[j - Len(a)]
  <2>1. a \in Seq(S) /\ b \in Seq(S)
    BY <1>1, <1>2
  <2> QED  BY <1>3, <2>1, ConcatProperties, Zenon
<1>5. ASSUME NEW j \in 1 .. Len(r)
      PROVE  r[j] = IF j < i THEN q[j] ELSE q[j + 1]
  <2>1. CASE j < i
    <3>1. /\ j \in 1 .. (i - 1) /\ j <= Len(a)
          /\ j \in 1 .. Len(a) + Len(b)
      BY <1>1, <1>4, <2>1
    <3>2. r[j] = a[j]
      BY <1>4, <3>1
    <3>3. a[j] = q[j]
      BY <1>1, <3>1
    <3> QED  BY <2>1, <3>2, <3>3
  <2>2. CASE ~(j < i)
    <3>1. r[j] = b[j - (i - 1)]
      BY <1>1, <1>2, <1>4, <2>2
    <3>2. j - (i - 1) \in 1 .. (Len(q) - i) /\ i + (j - (i - 1)) = j + 1
      BY <1>1, <1>2, <1>4, <2>2
    <3> QED  BY <1>2, <2>2, <3>1, <3>2
  <2> QED  BY <2>1, <2>2
<1>6. Len(r) = Len(q) - 1
  BY <1>1, <1>2, <1>4
<1> QED  BY <1>4, <1>5, <1>6 DEF r

\* Steps that move a login neither into the queue nor out of it.
LEMMA QueueKept ==
    ASSUME QueueInv, queue' = queue,
           \A c \in Logins :
              (login'[c].phase = "waiting") <=> (login[c].phase = "waiting")
    PROVE  QueueInv'
BY DEF QueueInv, QueueDiscipline

\* A login that meets an unknown key waits behind the others.
LEMMA QueueJoined ==
    ASSUME QueueInv, NEW c \in Logins, NEW l \in LoginType,
           login \in [Logins -> LoginType],
           login' = [login EXCEPT ![c] = l], l.phase = "waiting",
           login[c].phase # "waiting", queue' = Append(queue, c)
    PROVE  QueueInv'
<1>1. queue' \in Seq(Logins) /\ Len(queue') = Len(queue) + 1
      /\ queue'[Len(queue) + 1] = c
      /\ \A i \in 1 .. Len(queue) : queue'[i] = queue[i]
  BY DEF QueueInv
<1>2. DOMAIN queue = 1 .. Len(queue) /\ DOMAIN queue' = 1 .. (Len(queue) + 1)
      /\ Len(queue) \in Nat
  BY <1>1 DEF QueueInv
<1>3. \A i \in DOMAIN queue : queue[i] # c
  BY DEF QueueInv, QueueDiscipline
<1>4. \A i, j \in DOMAIN queue' : queue'[i] = queue'[j] => i = j
  BY <1>1, <1>2, <1>3 DEF QueueInv, QueueDiscipline
<1>5. ASSUME NEW d \in Logins
      PROVE  login'[d].phase = "waiting"
                <=> \E i \in DOMAIN queue' : queue'[i] = d
  <2>1. CASE d = c
    BY <1>1, <1>2, <2>1
  <2>2. CASE d # c
    BY <1>1, <1>2, <2>2 DEF QueueInv, QueueDiscipline
  <2> QED  BY <2>1, <2>2
<1> QED  BY <1>1, <1>4, <1>5 DEF QueueInv, QueueDiscipline

\* A login leaves the queue, from the place it has in it.
LEMMA QueueLeft ==
    ASSUME QueueInv, NEW c \in Logins, NEW l \in LoginType,
           login \in [Logins -> LoginType],
           login' = [login EXCEPT ![c] = l], l.phase # "waiting",
           NEW k \in 1 .. Len(queue), queue[k] = c,
           queue' \in Seq(Logins), Len(queue') = Len(queue) - 1,
           \A j \in 1 .. Len(queue') :
              queue'[j] = IF j < k THEN queue[j] ELSE queue[j + 1]
    PROVE  QueueInv'
<1>1. DOMAIN queue = 1 .. Len(queue) /\ DOMAIN queue' = 1 .. (Len(queue) - 1)
      /\ Len(queue) \in Nat
  BY DEF QueueInv
<1>2. \A i, j \in 1 .. Len(queue) : queue[i] = queue[j] => i = j
  BY <1>1 DEF QueueInv, QueueDiscipline
<1>3. \A j \in DOMAIN queue' :
        \E i \in 1 .. Len(queue) :
           /\ queue'[j] = queue[i]
           /\ i # k
           /\ i = IF j < k THEN j ELSE j + 1
  BY <1>1
<1>4. \A i, j \in DOMAIN queue' : queue'[i] = queue'[j] => i = j
  BY <1>1, <1>2, <1>3
<1>5. ASSUME NEW d \in Logins
      PROVE  login'[d].phase = "waiting"
                <=> \E j \in DOMAIN queue' : queue'[j] = d
  <2>1. CASE d = c
    BY <1>2, <1>3, <2>1
  <2>2. CASE d # c
    <3>1. login'[d] = login[d]
      BY <2>2
    <3>2. (\E i \in DOMAIN queue : queue[i] = d)
             <=> \E j \in DOMAIN queue' : queue'[j] = d
      <4>1. ASSUME NEW i \in DOMAIN queue, queue[i] = d
            PROVE  \E j \in DOMAIN queue' : queue'[j] = d
        <5>1. CASE i < k
          <6>1. i \in DOMAIN queue'
            BY <1>1, <5>1
          <6> QED  BY <1>1, <4>1, <5>1, <6>1
        <5>2. CASE i > k
          <6>1. i - 1 \in DOMAIN queue' /\ ~(i - 1 < k) /\ (i - 1) + 1 = i
            BY <1>1, <5>2
          <6>2. queue'[i - 1] = queue[i]
            BY <1>1, <6>1
          <6> QED  BY <4>1, <6>1, <6>2
        <5>3. i # k
          BY <2>2, <4>1
        <5> QED  BY <1>1, <5>1, <5>2, <5>3
      <4>2. ASSUME NEW j \in DOMAIN queue', queue'[j] = d
            PROVE  \E i \in DOMAIN queue : queue[i] = d
        BY <1>1, <1>3, <4>2
      <4> QED  BY <4>1, <4>2
    <3> QED  BY <3>1, <3>2 DEF QueueInv, QueueDiscipline
  <2> QED  BY <2>1, <2>2
<1> QED  BY <1>4, <1>5 DEF QueueInv, QueueDiscipline

\* The head of the queue gets the lock and leaves.
LEMMA QueueServed ==
    ASSUME QueueInv, NEW c \in Logins, NEW l \in LoginType,
           login \in [Logins -> LoginType],
           login' = [login EXCEPT ![c] = l], l.phase # "waiting",
           queue # <<>>, Head(queue) = c, queue' = Tail(queue)
    PROVE  QueueInv'
<1>1. queue \in Seq(Logins) /\ Len(queue) \in Nat \ {0} /\ queue[1] = c
  BY DEF QueueInv
<1>2. queue' \in Seq(Logins) /\ Len(queue') = Len(queue) - 1
      /\ \A j \in 1 .. Len(queue') : queue'[j] = queue[j + 1]
  BY <1>1
<1>3. 1 \in 1 .. Len(queue)
      /\ \A j \in 1 .. Len(queue') :
           queue'[j] = IF j < 1 THEN queue[j] ELSE queue[j + 1]
  BY <1>1, <1>2
<1> QED  BY <1>1, <1>2, <1>3, QueueLeft

\* A dropped handler leaves the queue, wherever it waited.
LEMMA QueueDropped ==
    ASSUME QueueInv, NEW c \in Logins, NEW l \in LoginType,
           login \in [Logins -> LoginType],
           login' = [login EXCEPT ![c] = l], l.phase # "waiting",
           queue' = QueueWithout(c)
    PROVE  QueueInv'
<1>1. CASE \E i \in DOMAIN queue : queue[i] = c
  <2> DEFINE k == CHOOSE i \in DOMAIN queue : queue[i] = c
  <2>1. k \in DOMAIN queue /\ queue[k] = c
    BY <1>1
  <2>2. queue' = Without(queue, k)
    BY <1>1 DEF QueueWithout, Without
  <2> HIDE DEF k
  <2>3. queue \in Seq(Logins) /\ k \in 1 .. Len(queue)
    BY <2>1 DEF QueueInv
  <2>4. queue' \in Seq(Logins) /\ Len(queue') = Len(queue) - 1
        /\ \A j \in 1 .. Len(queue') :
             queue'[j] = IF j < k THEN queue[j] ELSE queue[j + 1]
    BY <2>2, <2>3, WithoutOne
  <2> QED  BY <2>1, <2>3, <2>4, QueueLeft
<1>2. CASE ~ \E i \in DOMAIN queue : queue[i] = c
  <2>1. queue' = queue /\ login[c].phase # "waiting"
    BY <1>2 DEF QueueWithout, QueueInv, QueueDiscipline
  <2>2. \A d \in Logins :
          (login'[d].phase = "waiting") <=> (login[d].phase = "waiting")
    BY <2>1
  <2> QED  BY <2>1, <2>2, QueueKept
<1> QED  BY <1>1, <1>2

\* Initially nobody waits, and the provider serves the key it signs with.
LEMMA RefreshInit == Init => RefreshInv
<1> SUFFICES ASSUME Init PROVE RefreshInv
  OBVIOUS
<1>1. QueueInv
  BY DEF Init, QueueInv, QueueDiscipline, Idle, Login
<1>2. CountsInv /\ ServedInv
  BY DEF Init, CountsInv, ServedInv, Served, Idle, Login, Keys
<1> QED  BY <1>1, <1>2, WindowInit DEF RefreshInv

\* A login that ends by itself, without a refresh of its own, was not refused
\* by one.
LEMMA EndServed ==
    ASSUME NEW outcome \in {"not_ready", "accepted", "refused", "unknown_key",
                            "gone"}
    PROVE  /\ End(outcome) \in LoginType
           /\ End(outcome).phase = "done"
           /\ Served(End(outcome))
BY EndType DEF End, Login, Served

\* The second verification, which an own refresh does not leave with an
\* unknown key.
LEMMA VerifyAgainServed ==
    ASSUME login \in [Logins -> LoginType], NEW c \in Logins,
           NEW keys \in SUBSET Keys, NEW via \in {None, "shared", "own"},
           NEW outcome \in Outcomes, VerifyAgain(c, keys, via, outcome),
           via = "own" => login[c].key \in keys
    PROVE  \E l \in LoginType :
              /\ l.phase = "done"
              /\ Served(l)
              /\ login' = [login EXCEPT ![c] = l]
<1> DEFINE l == [End(outcome) EXCEPT !.via = via]
<1>1. End(outcome) \in LoginType /\ End(outcome).phase = "done"
      /\ End(outcome).outcome = outcome
  BY EndType DEF Outcomes, End, Login
<1>2. l \in LoginType /\ l.phase = "done" /\ l.via = via
      /\ l.outcome = outcome
  BY <1>1 DEF LoginType
<1>3. login' = [login EXCEPT ![c] = l]
  BY DEF VerifyAgain, Set
<1>4. via = "own" => outcome # "unknown_key"
  BY DEF VerifyAgain
<1> HIDE DEF l
<1>5. Served(l)
  BY <1>2, <1>4 DEF Served
<1> QED  BY <1>2, <1>3, <1>5

\* What a step of login c does to its record.
LoginMoves(c, l) ==
    /\ login' = [login EXCEPT ![c] = l]
    /\ Served(l)
    /\ UNCHANGED <<signing, serving>>

\* A login that does not touch the queue.
LEMMA PlainMoves ==
    ASSUME RefreshInv, NEW c \in Logins,
           \/ Begin(c) \/ ExchangeCode(c) \/ Again(c) \/ RefreshReads(c)
           \/ RefreshEnds(c) \/ RefreshFails(c)
    PROVE  /\ queue' = queue
           /\ login[c].phase # "waiting"
           /\ \E l \in LoginType : l.phase # "waiting" /\ LoginMoves(c, l)
<1> USE DEF RefreshInv, WindowInv, WindowType, ServedInv
<1>1. queue' = queue /\ login[c].phase # "waiting"
      /\ UNCHANGED <<signing, serving>>
  BY DEF Begin, ExchangeCode, Again, RefreshReads, RefreshEnds, RefreshFails,
         provider, refresh
<1>2. login[c] \in LoginType /\ signing \in Keys /\ current \in SUBSET Keys
      /\ serving \in SUBSET Keys /\ login[c].keys \in SUBSET Keys
      /\ Served(login[c]) /\ signing \in serving
      /\ login \in [Logins -> LoginType]
  BY DEF LoginType
<1>3. \E l \in LoginType : /\ l.phase # "waiting"
                           /\ Served(l)
                           /\ login' = [login EXCEPT ![c] = l]
  <2>1. CASE Begin(c)
    <3>1. CASE Set(c, End("not_ready"))
      BY <3>1, EndServed DEF Set
    <3>2. CASE Set(c, Login("exchanging", current, None))
      <4>1. Login("exchanging", current, None) \in LoginType
            /\ Login("exchanging", current, None).phase = "exchanging"
            /\ Served(Login("exchanging", current, None))
        BY <1>2 DEF Login, LoginType, Served
      <4> QED  BY <3>2, <4>1 DEF Set
    <3> QED  BY <2>1, <3>1, <3>2 DEF Begin
  <2>2. CASE ExchangeCode(c)
    <3>1. CASE Set(c, End("refused"))
      BY <3>1, EndServed DEF Set
    <3>2. CASE Set(c, [login[c] EXCEPT !.phase = "verifying", !.key = signing])
      <4> DEFINE l == [login[c] EXCEPT !.phase = "verifying", !.key = signing]
      <4>1. l \in LoginType /\ l.phase = "verifying" /\ l.key = signing
            /\ l.via = login[c].via
        BY <1>2 DEF LoginType
      <4>2. l.via # "own"
        BY <1>2, <2>2, <4>1 DEF Served, ExchangeCode
      <4> HIDE DEF l
      <4>3. Served(l)
        BY <1>2, <4>1, <4>2 DEF Served
      <4> QED  BY <3>2, <4>1, <4>3 DEF Set, l
    <3> QED  BY <2>2, <3>1, <3>2 DEF ExchangeCode
  <2>3. CASE Again(c)
    BY <2>3 DEF Again, Set, Idle, Login, LoginType, Served
  <2>4. CASE RefreshReads(c)
    <3> DEFINE l == [login[c] EXCEPT !.phase = "answered", !.keys = serving]
    <3>1. l \in LoginType /\ l.phase = "answered" /\ l.key = login[c].key
          /\ l.via = login[c].via /\ l.keys = serving
      BY <1>2 DEF LoginType
    <3>2. login[c].via # "own" /\ login[c].key \in serving
      BY <1>2, <2>4 DEF Served, RefreshReads
    <3>3. login' = [login EXCEPT ![c] = l]
      BY <2>4 DEF RefreshReads, Set
    <3> HIDE DEF l
    <3>4. Served(l)
      BY <3>1, <3>2 DEF Served
    <3> QED  BY <3>1, <3>3, <3>4
  <2>5. CASE RefreshEnds(c)
    <3>1. login[c].key \in login[c].keys
      BY <1>2, <2>5 DEF RefreshEnds, Served
    <3>2. PICK outcome \in Outcomes :
             VerifyAgain(c, login[c].keys, "own", outcome)
      BY <2>5 DEF RefreshEnds
    <3> QED  BY <1>2, <3>1, <3>2, VerifyAgainServed
  <2>6. CASE RefreshFails(c)
    BY <2>6, EndServed DEF RefreshFails, Set
  <2> QED  BY <2>1, <2>2, <2>3, <2>4, <2>5, <2>6
<1> QED  BY <1>1, <1>3 DEF LoginMoves

\* The first verification ends the login or puts it behind the others.
LEMMA VerifyMoves ==
    ASSUME RefreshInv, NEW c \in Logins, VerifyIdToken(c)
    PROVE  /\ login[c].phase # "waiting"
           /\ \/ /\ queue' = queue
                 /\ \E l \in LoginType : l.phase # "waiting" /\ LoginMoves(c, l)
              \/ /\ queue' = Append(queue, c)
                 /\ \E l \in LoginType : l.phase = "waiting" /\ LoginMoves(c, l)
<1> USE DEF RefreshInv, WindowInv, WindowType, ServedInv
<1>1. login[c].phase = "verifying" /\ UNCHANGED <<signing, serving>>
  BY DEF VerifyIdToken, provider
<1>2. login[c] \in LoginType /\ Served(login[c])
  OBVIOUS
<1>3. CASE queue' = queue
           /\ (Set(c, End("refused")) \/ Set(c, End("accepted")))
  BY <1>1, <1>3, EndServed DEF Set, LoginMoves
<1>4. CASE /\ queue' = Append(queue, c)
           /\ \E via \in {None, "wait"} :
                Set(c, [login[c] EXCEPT !.phase = "waiting", !.via = via])
  <2>1. PICK via \in {None, "wait"} :
           Set(c, [login[c] EXCEPT !.phase = "waiting", !.via = via])
    BY <1>4
  <2> DEFINE l == [login[c] EXCEPT !.phase = "waiting", !.via = via]
  <2>2. l \in LoginType /\ l.phase = "waiting" /\ l.via = via
        /\ l.key = login[c].key
    BY <1>2 DEF LoginType
  <2>3. login[c].key \in serving
    BY <1>1, <1>2 DEF Served
  <2>4. login' = [login EXCEPT ![c] = l]
    BY <2>1 DEF Set
  <2> HIDE DEF l
  <2>5. Served(l)
    BY <2>2, <2>3 DEF Served
  <2> QED  BY <1>1, <1>4, <2>2, <2>4, <2>5 DEF LoginMoves
<1> QED  BY <1>1, <1>3, <1>4 DEF VerifyIdToken

\* The head of the queue gets the lock.
LEMMA LockMoves ==
    ASSUME RefreshInv, NEW c \in Logins, RefreshHeldOff(c) \/ RefreshStarts(c)
    PROVE  /\ queue # <<>> /\ Head(queue) = c /\ queue' = Tail(queue)
           /\ \E l \in LoginType : l.phase # "waiting" /\ LoginMoves(c, l)
<1> USE DEF RefreshInv, WindowInv, WindowType, ServedInv
<1>1. /\ login[c].phase = "waiting"
      /\ queue # <<>> /\ Head(queue) = c /\ queue' = Tail(queue)
      /\ UNCHANGED <<signing, serving>>
  BY DEF RefreshHeldOff, RefreshStarts, GetsLock, provider
<1>2. login[c] \in LoginType /\ Served(login[c]) /\ current \in SUBSET Keys
      /\ login \in [Logins -> LoginType]
  OBVIOUS
<1>3. CASE Set(c, End("unknown_key"))
  BY <1>1, <1>3, EndServed DEF Set, LoginMoves
<1>4. CASE \E via \in {None, "shared"}, outcome \in Outcomes :
             VerifyAgain(c, current, via, outcome)
  <2>1. PICK via \in {None, "shared"}, outcome \in Outcomes :
             VerifyAgain(c, current, via, outcome)
    BY <1>4
  <2>2. /\ via \in {None, "shared", "own"}
        /\ via = "own" => login[c].key \in current
    OBVIOUS
  <2>3. \E l \in LoginType : /\ l.phase = "done"
                             /\ Served(l)
                             /\ login' = [login EXCEPT ![c] = l]
    BY <1>2, <2>1, <2>2, VerifyAgainServed
  <2> QED  BY <1>1, <2>3 DEF LoginMoves
<1>5. CASE Set(c, [login[c] EXCEPT !.phase = "fetching"])
  <2> DEFINE l == [login[c] EXCEPT !.phase = "fetching"]
  <2>1. l \in LoginType /\ l.phase = "fetching" /\ l.via = login[c].via
        /\ l.key = login[c].key
    BY <1>2 DEF LoginType
  <2>2. login[c].key \in serving /\ login[c].via # "own"
    BY <1>1, <1>2 DEF Served
  <2>3. login' = [login EXCEPT ![c] = l]
    BY <1>5 DEF Set
  <2> HIDE DEF l
  <2>4. Served(l)
    BY <2>1, <2>2 DEF Served
  <2> QED  BY <1>1, <2>1, <2>3, <2>4 DEF LoginMoves
<1> QED  BY <1>1, <1>3, <1>4, <1>5 DEF RefreshHeldOff, RefreshStarts

\* A login that moves keeps the keys of the tokens in flight served.
LEMMA MovesServed ==
    ASSUME ServedInv, WindowInv, NEW c \in Logins, NEW l \in LoginType,
           LoginMoves(c, l)
    PROVE  ServedInv'
<1>1. \A d \in Logins : login'[d] = login[d] \/ login'[d] = l
  BY DEF LoginMoves, WindowInv, WindowType
<1>2. \A d \in Logins : Served(login'[d])
  BY <1>1 DEF LoginMoves, ServedInv
<1> QED  BY <1>2 DEF LoginMoves, ServedInv, Served

\* Every step of a login keeps the queue and the served keys.
LEMMA LoginKeeps ==
    ASSUME RefreshInv, NEW c \in Logins,
           Begin(c) \/ Progress(c) \/ Disconnect(c) \/ Again(c)
    PROVE  QueueInv' /\ ServedInv'
<1> USE DEF RefreshInv
<1>1. login \in [Logins -> LoginType]
  BY DEF WindowInv, WindowType
<1>2. CASE \/ Begin(c) \/ ExchangeCode(c) \/ Again(c) \/ RefreshReads(c)
           \/ RefreshEnds(c) \/ RefreshFails(c)
  <2>1. PICK l \in LoginType : l.phase # "waiting" /\ LoginMoves(c, l)
    BY <1>2, PlainMoves
  <2>2. queue' = queue /\ login[c].phase # "waiting"
    BY <1>2, PlainMoves
  <2>3. QueueInv'
    BY <1>1, <2>1, <2>2, QueueKept DEF LoginMoves
  <2> QED  BY <2>1, <2>3, MovesServed
<1>3. CASE VerifyIdToken(c)
  <2>1. login[c].phase # "waiting"
    BY <1>3, VerifyMoves
  <2>2. CASE /\ queue' = queue
             /\ \E l \in LoginType : l.phase # "waiting" /\ LoginMoves(c, l)
    <3>1. PICK l \in LoginType : l.phase # "waiting" /\ LoginMoves(c, l)
      BY <2>2
    <3>2. QueueInv'
      BY <1>1, <2>1, <2>2, <3>1, QueueKept DEF LoginMoves
    <3> QED  BY <3>1, <3>2, MovesServed
  <2>3. CASE /\ queue' = Append(queue, c)
             /\ \E l \in LoginType : l.phase = "waiting" /\ LoginMoves(c, l)
    <3>1. PICK l \in LoginType : l.phase = "waiting" /\ LoginMoves(c, l)
      BY <2>3
    <3>2. QueueInv'
      BY <1>1, <2>1, <2>3, <3>1, QueueJoined DEF LoginMoves
    <3> QED  BY <3>1, <3>2, MovesServed
  <2> QED  BY <1>3, <2>2, <2>3, VerifyMoves
<1>4. CASE RefreshHeldOff(c) \/ RefreshStarts(c)
  <2>1. PICK l \in LoginType : l.phase # "waiting" /\ LoginMoves(c, l)
    BY <1>4, LockMoves
  <2>2. queue # <<>> /\ Head(queue) = c /\ queue' = Tail(queue)
    BY <1>4, LockMoves
  <2>3. QueueInv'
    BY <1>1, <2>1, <2>2, QueueServed DEF LoginMoves
  <2> QED  BY <2>1, <2>3, MovesServed
<1>5. CASE Disconnect(c)
  <2> DEFINE l == End("gone")
  <2>1. l \in LoginType /\ l.phase = "done" /\ Served(l)
    BY EndServed
  <2>2. LoginMoves(c, l) /\ queue' = QueueWithout(c)
    BY <1>5, <2>1 DEF Disconnect, LoginMoves, Set, provider
  <2> HIDE DEF l
  <2>3. QueueInv'
    BY <1>1, <2>1, <2>2, QueueDropped DEF LoginMoves
  <2> QED  BY <2>1, <2>2, <2>3, MovesServed
<1> QED  BY <1>2, <1>3, <1>4, <1>5 DEF Progress, Refresh

\* The provider keeps the keys of the tokens in flight; nothing else of the
\* environment touches a login.
LEMMA OthersKeep ==
    ASSUME RefreshInv,
           \/ Rotate \/ Retire \/ Tick \/ Loop \/ LoopFails \/ LoopPanics
    PROVE  QueueInv' /\ ServedInv'
<1>1. UNCHANGED <<login, queue>>
  BY DEF Rotate, Retire, Tick, Loop, LoopReads, LoopPublishes, LoopWakes,
         Supervise, LoopFails, LoopPanics, refresh
<1>2. QueueInv'
  BY <1>1, QueueKept DEF RefreshInv
<1>3. signing' \in serving'
      /\ \A c \in Logins : c \in InFlight /\ login[c].key \in serving
                              => login[c].key \in serving'
  BY DEF RefreshInv, ServedInv, Rotate, Retire, Tick, Loop, LoopReads,
         LoopPublishes, LoopWakes, Supervise, LoopFails, LoopPanics, provider
<1>4. \A c \in Logins :
        login[c].phase \in {"verifying", "waiting", "fetching", "answered"}
            => c \in InFlight
  BY DEF InFlight
<1> QED
  BY <1>1, <1>2, <1>3, <1>4 DEF RefreshInv, ServedInv, Served

\* Every step keeps the counters and the recorded keys in their types.
LEMMA CountsStep ==
    ASSUME RefreshInv, Next
    PROVE  CountsInv'
<1> USE DEF RefreshInv, CountsInv
<1>1. CASE \/ Rotate \/ Retire \/ Tick \/ Loop \/ LoopFails \/ LoopPanics
  BY <1>1 DEF Rotate, Retire, Tick, Loop, LoopReads, LoopPublishes, LoopWakes,
       Supervise, LoopFails, LoopPanics, ghosts
<1>2. CASE \E c \in Logins :
             Begin(c) \/ Progress(c) \/ Disconnect(c) \/ Again(c)
  <2>1. PICK c \in Logins :
             Begin(c) \/ Progress(c) \/ Disconnect(c) \/ Again(c)
    BY <1>2
  <2>2. login[c].keys \subseteq Keys
    BY DEF WindowInv, WindowType, LoginType
  <2> QED
    BY <2>1, <2>2 DEF Begin, Progress, ExchangeCode, VerifyIdToken, Refresh,
       RefreshHeldOff, RefreshStarts, RefreshReads, RefreshEnds, RefreshFails,
       Disconnect, Again, ghosts
<1> QED  BY <1>1, <1>2 DEF Next

\* Every step keeps the invariant.
LEMMA RefreshStep == RefreshInv /\ [Next]_keyVars => RefreshInv'
<1> SUFFICES ASSUME RefreshInv, [Next]_keyVars PROVE RefreshInv'
  OBVIOUS
<1>1. WindowInv'
  BY WindowStep DEF RefreshInv
<1>2. CASE UNCHANGED keyVars
  BY <1>1, <1>2 DEF keyVars, RefreshInv, QueueInv, QueueDiscipline, CountsInv,
                    ServedInv, Served
<1>3. CASE Next
  <2>1. QueueInv' /\ ServedInv'
    BY <1>3, LoginKeeps, OthersKeep DEF Next
  <2> QED  BY <1>1, <1>3, <2>1, CountsStep DEF RefreshInv
<1> QED  BY <1>2, <1>3

\* The invariant holds in every state the server reaches.
THEOREM RefreshInvariant == Spec => []RefreshInv
BY RefreshInit, RefreshStep, PTL DEF Spec

\* For any number of logins: the lock of refresh_for_key_error is held by the
\* one login that fetches and its queue holds exactly the logins that wait,
\* however they end.
THEOREM LockIsDisciplined == Spec => []KeysInv
<1>1. RefreshInv => KeysInv
  BY DEF RefreshInv, WindowInv, WindowType, OneFetcher, QueueInv,
         QueueDiscipline, CountsInv, KeysInv, KeysTypeOK, LockDiscipline,
         LoginType, RefreshType
<1> QED  BY <1>1, RefreshInvariant, PTL

\* For any number of logins and rotations: a login that fetched the keys
\* itself is not refused for an unknown key.
THEOREM OwnRefreshIsServed == Spec => []OwnRefreshServes
<1>1. RefreshInv => OwnRefreshServes
  BY DEF RefreshInv, ServedInv, Served, OwnRefreshServes
<1> QED  BY <1>1, RefreshInvariant, PTL

=============================================================================
