-------------------------------- MODULE Pages --------------------------------
(***************************************************************************)
(* The lists of the authorization server and the clients that read them to *)
(* the end: keyset pages (pagination.rs, page_sorted of MemStore and       *)
(* fetch_page of PgStore) and the cursor walk of AuthzClient and of        *)
(* LakeFsClient, while rows are inserted and deleted between the pages.    *)
(*                                                                         *)
(* The key of a row is its place in the byte order of the keys, a positive *)
(* number; 0 is the empty string, the cursor of the first page and of the  *)
(* last.  A page is read at one moment.  Its answer may be lost, and a     *)
(* server or proxy between the two may answer anything.                    *)
(***************************************************************************)
EXTENDS Integers, FiniteSets, FiniteSetsExt

CONSTANTS
    Keys,           \* the keys that rows of the list can have
    Prefixed,       \* those that begin with the prefix of the walk
    Amounts,        \* the `amount` of the requests
    NoAmount,       \* absent, empty or unreadable
    DefaultPage,
    MaxPage,
    MaxPages,       \* the pages a walk follows
    MaxAttempts     \* the attempts of one request

ASSUME PagesAssumption ==
    /\ Keys \subseteq Nat \ {0}
    /\ IsFiniteSet(Keys)
    /\ Prefixed \subseteq Keys
    /\ Amounts \subseteq Int
    /\ DefaultPage \in 1 .. MaxPage
    /\ MaxPage \in Nat
    /\ MaxPages \in Nat \ {0}
    /\ MaxAttempts \in Nat \ {0}

VARIABLES
    rows,       \* the keys of the list
    walk,       \* the walk of the client
    stayed,     \* auxiliary: the rows that were there all the time so far
    ever,       \* auxiliary: the rows that were there at some time
    honest      \* auxiliary: every answer came from the list itself

pageVars == <<rows, walk, stayed, ever, honest>>

-----------------------------------------------------------------------------
(* The server. *)

\* A missing amount is the default, anything out of range the maximum.
Normalize(amount) ==
    IF amount = NoAmount THEN DefaultPage
    ELSE IF amount \in 1 .. MaxPage THEN amount ELSE MaxPage

\* Fault: the row of the cursor itself is answered again.
Matching_Inclusive(after) == {k \in rows : k \in Prefixed /\ k >= after}

\* The rows that the prefix and the cursor leave.
Matching(after) == {k \in rows : k \in Prefixed /\ k > after}

\* The first n keys of S.
First(S, n) == {k \in S : Cardinality({j \in S : j <= k}) <= n}

\* Fault: the cursor is the key of the extra row.
FromOverfetch_CursorIsExtra(fetched, limit) ==
    [items |-> First(fetched, limit),
     next_offset |-> IF Cardinality(fetched) > limit THEN Max(fetched) ELSE 0]

\* `fetched` holds one row more than the page when there is another page; the
\* cursor is the last key of the page.
FromOverfetch(fetched, limit) ==
    LET items == First(fetched, limit) IN
    [items |-> items,
     next_offset |-> IF Cardinality(fetched) > limit /\ items # {}
                     THEN Max(items) ELSE 0]

PageSorted(after, limit) ==
    FromOverfetch(First(Matching(after), limit + 1), limit)

Page == [items : SUBSET Keys, next_offset : Keys \cup {0}]

\* The pages a proxy may make up; what they hold does not matter.
StrayPages == [items : {{}}, next_offset : Keys \cup {0}]

NoPage == [items |-> {}, next_offset |-> 0]

-----------------------------------------------------------------------------
(* The client.  `kind` is the client of the authorization server, which    *)
(* retries and reports a walk that is too long, or the lakeFS client of    *)
(* the policy builder, which does not retry and returns what it has.       *)

Kinds == {"authz_client", "lakefs_client"}

PageInit ==
    /\ rows \in SUBSET Keys
    /\ walk \in [kind : Kinds, amount : Amounts \cup {NoAmount},
                 phase : {"request"}, after : {0}, pages : {0},
                 attempts : {0}, page : {NoPage}, names : {{}}]
    /\ stayed = rows
    /\ ever = rows
    /\ honest = TRUE

\* The server reads the page for the request that is under way.
ReadPage ==
    /\ walk.phase = "request"
    /\ walk' = [walk EXCEPT
                  !.phase = "answer",
                  !.page = PageSorted(walk.after, Normalize(walk.amount))]
    /\ UNCHANGED <<rows, stayed, ever, honest>>

\* A proxy answers with something else, from then on the list is not judged.
StrayAnswer(page) ==
    /\ walk.phase = "request"
    /\ walk' = [walk EXCEPT !.phase = "answer", !.page = page]
    /\ honest' = FALSE
    /\ stayed' = {}
    /\ ever' = {}
    /\ UNCHANGED rows

\* Fault: the attempts are not counted.
LoseAnswer_RetriesForever ==
    /\ walk.phase = "answer"
    /\ walk' = IF walk.kind = "authz_client"
               THEN [walk EXCEPT !.phase = "request", !.page = NoPage]
               ELSE [walk EXCEPT !.phase = "failed", !.page = NoPage]
    /\ UNCHANGED <<rows, stayed, ever, honest>>

\* The answer is an error or is lost: a GET is sent again, or the walk fails.
LoseAnswer ==
    /\ walk.phase = "answer"
    /\ walk' = IF walk.kind = "authz_client" /\ walk.attempts + 1 < MaxAttempts
               THEN [walk EXCEPT !.phase = "request", !.attempts = @ + 1,
                                 !.page = NoPage]
               ELSE [walk EXCEPT !.phase = "failed", !.page = NoPage]
    /\ UNCHANGED <<rows, stayed, ever, honest>>

\* lakeFS refuses the list: an empty result for autocompletion.
Forbidden ==
    /\ walk.phase = "request"
    /\ walk.kind = "lakefs_client"
    /\ walk' = [walk EXCEPT !.phase = "forbidden", !.names = {}]
    /\ UNCHANGED <<rows, stayed, ever, honest>>

\* Fault: the pages are counted from zero.
Cursor_OnePageMore(pages, after, next_offset) ==
    IF next_offset = 0 THEN "complete"
    ELSE IF next_offset = after THEN "repeated"
    ELSE IF pages - 1 >= MaxPages THEN "too_many_pages"
    ELSE "more"

\* Fault: the cursor is stored before it is compared with the stored one.
Cursor_StoredFirst(pages, after, next_offset) ==
    IF next_offset = 0 THEN "complete" ELSE "repeated"

\* What CursorWalk::advance answers to the cursor of the page.
Cursor(pages, after, next_offset) ==
    IF next_offset = 0 THEN "complete"
    ELSE IF next_offset = after THEN "repeated"
    ELSE IF pages >= MaxPages THEN "too_many_pages"
    ELSE "more"

\* The client adds the page to what it has and decides whether to go on.
Advance ==
    /\ walk.phase = "answer"
    /\ LET pages == walk.pages + 1
           cursor == Cursor(pages, walk.after, walk.page.next_offset)
           next == [walk EXCEPT !.pages = pages, !.page = NoPage,
                                !.names = @ \cup walk.page.items]
       IN walk' =
            CASE cursor = "complete" -> [next EXCEPT !.phase = "done"]
              [] cursor = "repeated" -> [next EXCEPT !.phase = "repeated"]
              [] cursor = "too_many_pages" ->
                   [next EXCEPT !.phase = IF walk.kind = "lakefs_client"
                                          THEN "cut" ELSE "failed"]
              [] cursor = "more" ->
                   [next EXCEPT !.phase = "request", !.attempts = 0,
                                !.after = walk.page.next_offset]
    /\ UNCHANGED <<rows, stayed, ever, honest>>

-----------------------------------------------------------------------------
(* The other requests. *)

Ended(w) == w.phase \in {"done", "cut", "forbidden", "repeated", "failed"}

InsertRow(k) ==
    /\ ~Ended(walk)
    /\ rows' = rows \cup {k}
    /\ ever' = IF honest THEN ever \cup {k} ELSE ever
    /\ UNCHANGED <<walk, stayed, honest>>

DeleteRow(k) ==
    /\ ~Ended(walk)
    /\ rows' = rows \ {k}
    /\ stayed' = stayed \ {k}
    /\ UNCHANGED <<walk, ever, honest>>

PageNext ==
    \/ ReadPage \/ LoseAnswer \/ Forbidden \/ Advance
    \/ \E page \in StrayPages : StrayAnswer(page)
    \/ \E k \in Keys : InsertRow(k) \/ DeleteRow(k)

\* A request is answered, by the list or by something else, and the client
\* goes on when it has an answer.
PageFairness ==
    /\ WF_walk(ReadPage \/ \E page \in StrayPages : StrayAnswer(page))
    /\ WF_walk(Advance \/ LoseAnswer)

PageSpec == PageInit /\ [][PageNext]_pageVars /\ PageFairness

-----------------------------------------------------------------------------
(* Properties. *)

\* Every variable has its type; no page is larger than the maximum and no
\* walk follows more pages than it may.
PagesTypeOK ==
    /\ rows \subseteq Keys
    /\ walk.page \in Page
    /\ honest => Cardinality(walk.page.items) <= MaxPage
    /\ walk.after \in Keys \cup {0}
    /\ walk.pages <= MaxPages
    /\ walk.attempts < MaxAttempts

\* A row that is there from the first request on is in the result once the
\* cursor has passed it, whatever is inserted or deleted in between, rows that
\* a cursor names included; so a walk that completes has all of them, and one
\* that was cut has all up to its cursor.
NoStayingRowMissed ==
    honest =>
        /\ walk.phase # "forbidden" =>
              \A k \in stayed \cap Prefixed :
                 k <= walk.after => k \in walk.names
        /\ walk.phase = "done" => stayed \cap Prefixed \subseteq walk.names

\* A walk finds only rows that existed while it ran and that match, and no row
\* twice, although the pages are read at different moments.
NoRowTwice ==
    honest =>
        /\ walk.names \subseteq ever \cap Prefixed
        /\ walk.phase = "answer" => walk.page.items \cap walk.names = {}

\* Rows are found exactly once: a walk over a list that changes under it
\* (CursorWalk, from_overfetch) misses no row that stays and repeats none.
RowsFoundOnce == NoStayingRowMissed /\ NoRowTwice

\* Only a server that misbehaves is accused: the cursor of the list itself
\* never repeats, and a page that announces another one is not empty.
HonestCursorAdvances ==
    honest =>
        /\ walk.phase # "repeated"
        /\ walk.phase = "answer" /\ walk.page.next_offset # 0 =>
              /\ walk.page.next_offset > walk.after
              /\ walk.page.items # {}

\* The bounds of a walk and of its pages, and the cursor that goes forward.
PagesInv == PagesTypeOK /\ HonestCursorAdvances

\* Every walk ends, although rows come all the time and although the server
\* may answer every request with another cursor.
WalkEnds == <>Ended(walk)

=============================================================================
