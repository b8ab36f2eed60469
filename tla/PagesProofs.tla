----------------------------- MODULE PagesProofs -----------------------------
(***************************************************************************)
(* The keyset pages and the cursor walk, for any set of keys, any prefix,  *)
(* any amounts and bounds: a walk over a list that changes under it finds  *)
(* every row that stays, and none twice.                                   *)
(*                                                                         *)
(* The argument is in two parts.  What one page promises (PageOk) follows  *)
(* from how it is cut out of the list: First(S, n) is closed downwards in  *)
(* S, so the page holds everything between the cursor that was sent and    *)
(* the one it answers, and everything behind it when it answers none.  The *)
(* walk then keeps HonestInv: what it has is the rows up to its cursor,    *)
(* and a page that is on its way begins behind it.  Rows inserted or       *)
(* deleted after the page was read cannot break that, because only rows    *)
(* that were there all the time are promised.                              *)
(***************************************************************************)
EXTENDS Pages, FiniteSetTheorems, WellFoundedInduction, TLAPS

Phases == {"request", "answer", "done", "cut", "forbidden", "repeated", "failed"}

WalkType ==
    [kind : Kinds, amount : Amounts \cup {NoAmount}, phase : Phases,
     after : Keys \cup {0}, pages : 0 .. MaxPages,
     attempts : 0 .. MaxAttempts - 1, page : Page, names : SUBSET Keys]

ListType ==
    /\ rows \subseteq Keys
    /\ walk \in WalkType
    /\ stayed \subseteq rows
    /\ ever \subseteq Keys
    /\ honest \in BOOLEAN

\* A walk that still goes on may follow one page more.
WalkInv == walk.phase \in {"request", "answer"} => walk.pages < MaxPages

\* What a page of the list that was read behind the cursor `after` promises,
\* when the rows of `staying` are there all the time.
PageOk(page, after, staying, known) ==
    /\ page.items \subseteq known
    /\ Cardinality(page.items) <= MaxPage
    /\ \A k \in page.items : k > after
    /\ page.next_offset # 0 =>
          /\ page.next_offset > after
          /\ page.items # {}
          /\ \A k \in page.items : k <= page.next_offset
          /\ \A k \in staying : after < k /\ k <= page.next_offset => k \in page.items
    /\ page.next_offset = 0 => \A k \in staying : k > after => k \in page.items

HonestInv ==
    honest =>
        /\ rows \subseteq ever
        /\ walk.phase # "repeated"
        /\ walk.names \subseteq ever \cap Prefixed
        /\ walk.phase \in {"request", "answer"} => \A k \in walk.names : k <= walk.after
        /\ walk.phase # "forbidden" =>
              \A k \in stayed \cap Prefixed : k <= walk.after => k \in walk.names
        /\ walk.phase = "done" => stayed \cap Prefixed \subseteq walk.names
        /\ walk.phase = "answer" =>
              PageOk(walk.page, walk.after, stayed \cap Prefixed, ever \cap Prefixed)
        /\ walk.phase # "answer" => walk.page = NoPage

PageWalkInv == ListType /\ WalkInv /\ HonestInv

-----------------------------------------------------------------------------
(* The first keys of a finite set. *)

\* A set of keys that is not empty has a smallest one.
LEMMA SmallestKey ==
    ASSUME NEW S, S \subseteq Nat, S # {}
    PROVE  \E m \in S : \A k \in S : m <= k
<1>1. PICK m \in S : \A k \in S : <<k, m>> \notin OpToRel(<, Nat)
  <2> HIDE DEF OpToRel
  <2> QED  BY WFMin, NatLessThanWellFounded
<1>2. ASSUME NEW k \in S
      PROVE  m <= k
  <2>1. k \in Nat /\ m \in Nat
    OBVIOUS
  <2>2. ~(k < m)
    BY <1>1, <2>1 DEF OpToRel
  <2> QED  BY <2>1, <2>2
<1> QED  BY <1>2

\* The place of k in the order of S.
Rank(S, k) == Cardinality({j \in S : j <= k})

\* The places are numbers, and follow the order.
LEMMA RankGrows ==
    ASSUME NEW S, S \subseteq Nat, IsFiniteSet(S)
    PROVE  /\ \A k : Rank(S, k) \in Nat /\ Rank(S, k) <= Cardinality(S)
           /\ \A j, k \in S : j <= k => Rank(S, j) <= Rank(S, k)
           /\ \A j, k \in S : j < k => Rank(S, j) < Rank(S, k)
<1>1. ASSUME NEW k
      PROVE  /\ IsFiniteSet({j \in S : j <= k})
             /\ Rank(S, k) \in Nat /\ Rank(S, k) <= Cardinality(S)
  <2>1. {j \in S : j <= k} \in SUBSET S
    OBVIOUS
  <2>2. /\ IsFiniteSet({j \in S : j <= k})
        /\ Cardinality({j \in S : j <= k}) <= Cardinality(S)
    BY <2>1, FS_Subset
  <2> QED  BY <2>2, FS_CardinalityType DEF Rank
<1>2. ASSUME NEW j \in S, NEW k \in S, j <= k
      PROVE  /\ Rank(S, j) <= Rank(S, k)
             /\ j < k => Rank(S, j) # Rank(S, k)
  <2> DEFINE J == {i \in S : i <= j}
             K == {i \in S : i <= k}
  <2>1. J \in SUBSET K
    <3>1. ASSUME NEW i \in S, i <= j
          PROVE  i <= k
      <4>1. i \in Nat /\ j \in Nat /\ k \in Nat
        OBVIOUS
      <4> QED  BY <1>2, <3>1, <4>1
    <3> QED  BY <3>1
  <2>2. IsFiniteSet(K)
    BY <1>1
  <2>3. j < k => k \in K /\ k \notin J
    OBVIOUS
  <2>4. Cardinality(J) <= Cardinality(K) /\ (Cardinality(K) = Cardinality(J) => K = J)
    <3> HIDE DEF J, K
    <3> QED  BY <2>1, <2>2, FS_Subset
  <2>5. j < k => K # J
    <3> HIDE DEF J, K
    <3> QED  BY <2>3
  <2>6. Rank(S, j) = Cardinality(J) /\ Rank(S, k) = Cardinality(K)
    BY DEF Rank
  <2> HIDE DEF J, K
  <2> QED  BY <2>4, <2>5, <2>6
<1>3. ASSUME NEW j \in S, NEW k \in S, j < k
      PROVE  Rank(S, j) < Rank(S, k)
  <2>1. j <= k
    <3>1. j \in Nat /\ k \in Nat
      OBVIOUS
    <3> QED  BY <1>3, <3>1
  <2>2. Rank(S, j) <= Rank(S, k) /\ Rank(S, j) # Rank(S, k)
    BY <1>2, <1>3, <2>1
  <2>3. Rank(S, j) \in Nat /\ Rank(S, k) \in Nat
    BY <1>1
  <2> QED  BY <2>2, <2>3
<1> QED  BY <1>1, <1>2, <1>3

\* A finite set of keys that is not empty has a largest one: Max.
LEMMA LargestKey ==
    ASSUME NEW S, S \subseteq Nat, IsFiniteSet(S), S # {}
    PROVE  Max(S) \in S /\ \A k \in S : k <= Max(S)
<1> DEFINE D == {Cardinality(S) - Rank(S, k) : k \in S}
<1>1. Cardinality(S) \in Nat
  BY FS_CardinalityType
<1>2. D \subseteq Nat /\ D # {}
  <2>1. ASSUME NEW k \in S
        PROVE  Cardinality(S) - Rank(S, k) \in Nat
    <3>1. Rank(S, k) \in Nat /\ Rank(S, k) <= Cardinality(S)
      BY RankGrows
    <3> QED  BY <1>1, <3>1
  <2> QED  BY <2>1
<1>3. PICK d \in D : \A e \in D : d <= e
  <2> HIDE DEF D
  <2> QED  BY <1>2, SmallestKey
<1>4. PICK m \in S : d = Cardinality(S) - Rank(S, m)
  OBVIOUS
<1>5. ASSUME NEW k \in S
      PROVE  k <= m
  <2>1. Rank(S, k) \in Nat /\ Rank(S, m) \in Nat
    BY RankGrows
  <2>2. Cardinality(S) - Rank(S, m) <= Cardinality(S) - Rank(S, k)
    BY <1>3, <1>4
  <2>3. m < k => Rank(S, m) < Rank(S, k)
    BY RankGrows
  <2>4. k \in Nat /\ m \in Nat
    OBVIOUS
  <2> QED  BY <1>1, <2>1, <2>2, <2>3, <2>4
<1>6. \E x \in S : \A y \in S : x >= y
  BY <1>5
<1> QED  BY <1>6 DEF Max

\* The first n keys of S are keys of S, no more than n, and with a key all
\* that come before it.
LEMMA FirstKeys ==
    ASSUME NEW S, S \subseteq Nat, IsFiniteSet(S), NEW n \in Nat
    PROVE  /\ First(S, n) \subseteq S
           /\ IsFiniteSet(First(S, n))
           /\ Cardinality(First(S, n)) <= n
           /\ \A k \in First(S, n) : \A j \in S : j <= k => j \in First(S, n)
<1>1. First(S, n) = {k \in S : Rank(S, k) <= n}
  BY DEF First, Rank
<1>2. First(S, n) \subseteq S
  BY <1>1
<1>3. IsFiniteSet(First(S, n))
  BY <1>2, FS_Subset
<1>4. ASSUME NEW k \in First(S, n), NEW j \in S, j <= k
      PROVE  j \in First(S, n)
  <2>1. Rank(S, j) <= Rank(S, k) /\ Rank(S, k) <= n
    BY <1>1, <1>4, RankGrows
  <2>2. Rank(S, j) \in Nat /\ Rank(S, k) \in Nat
    BY RankGrows
  <2> QED  BY <1>1, <2>1, <2>2
<1>5. Cardinality(First(S, n)) <= n
  <2>1. CASE First(S, n) = {}
    BY <2>1, FS_EmptySet
  <2>2. CASE First(S, n) # {}
    <3>1. PICK m \in First(S, n) : \A k \in First(S, n) : k <= m
      BY <1>2, <1>3, <2>2, LargestKey
    <3> DEFINE T == {j \in S : j <= m}
    <3>2. First(S, n) \in SUBSET T
      BY <1>2, <3>1
    <3>3. IsFiniteSet(T) /\ Cardinality(T) = Rank(S, m)
      BY FS_Subset DEF Rank
    <3>4. Cardinality(First(S, n)) <= Cardinality(T)
      <4> HIDE DEF T
      <4> QED  BY <3>2, <3>3, FS_Subset
    <3>5. Rank(S, m) <= n /\ Rank(S, m) \in Nat
      BY <1>1, RankGrows
    <3>6. Cardinality(First(S, n)) \in Nat
      BY <1>3, FS_CardinalityType
    <3> HIDE DEF T
    <3> QED  BY <3>3, <3>4, <3>5, <3>6
  <2> QED  BY <2>1, <2>2
<1> QED  BY <1>2, <1>3, <1>4, <1>5

\* When a key of S is not among the first n, the first n are really n.
LEMMA FirstIsFull ==
    ASSUME NEW S, S \subseteq Nat, IsFiniteSet(S), NEW n \in Nat,
           First(S, n) # S
    PROVE  Cardinality(First(S, n)) >= n
<1> DEFINE R == S \ First(S, n)
<1>1. R \subseteq Nat /\ R # {}
  BY FirstKeys
<1>2. PICK k \in R : \A j \in R : k <= j
  <2> HIDE DEF R
  <2> QED  BY <1>1, SmallestKey
<1> DEFINE B == {j \in S : j < k}
           K == {j \in S : j <= k}
<1>3. B \in SUBSET First(S, n)
  <2>1. ASSUME NEW j \in S, j < k
        PROVE  j \in First(S, n)
    <3>1. j \in Nat /\ k \in Nat
      OBVIOUS
    <3>2. j \notin R
      BY <1>2, <2>1, <3>1
    <3> QED  BY <3>2
  <2> QED  BY <2>1
<1>4. K = B \cup {k} /\ k \notin B
  <2>1. \A j \in S : j <= k <=> j < k \/ j = k
    <3>1. \A j \in S : j \in Nat
      OBVIOUS
    <3>2. k \in Nat
      OBVIOUS
    <3> QED  BY <3>1, <3>2
  <2>2. ~(k < k)
    <3>1. k \in Nat
      OBVIOUS
    <3> QED  BY <3>1
  <2> QED  BY <2>1, <2>2
<1>5. IsFiniteSet(B)
  BY FS_Subset
<1>6. Cardinality(K) = Cardinality(B) + 1
  <2> HIDE DEF B, K
  <2> QED  BY <1>4, <1>5, FS_AddElement
<1>7. ~(Cardinality(K) <= n)
  BY DEF First
<1>8. Cardinality(B) \in Nat
  <2> HIDE DEF B
  <2> QED  BY <1>5, FS_CardinalityType
<1>9. Cardinality(B) <= Cardinality(First(S, n))
  <2> HIDE DEF B
  <2> QED  BY <1>3, FirstKeys, FS_Subset
<1>10. Cardinality(First(S, n)) \in Nat
  BY FirstKeys, FS_CardinalityType
<1> HIDE DEF B, K
<1> QED  BY <1>6, <1>7, <1>8, <1>9, <1>10
-----------------------------------------------------------------------------
(* One page of the list. *)

USE PagesAssumption

\* Keys and cursors are numbers.
LEMMA KeysAreNumbers == \A k : k \in Keys \cup {0} => k \in Nat
OBVIOUS

\* Every page has room for a row.
LEMMA NormalizeType ==
    ASSUME NEW amount
    PROVE  Normalize(amount) \in 1 .. MaxPage
BY DEF Normalize

\* What the list answers is a page that keeps what PageOk promises, for the
\* rows that are there when it is read.
LEMMA ListPage ==
    ASSUME rows \subseteq Keys, NEW after \in Keys \cup {0},
           NEW limit \in 1 .. MaxPage
    PROVE  /\ PageSorted(after, limit) \in Page
           /\ PageOk(PageSorted(after, limit), after,
                     rows \cap Prefixed, rows \cap Prefixed)
<1> DEFINE M == Matching(after)
           F == First(M, limit + 1)
           I == First(F, limit)
           more == Cardinality(F) > limit /\ I # {}
           page == [items |-> I, next_offset |-> IF more THEN Max(I) ELSE 0]
<1>1. PageSorted(after, limit) = page
  BY DEF PageSorted, FromOverfetch
<1>2. M \subseteq Keys /\ M \subseteq Nat /\ IsFiniteSet(M)
  <2>1. M \in SUBSET Keys
    BY DEF Matching
  <2> QED  BY <2>1, FS_Subset
<1>3. limit \in Nat /\ limit + 1 \in Nat /\ limit >= 1
  OBVIOUS
<1>4. /\ F \subseteq M /\ IsFiniteSet(F)
      /\ \A k \in F : \A j \in M : j <= k => j \in F
  <2> HIDE DEF M
  <2> QED  BY <1>2, <1>3, FirstKeys
<1>5. F \subseteq Nat
  BY <1>2, <1>4
<1>6. /\ I \subseteq F /\ IsFiniteSet(I) /\ Cardinality(I) <= limit
      /\ \A k \in I : \A j \in F : j <= k => j \in I
  <2> HIDE DEF F
  <2> QED  BY <1>3, <1>4, <1>5, FirstKeys
<1>7. I \subseteq Nat /\ I \subseteq Keys
  BY <1>2, <1>4, <1>6
<1>8. \A k \in I : \A j \in M : j <= k => j \in I
  <2> HIDE DEF M, F, I
  <2> QED  BY <1>4, <1>6
<1>9. I # {} => Max(I) \in I /\ \A k \in I : k <= Max(I)
  <2> HIDE DEF I
  <2> QED  BY <1>6, <1>7, LargestKey
<1>10. Cardinality(I) <= MaxPage /\ Cardinality(F) \in Nat
  <2>1. Cardinality(I) \in Nat /\ Cardinality(F) \in Nat
    <3> HIDE DEF I, F
    <3> QED  BY <1>4, <1>6, FS_CardinalityType
  <2> HIDE DEF I
  <2> QED  BY <1>6, <2>1
\* A page without a cursor is the rest of the list.
<1>11. ASSUME ~more
       PROVE  I = M
  <2>1. ~(Cardinality(F) > limit) => F = M
    <3> HIDE DEF M
    <3>1. F # M => Cardinality(F) >= limit + 1
      BY <1>2, <1>3, FirstIsFull
    <3> QED  BY <1>3, <1>10, <3>1
  <2>2. ~(Cardinality(F) > limit) => I = F
    <3>1. SUFFICES ASSUME ~(Cardinality(F) > limit), NEW k \in F
                   PROVE  k \in I
      BY <1>6
    <3>2. Cardinality({j \in F : j <= k}) <= limit
      <4> HIDE DEF F
      <4>1. Rank(F, k) \in Nat /\ Rank(F, k) <= Cardinality(F)
        BY <1>4, <1>5, RankGrows
      <4> QED  BY <1>3, <1>10, <3>1, <4>1 DEF Rank
    <3> QED  BY <3>2 DEF First
  <2>3. CASE Cardinality(F) > limit
    <3>1. I = {}
      BY <1>11, <2>3
    <3>2. I # F
      <4> HIDE DEF F, I
      <4>1. I = F => Cardinality(F) <= limit
        BY <1>6
      <4> QED  BY <1>3, <1>10, <2>3, <4>1
    <3>3. Cardinality(I) >= limit
      <4> HIDE DEF F
      <4> QED  BY <1>3, <1>4, <1>5, <3>2, FirstIsFull
    <3> HIDE DEF I, F
    <3> QED  BY <1>3, <3>1, <3>3, FS_EmptySet
  <2> QED  BY <2>1, <2>2, <2>3
<1>12. \A k \in rows \cap Prefixed : k > after => k \in M
  BY DEF Matching
<1>13. M \subseteq rows \cap Prefixed /\ \A k \in M : k > after
  BY DEF Matching
<1>14. I \subseteq M
  BY <1>4, <1>6
<1> HIDE DEF M, F, I
<1>15. page \in Page
  <2>1. more => Max(I) \in Keys
    BY <1>7, <1>9
  <2> QED  BY <1>7, <2>1 DEF Page
<1>16. page.items = I /\ page.next_offset = IF more THEN Max(I) ELSE 0
  OBVIOUS
<1>17. PageOk(page, after, rows \cap Prefixed, rows \cap Prefixed)
  <2>1. /\ page.items \subseteq rows \cap Prefixed
        /\ Cardinality(page.items) <= MaxPage
        /\ \A k \in page.items : k > after
    BY <1>10, <1>13, <1>14, <1>16
  <2>2. CASE more
    <3>1. page.next_offset = Max(I) /\ Max(I) \in I /\ I # {}
      BY <1>9, <1>16, <2>2
    <3>2. page.next_offset > after /\ page.next_offset # 0
      BY <1>7, <3>1, <1>13, <1>14
    <3>3. \A k \in page.items : k <= page.next_offset
      BY <1>9, <1>16, <3>1
    <3>4. \A k \in rows \cap Prefixed :
             after < k /\ k <= page.next_offset => k \in page.items
      <4>1. SUFFICES ASSUME NEW k \in rows \cap Prefixed, after < k, k <= Max(I)
                     PROVE  k \in I
        BY <1>16, <3>1
      <4>2. k \in Nat /\ after \in Nat
        OBVIOUS
      <4>3. k > after
        BY <4>1, <4>2
      <4> QED  BY <1>8, <1>12, <3>1, <4>1, <4>3
    <3> QED  BY <1>16, <2>1, <3>1, <3>2, <3>3, <3>4 DEF PageOk
  <2>3. CASE ~more
    <3>1. page.next_offset = 0 /\ page.items = M
      BY <1>11, <1>16, <2>3
    <3> QED  BY <1>12, <2>1, <3>1 DEF PageOk
  <2> QED  BY <2>2, <2>3
<1> QED  BY <1>1, <1>15, <1>17

\* The promise of a page survives that rows go and that rows come.
LEMMA PageStaysOk ==
    ASSUME NEW page, NEW after, NEW S, NEW T \in SUBSET S,
           NEW U, NEW V, U \subseteq V, PageOk(page, after, S, U)
    PROVE  PageOk(page, after, T, V)
BY DEF PageOk
-----------------------------------------------------------------------------
(* The walk. *)

\* A walk begins with the first page and has nothing yet.
LEMMA PageWalkInit == PageInit => PageWalkInv
<1> SUFFICES ASSUME PageInit PROVE PageWalkInv
  OBVIOUS
<1>1. /\ walk.phase = "request" /\ walk.after = 0 /\ walk.pages = 0
      /\ walk.page = NoPage /\ walk.names = {}
      /\ stayed = rows /\ ever = rows /\ honest = TRUE /\ rows \subseteq Keys
  BY DEF PageInit
<1>2. walk \in WalkType
  <2>1. NoPage \in Page
    BY DEF NoPage, Page
  <2> QED  BY <2>1 DEF PageInit, WalkType, Phases
<1>3. HonestInv
  <2>1. ASSUME NEW k \in stayed \cap Prefixed
        PROVE  ~(k <= 0)
    <3>1. k \in Nat /\ k # 0
      OBVIOUS
    <3> QED  BY <3>1
  <2> QED  BY <1>1, <2>1 DEF HonestInv
<1> QED  BY <1>1, <1>2, <1>3 DEF PageWalkInv, ListType, WalkInv

\* The server reads a page.
LEMMA ReadPageStep ==
    ASSUME PageWalkInv, ReadPage
    PROVE  PageWalkInv'
<1> DEFINE page == PageSorted(walk.after, Normalize(walk.amount))
<1>1. /\ walk.phase = "request" /\ walk \in WalkType
      /\ walk' = [walk EXCEPT !.phase = "answer", !.page = page]
      /\ UNCHANGED <<rows, stayed, ever, honest>>
  BY DEF ReadPage, PageWalkInv, ListType
<1>2. page \in Page /\ PageOk(page, walk.after, rows \cap Prefixed, rows \cap Prefixed)
  <2>1. walk.after \in Keys \cup {0} /\ rows \subseteq Keys
    BY <1>1 DEF WalkType, PageWalkInv, ListType
  <2> QED  BY <2>1, NormalizeType, ListPage
<1> HIDE DEF page
<1>3. walk' \in WalkType
  BY <1>1, <1>2 DEF WalkType, Phases
<1>4. /\ walk'.phase = "answer" /\ walk'.page = page
      /\ walk'.after = walk.after /\ walk'.pages = walk.pages
      /\ walk'.names = walk.names
  BY <1>1 DEF WalkType
<1>5. HonestInv'
  <2>1. SUFFICES ASSUME honest PROVE HonestInv'
    BY <1>1 DEF HonestInv
  <2>2. PageOk(page, walk.after, stayed \cap Prefixed, ever \cap Prefixed)
    <3>1. stayed \cap Prefixed \in SUBSET (rows \cap Prefixed)
      BY DEF PageWalkInv, ListType
    <3>2. rows \cap Prefixed \subseteq ever \cap Prefixed
      BY <2>1 DEF PageWalkInv, HonestInv
    <3> QED  BY <1>2, <3>1, <3>2, PageStaysOk
  <2>3. PageOk(walk'.page, walk'.after, stayed' \cap Prefixed, ever' \cap Prefixed)
    BY <1>1, <1>4, <2>2
  <2> QED  BY <1>1, <1>4, <2>1, <2>2, <2>3 DEF PageWalkInv, HonestInv
<1> QED  BY <1>1, <1>3, <1>4, <1>5 DEF PageWalkInv, ListType, WalkInv
\* A proxy answers: nothing is promised from then on but the bounds.
LEMMA StrayStep ==
    ASSUME PageWalkInv, NEW page \in StrayPages, StrayAnswer(page)
    PROVE  PageWalkInv'
<1>1. walk \in WalkType /\ walk.phase = "request" /\ walk.pages < MaxPages
  BY DEF StrayAnswer, PageWalkInv, ListType, WalkInv
<1>2. walk' \in WalkType /\ walk'.pages = walk.pages
  <2>1. page \in Page
    BY DEF StrayPages, Page
  <2> QED  BY <1>1, <2>1 DEF StrayAnswer, WalkType, Phases
<1>3. /\ rows' = rows /\ stayed' = {} /\ ever' = {} /\ honest' = FALSE
  BY DEF StrayAnswer
<1>4. HonestInv'
  BY <1>3 DEF HonestInv
<1> QED  BY <1>1, <1>2, <1>3, <1>4 DEF PageWalkInv, ListType, WalkInv

\* An answer is lost: the same page is asked for again, or the walk fails; an
\* autocompletion may also be refused.
LEMMA LoseStep ==
    ASSUME PageWalkInv, LoseAnswer \/ Forbidden
    PROVE  PageWalkInv'
<1>1. walk \in WalkType /\ walk.pages < MaxPages /\ UNCHANGED <<rows, stayed, ever, honest>>
  BY DEF LoseAnswer, Forbidden, PageWalkInv, ListType, WalkInv
<1>2. CASE LoseAnswer
  <2>1. PICK phase \in {"request", "failed"}, attempts \in 0 .. MaxAttempts - 1 :
          walk' = [walk EXCEPT !.phase = phase, !.attempts = attempts, !.page = NoPage]
    <3>1. CASE walk.kind = "authz_client" /\ walk.attempts + 1 < MaxAttempts
      <4>1. walk.attempts + 1 \in 0 .. MaxAttempts - 1
        BY <1>1, <3>1 DEF WalkType
      <4>2. walk' = [walk EXCEPT !.phase = "request", !.attempts = walk.attempts + 1,
                                 !.page = NoPage]
        BY <1>2, <3>1 DEF LoseAnswer
      <4> QED  BY <4>1, <4>2
    <3>2. CASE ~(walk.kind = "authz_client" /\ walk.attempts + 1 < MaxAttempts)
      <4>1. walk' = [walk EXCEPT !.phase = "failed", !.page = NoPage]
        BY <1>2, <3>2 DEF LoseAnswer
      <4>2. walk' = [walk EXCEPT !.phase = "failed", !.attempts = walk.attempts,
                                 !.page = NoPage]
        BY <1>1, <4>1 DEF WalkType
      <4>3. walk.attempts \in 0 .. MaxAttempts - 1
        BY <1>1 DEF WalkType
      <4> QED  BY <4>2, <4>3
    <3> QED  BY <3>1, <3>2
  <2>2. walk' \in WalkType
    <3>1. NoPage \in Page
      BY DEF NoPage, Page
    <3> QED  BY <1>1, <2>1, <3>1 DEF WalkType, Phases
  <2>3. /\ walk'.phase = phase /\ walk'.page = NoPage
        /\ walk'.after = walk.after /\ walk'.pages = walk.pages
        /\ walk'.names = walk.names /\ walk.phase = "answer"
    BY <1>1, <1>2, <2>1 DEF WalkType, LoseAnswer
  <2>4. HonestInv'
    BY <1>1, <2>3 DEF PageWalkInv, HonestInv
  <2> QED  BY <1>1, <2>2, <2>3, <2>4 DEF PageWalkInv, ListType, WalkInv
<1>3. CASE Forbidden
  <2>1. walk' \in WalkType
    BY <1>1, <1>3 DEF Forbidden, WalkType, Phases
  <2>2. /\ walk'.phase = "forbidden" /\ walk'.page = walk.page
        /\ walk'.names = {} /\ walk.phase = "request"
    BY <1>1, <1>3 DEF Forbidden, WalkType
  <2>3. HonestInv'
    BY <1>1, <2>2 DEF PageWalkInv, HonestInv
  <2> QED  BY <1>1, <2>1, <2>2, <2>3 DEF PageWalkInv, ListType, WalkInv
<1> QED  BY <1>2, <1>3

\* Rows come and go while the walk is under way.
LEMMA RowsStep ==
    ASSUME PageWalkInv, NEW k \in Keys, InsertRow(k) \/ DeleteRow(k)
    PROVE  PageWalkInv'
<1>1. /\ UNCHANGED <<walk, honest>> /\ ListType
      /\ rows' \in {rows \cup {k}, rows \ {k}}
  BY DEF InsertRow, DeleteRow, PageWalkInv
<1>2. /\ stayed' \subseteq stayed /\ stayed' \subseteq rows'
      /\ ever \subseteq ever' /\ ever' \subseteq Keys
      /\ honest /\ rows \subseteq ever => rows' \subseteq ever'
  BY <1>1 DEF InsertRow, DeleteRow, ListType
<1>3. ListType' /\ WalkInv'
  BY <1>1, <1>2 DEF PageWalkInv, ListType, WalkInv
<1>4. ASSUME honest
      PROVE  HonestInv'
  <2>1. walk.phase = "answer" =>
          PageOk(walk'.page, walk'.after, stayed' \cap Prefixed, ever' \cap Prefixed)
    <3>1. SUFFICES ASSUME walk.phase = "answer"
                   PROVE  PageOk(walk.page, walk.after, stayed' \cap Prefixed, ever' \cap Prefixed)
      BY <1>1
    <3>2. PageOk(walk.page, walk.after, stayed \cap Prefixed, ever \cap Prefixed)
      BY <1>4, <3>1 DEF PageWalkInv, HonestInv
    <3>3. /\ stayed' \cap Prefixed \in SUBSET (stayed \cap Prefixed)
          /\ ever \cap Prefixed \subseteq ever' \cap Prefixed
      BY <1>2
    <3> QED  BY <3>2, <3>3, PageStaysOk
  <2> QED  BY <1>1, <1>2, <1>4, <2>1 DEF PageWalkInv, HonestInv
<1> QED  BY <1>1, <1>3, <1>4 DEF PageWalkInv, HonestInv

\* The client takes a page: it keeps the bound on the pages, and with a page of
\* the list it then has the rows up to the new cursor.
LEMMA AdvanceStep ==
    ASSUME PageWalkInv, Advance
    PROVE  PageWalkInv'
<1> DEFINE next == walk.page.next_offset
           cursor == Cursor(walk.pages + 1, walk.after, next)
<1>1. /\ walk \in WalkType /\ walk.phase = "answer" /\ walk.pages < MaxPages
      /\ UNCHANGED <<rows, stayed, ever, honest>>
  BY DEF Advance, PageWalkInv, ListType, WalkInv
<1>2. /\ next \in Keys \cup {0} /\ walk.page.items \subseteq Keys
      /\ walk.names \subseteq Keys /\ walk.after \in Keys \cup {0}
      /\ walk.pages \in Nat
  BY <1>1 DEF WalkType, Page
<1>3. PICK phase \in Phases, attempts \in 0 .. MaxAttempts - 1,
           after \in Keys \cup {0} :
        /\ walk' = [walk EXCEPT !.phase = phase, !.attempts = attempts,
                                !.after = after, !.pages = walk.pages + 1,
                                !.page = NoPage,
                                !.names = walk.names \cup walk.page.items]
        /\ \/ cursor = "complete" /\ phase = "done" /\ after = walk.after
           \/ cursor = "repeated" /\ phase = "repeated" /\ after = walk.after
           \/ cursor = "too_many_pages" /\ phase \in {"cut", "failed"} /\ after = walk.after
           \/ cursor = "more" /\ phase = "request" /\ after = next
  <2>1. walk.attempts \in 0 .. MaxAttempts - 1 /\ 0 \in 0 .. MaxAttempts - 1
    BY <1>1 DEF WalkType
  <2>2. cursor \in {"complete", "repeated", "too_many_pages", "more"}
    BY DEF Cursor
  <2> DEFINE W(phase, attempts, after) ==
               [walk EXCEPT !.phase = phase, !.attempts = attempts,
                            !.after = after, !.pages = walk.pages + 1,
                            !.page = NoPage,
                            !.names = walk.names \cup walk.page.items]
  <2>3. /\ cursor = "complete" => walk' = W("done", walk.attempts, walk.after)
        /\ cursor = "repeated" => walk' = W("repeated", walk.attempts, walk.after)
        /\ cursor = "too_many_pages" =>
              walk' = W(IF walk.kind = "lakefs_client" THEN "cut" ELSE "failed",
                        walk.attempts, walk.after)
        /\ cursor = "more" => walk' = W("request", 0, next)
    BY <1>1 DEF Advance, WalkType
  <2> HIDE DEF W, cursor, next
  <2>4. CASE cursor = "complete"
    BY <1>2, <2>1, <2>3, <2>4 DEF Phases, W
  <2>5. CASE cursor = "repeated"
    BY <1>2, <2>1, <2>3, <2>5 DEF Phases, W
  <2>6. CASE cursor = "too_many_pages"
    BY <1>2, <2>1, <2>3, <2>6 DEF Phases, W
  <2>7. CASE cursor = "more"
    BY <1>2, <2>1, <2>3, <2>7 DEF Phases, W
  <2> QED  BY <2>2, <2>4, <2>5, <2>6, <2>7
<1>4. walk' \in WalkType
  <2>1. NoPage \in Page /\ walk.pages + 1 \in 0 .. MaxPages
    BY <1>1, <1>2 DEF NoPage, Page
  <2> QED  BY <1>1, <1>2, <1>3, <2>1 DEF WalkType
<1>5. /\ walk'.phase = phase /\ walk'.after = after
      /\ walk'.pages = walk.pages + 1 /\ walk'.page = NoPage
      /\ walk'.names = walk.names \cup walk.page.items
  BY <1>1, <1>3 DEF WalkType
<1>6. WalkInv'
  <2>1. cursor = "more" => walk.pages + 1 < MaxPages
    BY <1>2 DEF Cursor
  <2> QED  BY <1>3, <1>5, <2>1 DEF WalkInv
<1>7. ASSUME honest
      PROVE  HonestInv'
  <2>1. /\ PageOk(walk.page, walk.after, stayed \cap Prefixed, ever \cap Prefixed)
        /\ walk.names \subseteq ever \cap Prefixed
        /\ \A k \in walk.names : k <= walk.after
        /\ \A k \in stayed \cap Prefixed : k <= walk.after => k \in walk.names
        /\ rows \subseteq ever
    BY <1>1, <1>7 DEF PageWalkInv, HonestInv
  <2>2. /\ \A k \in walk.names \cup walk.page.items : k \in Nat
        /\ \A k \in stayed \cap Prefixed : k \in Nat
        /\ walk.after \in Nat /\ next \in Nat
    <3>1. stayed \subseteq Keys
      BY DEF PageWalkInv, ListType
    <3>2. \A k \in walk.names \cup walk.page.items : k \in Nat
      BY <1>2, KeysAreNumbers
    <3>3. \A k \in stayed \cap Prefixed : k \in Nat
      BY <3>1, KeysAreNumbers
    <3>4. walk.after \in Nat /\ next \in Nat
      <4> HIDE DEF next
      <4> QED  BY <1>2, KeysAreNumbers
    <3> QED  BY <3>2, <3>3, <3>4
  <2>3. cursor # "repeated"
    BY <2>1, <2>2 DEF Cursor, PageOk
  <2>4. walk'.names \subseteq ever \cap Prefixed
    BY <1>5, <2>1 DEF PageOk
  <2>5. cursor = "complete" => stayed \cap Prefixed \subseteq walk'.names
    <3>1. cursor = "complete" => next = 0
      BY DEF Cursor
    <3>2. SUFFICES ASSUME next = 0, NEW k \in stayed \cap Prefixed
                   PROVE  k \in walk'.names
      BY <3>1
    <3>3. k <= walk.after \/ k > walk.after
      BY <2>2
    <3> QED  BY <1>5, <2>1, <3>2, <3>3 DEF PageOk
  <2>6. cursor = "more" => \A k \in walk'.names : k <= next
    <3>1. SUFFICES ASSUME next # 0, NEW k \in walk.names \cup walk.page.items
                   PROVE  k <= next
      BY <1>5 DEF Cursor
    <3>2. next > walk.after /\ \A j \in walk.page.items : j <= next
      BY <2>1, <3>1 DEF PageOk
    <3>3. k \in Nat /\ walk.after \in Nat /\ next \in Nat
      BY <2>2
    <3>4. k \in walk.names => k <= walk.after
      BY <2>1
    <3> QED  BY <3>2, <3>3, <3>4
  <2>7. ASSUME NEW k \in stayed \cap Prefixed, k <= after
        PROVE  k \in walk'.names
    <3>1. CASE k <= walk.after
      BY <1>5, <2>1, <3>1
    <3>2. CASE ~(k <= walk.after)
      <4>1. after = next /\ next # 0 /\ walk.after < k
        BY <1>3, <2>2, <2>7, <3>2 DEF Cursor
      <4> QED  BY <1>5, <2>1, <2>7, <4>1 DEF PageOk
    <3> QED  BY <3>1, <3>2
  <2> HIDE DEF cursor
  <2> QED  BY <1>1, <1>3, <1>5, <2>1, <2>3, <2>4, <2>5, <2>6, <2>7 DEF HonestInv
<1>8. HonestInv'
  BY <1>1, <1>7 DEF HonestInv
<1> QED  BY <1>1, <1>4, <1>6, <1>8 DEF PageWalkInv, ListType

\* Every step keeps the invariant.
LEMMA PageWalkStep == PageWalkInv /\ [PageNext]_pageVars => PageWalkInv'
<1> SUFFICES ASSUME PageWalkInv, [PageNext]_pageVars PROVE PageWalkInv'
  OBVIOUS
<1>1. CASE UNCHANGED pageVars
  BY <1>1 DEF pageVars, PageWalkInv, ListType, WalkInv, HonestInv
<1>2. CASE PageNext
  BY <1>2, ReadPageStep, StrayStep, LoseStep, RowsStep, AdvanceStep DEF PageNext
<1> QED  BY <1>1, <1>2

\* The invariant holds in every state of every walk.
THEOREM PageWalkInvariant == PageSpec => []PageWalkInv
BY PageWalkInit, PageWalkStep, PTL DEF PageSpec

\* For any keys, prefix, amounts and bounds: no page is larger than MAX_PAGE, no
\* walk follows more pages or makes more attempts than it may, and the cursor of
\* the list itself never repeats (from_overfetch, CursorWalk::advance).
THEOREM CursorsAdvance == PageSpec => []PagesInv
<1>1. PageWalkInv => PagesInv
  <2> SUFFICES ASSUME PageWalkInv PROVE PagesInv
    OBVIOUS
  <2>1. walk \in WalkType /\ rows \subseteq Keys
    BY DEF PageWalkInv, ListType
  <2>2. /\ walk.page \in Page /\ walk.after \in Keys \cup {0}
        /\ walk.pages <= MaxPages /\ walk.attempts < MaxAttempts
    BY <2>1 DEF WalkType
  <2>3. honest => Cardinality(walk.page.items) <= MaxPage
    <3>1. Cardinality(NoPage.items) <= MaxPage
      BY FS_EmptySet DEF NoPage
    <3> QED  BY <3>1 DEF PageWalkInv, HonestInv, PageOk
  <2>4. HonestCursorAdvances
    BY DEF PageWalkInv, HonestInv, PageOk, HonestCursorAdvances
  <2> QED  BY <2>1, <2>2, <2>3, <2>4 DEF PagesInv, PagesTypeOK
<1> QED  BY <1>1, PageWalkInvariant, PTL

\* A walk over a list that changes under it misses no row that stays and finds
\* none twice, for any list, whatever rows come and go between its pages and
\* however often an answer is lost and asked for again.
THEOREM RowsAreFoundOnce == PageSpec => []RowsFoundOnce
<1>1. PageWalkInv => RowsFoundOnce
  <2> SUFFICES ASSUME PageWalkInv, honest PROVE RowsFoundOnce
    BY DEF RowsFoundOnce, NoStayingRowMissed, NoRowTwice
  <2>1. NoStayingRowMissed
    BY DEF PageWalkInv, HonestInv, NoStayingRowMissed
  <2>2. walk.names \subseteq ever \cap Prefixed
    BY DEF PageWalkInv, HonestInv
  <2>3. ASSUME walk.phase = "answer", NEW k \in walk.page.items, k \in walk.names
        PROVE  FALSE
    <3>1. k > walk.after /\ k <= walk.after
      BY <2>3 DEF PageWalkInv, HonestInv, PageOk
    <3>2. k \in Nat /\ walk.after \in Nat
      <4>1. walk.after \in Keys \cup {0} /\ walk.names \subseteq Keys
        BY DEF PageWalkInv, ListType, WalkType
      <4> QED  BY <2>3, <4>1, KeysAreNumbers
    <3> QED  BY <3>1, <3>2
  <2> QED  BY <2>1, <2>2, <2>3 DEF RowsFoundOnce, NoRowTwice
<1> QED  BY <1>1, PageWalkInvariant, PTL


=============================================================================
