----------------------------- MODULE FeedProofs -----------------------------
(* Theorems about Feed, for any timestamps, any limits and any number of posts. *)
EXTENDS Feed, FiniteSetTheorems, SequenceTheorems, WellFoundedInduction, TLAPS

\* Between two pages: what was served is not below the cursor, and what was stored at
\* the start and not served is below it or was skipped at a page's end.
WalkInv ==
  walk = "walking" =>
    /\ \A i \in Eligible(cursor) : i \notin seen
    /\ \A i \in start \ seen : i \in Eligible(cursor) \/ posts[i] \in edges

Inv == TypeOK /\ WalkInv /\ WalkMissesOnlyTies

\* The first state satisfies Inv.
LEMMA InvInit == Init => Inv
BY DEF Init, Inv, TypeOK, WalkInv, WalkMissesOnlyTies, Id

\* A post stored in the middle of a walk keeps Inv.
LEMMA InsertInv ==
  ASSUME Inv, NEW ts \in Timestamp, InsertPost(ts)
  PROVE  Inv'
<1>1. /\ posts \in Seq(Timestamp) /\ posts' = Append(posts, ts)
      /\ UNCHANGED <<walk, cursor, limit, seen, start, edges>>
  BY DEF InsertPost, Inv, TypeOK
<1>2. /\ posts' \in Seq(Timestamp)
      /\ DOMAIN posts' = DOMAIN posts \cup {Len(posts) + 1}
      /\ Len(posts) + 1 \notin DOMAIN posts
      /\ \A i \in DOMAIN posts : posts'[i] = posts[i]
  BY <1>1, AppendProperties
<1>3. TypeOK'
  BY <1>1, <1>2 DEF Inv, TypeOK, Id
<1>4. WalkInv' /\ WalkMissesOnlyTies'
  BY <1>1, <1>2 DEF Inv, TypeOK, WalkInv, WalkMissesOnlyTies, Eligible, Id
<1>5. QED
  BY <1>3, <1>4 DEF Inv

\* Fetching a page keeps Inv.
LEMMA FetchInv ==
  ASSUME Inv, FetchPage
  PROVE  Inv'
<1>1. PICK page \in SUBSET Eligible(cursor), next \in Timestamp \cup {NoCursor} :
        /\ IsPage(page, cursor, Clamped(limit))
        /\ IsNextCursor(next, page, Clamped(limit))
        /\ seen' = seen \cup page
        /\ cursor' = next
        /\ edges' = edges \cup ({next} \ {NoCursor})
        /\ walk' = IF next = NoCursor THEN "done" ELSE "walking"
  BY DEF FetchPage
<1>2. UNCHANGED <<posts, limit, start>> /\ walk = "walking" /\ Id' = Id
  BY DEF FetchPage, Id
<1>3. \A i \in Id : posts[i] \in Int /\ posts[i] # NoCursor
  <2>1. \A i \in Id : posts[i] \in Timestamp
    BY DEF Inv, TypeOK, Id
  <2>2. QED
    BY <2>1, TimestampAssumption
<1>4. page \subseteq Id /\ Cardinality(page) \in Nat /\ Clamped(limit) \in Nat
  <2>1. IsFiniteSet(Id)
    BY FS_Interval DEF Inv, TypeOK, Id
  <2>2. QED
    BY <2>1, LimitAssumption, FS_Subset, FS_CardinalityType
    DEF Eligible, Clamped, Inv, TypeOK
<1>5. TypeOK'
  BY <1>1, <1>2, <1>4 DEF Inv, TypeOK
<1>6. CASE next = NoCursor
  <2>1. page = Eligible(cursor)
    BY <1>1, <1>3, <1>4, <1>6 DEF IsPage, IsNextCursor
  <2>2. WalkMissesOnlyTies'
    BY <1>1, <1>2, <1>6, <2>1 DEF Inv, WalkInv, WalkMissesOnlyTies
  <2>3. QED
    BY <1>1, <1>5, <1>6, <2>2 DEF Inv, WalkInv
<1>7. CASE next # NoCursor
  <2>1. PICK last \in page : next = posts[last] /\ \A i \in page : i = last \/ Before(i, last)
    BY <1>1, <1>7 DEF IsNextCursor
  <2>2. \A i \in page : posts[i] >= next
    BY <1>3, <1>4, <2>1 DEF Before
  <2>3. \A i \in Eligible(cursor) \ page : posts[i] <= next
    BY <1>1, <1>3, <1>4, <2>1 DEF IsPage, Before, Eligible
  <2>4. \A i \in Eligible(next) : i \in Eligible(cursor)
    <3>1. cursor # NoCursor => next < cursor
      BY <1>1, <2>1 DEF Eligible
    <3>2. cursor \in Int \cup {NoCursor} /\ next \in Int
      BY <1>7, TimestampAssumption DEF Inv, TypeOK
    <3>3. QED
      BY <1>3, <1>7, <3>1, <3>2 DEF Eligible
  <2>5. \A i \in Eligible(next) : i \notin seen'
    BY <1>1, <1>2, <1>3, <1>4, <1>7, <2>2, <2>4, TimestampAssumption DEF Inv, WalkInv, Eligible
  <2>6. \A i \in start \ seen' : i \in Eligible(next) \/ posts[i] \in edges'
    <3>1. SUFFICES ASSUME NEW i \in start \ seen', posts[i] \notin edges'
                   PROVE  i \in Eligible(next)
      OBVIOUS
    <3>2. i \in Eligible(cursor) \ page /\ posts[i] # next
      BY <1>1, <1>2, <1>7, <3>1 DEF Inv, WalkInv
    <3>3. next \in Int
      BY <1>7, TimestampAssumption
    <3>4. QED
      BY <1>3, <2>3, <3>2, <3>3 DEF Eligible
  <2>7. QED
    BY <1>1, <1>2, <1>5, <1>7, <2>5, <2>6
    DEF Inv, WalkInv, WalkMissesOnlyTies, Eligible
<1>8. QED
  BY <1>6, <1>7

\* Every step keeps Inv.
LEMMA InvStep == Inv /\ [Next]_vars => Inv'
<1> SUFFICES ASSUME Inv, [Next]_vars PROVE Inv'
  OBVIOUS
<1>1. ASSUME NEW l \in Limit \cup {NoLimit}, StartWalk(l)
      PROVE  Inv'
  BY <1>1 DEF StartWalk, Inv, TypeOK, WalkInv, WalkMissesOnlyTies, Eligible, Id
<1>2. CASE UNCHANGED vars
  BY <1>2 DEF vars, Inv, TypeOK, WalkInv, WalkMissesOnlyTies, Eligible, Id
<1>3. QED
  BY <1>1, <1>2, InsertInv, FetchInv DEF Next

\* Inv holds throughout a walk.
THEOREM InvAlways == Spec => []Inv
BY InvInit, InvStep, PTL DEF Spec

\* Type correctness of Feed.
THEOREM TypeCorrect == Spec => []TypeOK
BY InvAlways, PTL DEF Inv

\* Whatever is posted during a walk, the only posts it misses are ties at a page's end.
THEOREM OnlyTiesAreMissed == Spec => []WalkMissesOnlyTies
BY InvAlways, PTL DEF Inv

\* No page of a walk repeats a post of an earlier page.
THEOREM NothingIsServedTwice == Spec => NoPostTwice
<1>1. Inv /\ [Next]_vars => [FetchPage => \A i \in Eligible(cursor) : i \notin seen]_vars
  BY DEF Inv, WalkInv, FetchPage
<1>2. QED
  BY <1>1, InvAlways, PTL DEF Spec, NoPostTwice
------------------------------------------------------------------------------
(* Why a walk ends: there always is a page, and each leaves less to be served. *)

\* A finite set has an element that none precedes in a strict order.
LEMMA Minimal ==
  ASSUME NEW S, IsFiniteSet(S), S # {}, NEW R,
         \A x \in S : <<x, x>> \notin R,
         \A x, y, z \in S : <<x, y>> \in R /\ <<y, z>> \in R => <<x, z>> \in R
  PROVE  \E x \in S : \A y \in S : <<y, x>> \notin R
<1> DEFINE Pred(x) == {y \in S : <<y, x>> \in R}
           T == {Pred(x) : x \in S}
<1>1. T \subseteq FiniteSubsetsOf(S) /\ T # {}
  <2>1. ASSUME NEW x \in S
        PROVE  Pred(x) \in FiniteSubsetsOf(S)
    <3>1. Pred(x) \subseteq S
      OBVIOUS
    <3> QED
      BY <3>1, FS_Subset DEF FiniteSubsetsOf
  <2> HIDE DEF Pred
  <2> QED
    BY <2>1
<1> HIDE DEF T
<1>2. PICK B \in T : \A A \in T : ~(<<A, B>> \in StrictSubsetOrdering(S))
  BY <1>1, FS_StrictSubsetOrderingWellFounded, WFMin
<1>3. PICK x \in S : B = Pred(x)
  BY <1>2 DEF T
<1>4. ASSUME NEW y \in S, <<y, x>> \in R
      PROVE  FALSE
  <2>1. Pred(y) \in T
    BY DEF T
  <2>2. Pred(y) \subseteq Pred(x) /\ y \in Pred(x) /\ y \notin Pred(y)
    BY <1>4
  <2>3. Pred(x) \in SUBSET S /\ Pred(y) \in SUBSET S
    OBVIOUS
  <2> HIDE DEF Pred
  <2>4. <<Pred(y), Pred(x)>> \in StrictSubsetOrdering(S)
    BY <2>2, <2>3 DEF StrictSubsetOrdering
  <2> QED
    BY <1>2, <1>3, <2>1, <2>4
<1> QED
  BY <1>4

\* The rows a request may return are finitely many posts with numbers for timestamps.
LEMMA EligibleRows ==
  ASSUME TypeOK, NEW c
  PROVE  /\ Eligible(c) \subseteq Id /\ IsFiniteSet(Eligible(c))
         /\ \A i \in Id : i \in Int /\ posts[i] \in Timestamp /\ posts[i] \in Int
<1>1. Len(posts) \in Nat /\ Id = 1..Len(posts) /\ \A i \in Id : posts[i] \in Timestamp
  BY ElementOfSeq, LenProperties DEF TypeOK, Id
<1>2. IsFiniteSet(Id)
  BY <1>1, FS_Interval
<1>3. Eligible(c) \subseteq Id
  BY DEF Eligible
<1>4. IsFiniteSet(Eligible(c))
  BY <1>2, <1>3, FS_Subset
<1>5. \A i \in Id : i \in Int
  BY <1>1
<1>6. \A i \in Id : posts[i] \in Int
  <2>1. Timestamp \subseteq Int
    BY TimestampAssumption
  <2> QED
    BY <1>1, <2>1
<1> QED
  BY <1>1, <1>3, <1>4, <1>5, <1>6

\* The order of the feed has a first and a last row in every set of rows.
LEMMA FirstAndLast ==
  ASSUME TypeOK, NEW S \in SUBSET Id, IsFiniteSet(S), S # {}
  PROVE  /\ \E first \in S : \A i \in S : i = first \/ Before(first, i)
         /\ \E last \in S : \A i \in S : i = last \/ Before(i, last)
<1>1. \A i \in S : i \in Int /\ posts[i] \in Int
  BY EligibleRows
<1> DEFINE R == {p \in S \X S : Before(p[1], p[2])}
           Q == {p \in S \X S : Before(p[2], p[1])}
<1>2. \A i, j \in S : /\ <<i, j>> \in R <=> Before(i, j)
                      /\ <<i, j>> \in Q <=> Before(j, i)
  OBVIOUS
<1> HIDE DEF R, Q
<1>3. \A i, j, k \in S : /\ ~Before(i, i)
                         /\ Before(i, j) /\ Before(j, k) => Before(i, k)
                         /\ i = j \/ Before(i, j) \/ Before(j, i)
  BY <1>1 DEF Before
<1>4. \E first \in S : \A i \in S : <<i, first>> \notin R
  <2>1. \A x \in S : <<x, x>> \notin R
    BY <1>2, <1>3
  <2>2. \A x, y, z \in S : <<x, y>> \in R /\ <<y, z>> \in R => <<x, z>> \in R
    BY <1>2, <1>3
  <2> QED
    BY <2>1, <2>2, Minimal
<1>5. \E last \in S : \A i \in S : <<i, last>> \notin Q
  <2>1. \A x \in S : <<x, x>> \notin Q
    BY <1>2, <1>3
  <2>2. \A x, y, z \in S : <<x, y>> \in Q /\ <<y, z>> \in Q => <<x, z>> \in Q
    BY <1>2, <1>3
  <2> QED
    BY <2>1, <2>2, Minimal
<1> QED
  BY <1>2, <1>3, <1>4, <1>5

\* The query has a result: the rows can be taken in order until there are n or no more.
LEMMA PageExists ==
  ASSUME TypeOK, NEW c, NEW n \in Nat
  PROVE  \E page \in SUBSET Eligible(c) : IsPage(page, c, n)
<1> DEFINE E == Eligible(c)
           Leaves(rest) == /\ Cardinality(E \ rest) <= n
                           /\ \A i \in E \ rest, j \in rest : Before(i, j)
           T == {rest \in SUBSET E : Leaves(rest)}
<1>1. E \subseteq Id /\ IsFiniteSet(E)
  BY EligibleRows
<1>2. T \subseteq FiniteSubsetsOf(E)
  BY <1>1, FS_Subset DEF FiniteSubsetsOf
<1>3. E \in T
  <2>1. E \ E = {} /\ Cardinality({}) = 0
    BY FS_EmptySet
  <2> QED
    BY <2>1
<1> HIDE DEF T, E
<1>4. PICK rest \in T : \A less \in T : ~(<<less, rest>> \in StrictSubsetOrdering(E))
  BY <1>2, <1>3, FS_StrictSubsetOrderingWellFounded, WFMin
<1>5. rest \subseteq E /\ Leaves(rest)
  BY <1>4 DEF T
<1> DEFINE page == E \ rest
<1>6. IsFiniteSet(page) /\ Cardinality(page) \in Nat /\ IsFiniteSet(rest)
  <2>1. page \subseteq E
    OBVIOUS
  <2> QED
    BY <1>1, <1>5, <2>1, FS_Subset, FS_CardinalityType
<1>7. ASSUME Cardinality(page) < n, rest # {}
      PROVE  FALSE
  <2>1. PICK first \in rest : \A i \in rest : i = first \/ Before(first, i)
    BY <1>1, <1>5, <1>6, <1>7, FirstAndLast
  <2> DEFINE less == rest \ {first}
  <2>2. E \ less = page \cup {first} /\ first \notin page
    BY <1>5
  <2>3. Cardinality(E \ less) = Cardinality(page) + 1
    BY <1>6, <2>2, FS_AddElement
  <2>4. Cardinality(E \ less) <= n
    BY <1>6, <1>7, <2>3
  <2>5. \A i \in E \ less, j \in less : Before(i, j)
    BY <1>5, <2>1, <2>2
  <2>6. less \in T
    BY <1>5, <2>4, <2>5 DEF T
  <2>7. <<less, rest>> \in StrictSubsetOrdering(E)
    BY <1>5, <2>1 DEF StrictSubsetOrdering
  <2> QED
    BY <1>4, <2>6, <2>7
<1>8. Cardinality(page) < n => page = E
  BY <1>7
<1>9. E \ page = rest
  BY <1>5
<1>10. IsPage(page, c, n)
  BY <1>5, <1>8, <1>9 DEF IsPage, E
<1> QED
  BY <1>10 DEF E

\* A walk is never stuck: whatever the cursor and the limit, a request has an answer.
ThereIsAPage ==
  walk = "walking" =>
    \E page \in SUBSET Eligible(cursor), next \in Timestamp \cup {NoCursor} :
      IsPage(page, cursor, Clamped(limit)) /\ IsNextCursor(next, page, Clamped(limit))

\* Limits are clamped to what the query can serve.
LEMMA ClampedBounds ==
  ASSUME TypeOK
  PROVE  Clamped(limit) \in 1..MaxLimit
BY LimitAssumption DEF TypeOK, Clamped

\* The feed always answers: FetchPage has a page and a next cursor in every state of a
\* walk, so the theorems about pages are about every request.
THEOREM FeedAlwaysAnswers == Spec => []ThereIsAPage
<1>1. TypeOK => ThereIsAPage
  <2> SUFFICES ASSUME TypeOK PROVE ThereIsAPage
    OBVIOUS
  <2> DEFINE n == Clamped(limit)
  <2>1. n \in Nat /\ n >= 1
    BY ClampedBounds, LimitAssumption
  <2>2. PICK page \in SUBSET Eligible(cursor) : IsPage(page, cursor, n)
    BY <2>1, PageExists
  <2>3. page \subseteq Id /\ IsFiniteSet(page) /\ \A i \in page : posts[i] \in Timestamp
    BY EligibleRows, FS_Subset
  <2>4. CASE Cardinality(page) >= n
    <3>1. page # {}
      BY <2>1, <2>4, FS_EmptySet
    <3>2. PICK last \in page : \A i \in page : i = last \/ Before(i, last)
      BY <2>3, <3>1, FirstAndLast
    <3>3. IsNextCursor(posts[last], page, n)
      BY <2>4, <3>2 DEF IsNextCursor
    <3> QED
      BY <2>2, <2>3, <3>3 DEF ThereIsAPage
  <2>5. CASE ~(Cardinality(page) >= n)
    <3>1. IsNextCursor(NoCursor, page, n)
      BY <2>5 DEF IsNextCursor
    <3> QED
      BY <2>2, <3>1 DEF ThereIsAPage
  <2> QED
    BY <2>4, <2>5
<1> QED
  BY <1>1, TypeCorrect, PTL

\* A page ends the walk or leaves strictly less to be served, at any limit and with any
\* number of posts that share a timestamp; the rows are finitely many.
EveryPageAdvances ==
  [][FetchPage =>
       \/ walk' = "done"
       \/ /\ Eligible(cursor)' \subseteq Eligible(cursor)
          /\ Eligible(cursor)' # Eligible(cursor)
          /\ IsFiniteSet(Eligible(cursor))]_vars

\* Every page brings the walk nearer to its end: what WalkTerminates rests on beside the
\* client's asking.
THEOREM PagesAdvance == Spec => EveryPageAdvances
<1>1. ASSUME TypeOK, FetchPage, walk' # "done"
      PROVE  /\ Eligible(cursor)' \subseteq Eligible(cursor)
             /\ Eligible(cursor)' # Eligible(cursor)
             /\ IsFiniteSet(Eligible(cursor))
  <2>1. PICK page \in SUBSET Eligible(cursor), next \in Timestamp \cup {NoCursor} :
          /\ IsNextCursor(next, page, Clamped(limit))
          /\ cursor' = next
          /\ walk' = IF next = NoCursor THEN "done" ELSE "walking"
    BY <1>1 DEF FetchPage
  <2>2. next # NoCursor /\ next \in Int
    BY <1>1, <2>1, TimestampAssumption
  <2>3. PICK last \in page : next = posts[last]
    BY <2>1, <2>2 DEF IsNextCursor
  <2>4. last \in Eligible(cursor) /\ \A i \in Id : posts[i] \in Int
    BY <1>1, EligibleRows
  <2>5. posts' = posts /\ Id' = Id
    BY <1>1 DEF FetchPage, Id
  <2>6. Eligible(cursor)' = {i \in Id : posts[i] < next}
    BY <2>1, <2>2, <2>5 DEF Eligible
  <2>7. last \notin Eligible(cursor)'
    BY <2>2, <2>3, <2>6
  <2>8. cursor = NoCursor \/ (cursor \in Int /\ next < cursor)
    BY <1>1, <2>3, <2>4, TimestampAssumption DEF Eligible, TypeOK
  <2>9. Eligible(cursor)' \subseteq Eligible(cursor)
    BY <2>2, <2>4, <2>6, <2>8 DEF Eligible
  <2> QED
    BY <1>1, <2>4, <2>7, <2>9, EligibleRows
<1>2. TypeOK => [FetchPage =>
                   \/ walk' = "done"
                   \/ /\ Eligible(cursor)' \subseteq Eligible(cursor)
                      /\ Eligible(cursor)' # Eligible(cursor)
                      /\ IsFiniteSet(Eligible(cursor))]_vars
  BY <1>1
<1> QED
  BY <1>2, TypeCorrect, PTL DEF EveryPageAdvances
------------------------------------------------------------------------------
(* When nothing is missed. *)

\* A page ends at a post it serves.
EdgesAreSeen == \A e \in edges : \E i \in seen : posts[i] = e

\* No two posts carry the same timestamp, as in queries_test.rs.
Distinct == \A i, j \in Id : posts[i] = posts[j] => i = j

\* Every page ends at a post it serves, and what was served stays as it was.
LEMMA EdgesStep ==
  ASSUME TypeOK, EdgesAreSeen, [Next]_vars
  PROVE  EdgesAreSeen'
<1>1. ASSUME NEW ts \in Timestamp, InsertPost(ts)
      PROVE  EdgesAreSeen'
  <2>1. posts' = Append(posts, ts) /\ seen' = seen /\ edges' = edges
    BY <1>1 DEF InsertPost
  <2>2. \A i \in Id : posts'[i] = posts[i]
    BY <2>1, AppendProperties DEF TypeOK, Id
  <2> QED
    BY <2>1, <2>2 DEF EdgesAreSeen, TypeOK
<1>2. ASSUME NEW l \in Limit \cup {NoLimit}, StartWalk(l)
      PROVE  EdgesAreSeen'
  BY <1>2 DEF StartWalk, EdgesAreSeen
<1>3. CASE FetchPage
  <2>1. PICK page \in SUBSET Eligible(cursor), next \in Timestamp \cup {NoCursor} :
          /\ IsNextCursor(next, page, Clamped(limit))
          /\ seen' = seen \cup page
          /\ edges' = edges \cup ({next} \ {NoCursor})
    BY <1>3 DEF FetchPage
  <2>2. next # NoCursor => \E last \in page : next = posts[last]
    BY <2>1 DEF IsNextCursor
  <2>3. posts' = posts
    BY <1>3 DEF FetchPage
  <2> QED
    BY <2>1, <2>2, <2>3 DEF EdgesAreSeen
<1>4. CASE UNCHANGED vars
  BY <1>4 DEF vars, EdgesAreSeen
<1> QED
  BY <1>1, <1>2, <1>3, <1>4 DEF Next

\* With distinct timestamps a finished walk has every post that was stored when it
\* began, whatever is posted meanwhile, in whatever order and at whatever limit: the
\* promise of queries_test.rs:111 fails for equal timestamps only.
THEOREM DistinctWalkIsComplete == Spec => [](Distinct => WalkIsComplete)
<1>1. Init => EdgesAreSeen
  BY DEF Init, EdgesAreSeen
<1>2. TypeOK /\ EdgesAreSeen /\ WalkMissesOnlyTies => (Distinct => WalkIsComplete)
  <2> SUFFICES ASSUME TypeOK, EdgesAreSeen, WalkMissesOnlyTies, Distinct, walk = "done",
                      NEW i \in start \ seen
               PROVE  FALSE
    BY DEF WalkIsComplete
  <2>1. posts[i] \in edges
    BY DEF WalkMissesOnlyTies
  <2>2. PICK j \in seen : posts[j] = posts[i]
    BY <2>1 DEF EdgesAreSeen
  <2> QED
    BY <2>2 DEF Distinct, TypeOK
<1>3. TypeOK /\ EdgesAreSeen /\ [Next]_vars => EdgesAreSeen'
  BY EdgesStep
<1> QED
  BY <1>1, <1>2, <1>3, TypeCorrect, OnlyTiesAreMissed, PTL DEF Spec
=============================================================================
