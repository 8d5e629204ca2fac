---------------------------- MODULE ThreadProofs ----------------------------
(***************************************************************************)
(* Theorems about Thread, for any number of posts, any tree of replies and *)
(* any timestamps.  What the recursive query returns is a matter of        *)
(* induction; here it is an induction on sets, from the fact that every    *)
(* set of natural numbers has a least element.                             *)
(***************************************************************************)
EXTENDS Thread, FunctionTheorems, FiniteSetTheorems, SequenceTheorems, WellFoundedInduction, TLAPS

\* Every nonempty set of natural numbers has a least element.
LEMMA Least ==
  ASSUME NEW T \in SUBSET Nat, T # {}
  PROVE  \E n \in T : \A m \in T : n <= m
<1> DEFINE R == OpToRel(<, Nat)
<1>1. IsWellFoundedOn(R, Nat)
  BY NatLessThanWellFounded
<1>2. \A n, m \in Nat : n < m => <<n, m>> \in R
  BY DEF OpToRel
<1> HIDE DEF R
<1>3. \E n \in T : \A m \in T : ~(<<m, n>> \in R)
  BY <1>1, WFMin
<1>4. \A n, m \in T : n \in Nat /\ m \in Nat /\ (~(m < n) => n <= m)
  OBVIOUS
<1> QED
  BY <1>2, <1>3, <1>4

\* A set that has 0, and n + 1 with every n, has every natural number.
LEMMA SetInduction ==
  ASSUME NEW S, 0 \in S, \A n \in Nat : n \in S => n + 1 \in S
  PROVE  \A n \in Nat : n \in S
<1> SUFFICES ASSUME {n \in Nat : n \notin S} # {} PROVE FALSE
  OBVIOUS
<1> DEFINE T == {n \in Nat : n \notin S}
<1>1. PICK n \in T : \A m \in T : n <= m
  BY Least
<1>2. n \in Nat /\ n # 0 /\ n \notin S
  OBVIOUS
<1>3. n - 1 \in Nat /\ ~(n <= n - 1) /\ (n - 1) + 1 = n
  BY <1>2
<1>4. n - 1 \in S
  BY <1>1, <1>3
<1> QED
  BY <1>2, <1>3, <1>4

\* A set that has every natural number below which it has all, has every natural number.
LEMMA StrongSetInduction ==
  ASSUME NEW S, \A n \in Nat : (\A m \in Nat : m < n => m \in S) => n \in S
  PROVE  \A n \in Nat : n \in S
<1> SUFFICES ASSUME {n \in Nat : n \notin S} # {} PROVE FALSE
  OBVIOUS
<1> DEFINE T == {n \in Nat : n \notin S}
<1>1. PICK n \in T : \A m \in T : n <= m
  BY Least
<1>2. \A m \in Nat : m < n => ~(n <= m)
  OBVIOUS
<1>3. \A m \in Nat : m < n => m \in S
  BY <1>1, <1>2
<1> QED
  BY <1>3
------------------------------------------------------------------------------
(* The recursive query. *)

\* The rows at depth d, from those of the depth before.
Deeper(r, g, d) == IF d = 0 THEN {r} \cap Id ELSE {i \in Id : posts[i].parent \in g[d - 1]}

\* There are levels down to any depth.
LEMMA LevelsExist ==
  ASSUME NEW r
  PROVE  \A n \in Nat : \E g : g = [d \in 0..n |-> Deeper(r, g, d)]
<1> DEFINE S == {n \in Nat : \E g : g = [d \in 0..n |-> Deeper(r, g, d)]}
<1>1. 0 \in S
  <2> DEFINE g == [d \in 0..0 |-> {r} \cap Id]
  <2>1. g = [d \in 0..0 |-> Deeper(r, g, d)]
    BY DEF Deeper
  <2> QED
    BY <2>1
<1>2. ASSUME NEW n \in Nat, n \in S
      PROVE  n + 1 \in S
  <2>1. PICK g : g = [d \in 0..n |-> Deeper(r, g, d)]
    BY <1>2
  <2> DEFINE h == [d \in 0..n + 1 |-> IF d = n + 1 THEN Deeper(r, g, d) ELSE g[d]]
  <2>2. \A d \in 0..n + 1 : d # 0 => d - 1 \in 0..n /\ d - 1 # n + 1
    OBVIOUS
  <2>3. \A d \in 0..n : h[d] = g[d]
    OBVIOUS
  <2>4. \A d \in 0..n + 1 : Deeper(r, h, d) = Deeper(r, g, d)
    <3> HIDE DEF h
    <3> QED
      BY <2>2, <2>3 DEF Deeper
  <2>5. \A d \in 0..n + 1 : d # n + 1 => g[d] = Deeper(r, g, d)
    BY <2>1
  <2>6. h = [d \in 0..n + 1 |-> Deeper(r, h, d)]
    BY <2>4, <2>5
  <2> HIDE DEF h
  <2> QED
    BY <2>6
<1>3. \A n \in Nat : n \in S
  <2> HIDE DEF S
  <2> QED
    BY <1>1, <1>2, SetInduction
<1> QED
  BY <1>3

\* Level computes them.
LEMMA LevelIs ==
  ASSUME NEW r, Len(posts) \in Nat
  PROVE  Level(r) = [d \in 0..Len(posts) |-> Deeper(r, Level(r), d)]
<1> DEFINE Levels(g) == g = [d \in 0..Len(posts) |-> Deeper(r, g, d)]
<1>1. \E g : Levels(g)
  BY LevelsExist
<1>2. Level(r) = CHOOSE g : Levels(g)
  BY DEF Level, Deeper
<1> HIDE DEF Levels
<1>3. Levels(Level(r))
  BY <1>1, <1>2
<1> QED
  BY <1>3 DEF Levels

\* What the table holds: posts with a number for a parent, older than themselves.
Tree ==
  /\ posts \in Seq([parent : Nat, timestamp : Timestamp])
  /\ \A i \in Id : posts[i].parent < i

\* The table's numbers.
LEMMA TreeNumbers ==
  ASSUME Tree
  PROVE  /\ Len(posts) \in Nat /\ Id = 1..Len(posts)
         /\ \A i \in Id : posts[i].parent \in Nat /\ posts[i].parent < i
<1>1. posts \in Seq([parent : Nat, timestamp : Timestamp])
  BY DEF Tree
<1>2. Len(posts) \in Nat /\ Id = 1..Len(posts)
  BY <1>1 DEF Id
<1>3. \A i \in Id : posts[i] \in [parent : Nat, timestamp : Timestamp]
  BY <1>1, <1>2, ElementOfSeq
<1> QED
  BY <1>2, <1>3 DEF Tree

\* The rows of each depth: the root, then the replies to the rows of the depth before.
LEMMA LevelRows ==
  ASSUME Tree, NEW r
  PROVE  /\ \A i : i \in Level(r)[0] <=> i = r /\ r \in Id
         /\ \A d \in 1..Len(posts) : \A i :
              i \in Level(r)[d] <=> i \in Id /\ posts[i].parent \in Level(r)[d - 1]
<1>1. Len(posts) \in Nat
  BY TreeNumbers
<1>2. Level(r) = [d \in 0..Len(posts) |-> Deeper(r, Level(r), d)]
  BY <1>1, LevelIs
<1>3. 0 \in 0..Len(posts) /\ \A d \in 1..Len(posts) : d \in 0..Len(posts) /\ d # 0
  BY <1>1
<1>4. \A d \in 0..Len(posts) : Level(r)[d] = Deeper(r, Level(r), d)
  BY <1>2
<1>5. Level(r)[0] = {r} \cap Id
  BY <1>3, <1>4 DEF Deeper
<1>6. \A d \in 1..Len(posts) : Level(r)[d] = {i \in Id : posts[i].parent \in Level(r)[d - 1]}
  BY <1>3, <1>4 DEF Deeper
<1> QED
  BY <1>5, <1>6

\* A row at depth d is a post that is younger than the root by d posts at least.
LEMMA DepthBounds ==
  ASSUME Tree, NEW r \in Nat
  PROVE  \A d \in 0..Len(posts) : \A i \in Level(r)[d] : i \in Id /\ i >= r + d
<1> DEFINE S == {d \in Nat : d <= Len(posts) => \A i \in Level(r)[d] : i \in Id /\ i >= r + d}
<1>1. Len(posts) \in Nat /\ Id = 1..Len(posts)
  BY TreeNumbers
<1>2. 0 \in S
  BY <1>1, LevelRows
<1>3. ASSUME NEW d \in Nat, d \in S
      PROVE  d + 1 \in S
  <2> SUFFICES ASSUME d + 1 <= Len(posts), NEW i \in Level(r)[d + 1]
               PROVE  i \in Id /\ i >= r + (d + 1)
    OBVIOUS
  <2>1. d <= Len(posts) /\ d + 1 \in 1..Len(posts) /\ (d + 1) - 1 = d
    BY <1>1
  <2>2. i \in Id /\ posts[i].parent \in Level(r)[d]
    BY <2>1, LevelRows
  <2>3. posts[i].parent \in Nat /\ posts[i].parent < i /\ posts[i].parent >= r + d
    BY <1>3, <2>1, <2>2, TreeNumbers
  <2> QED
    BY <1>1, <2>2, <2>3
<1>4. \A d \in Nat : d \in S
  <2> HIDE DEF S
  <2> QED
    BY <1>2, <1>3, SetInduction
<1> QED
  BY <1>1, <1>4

\* A post is a row at one depth only.
LEMMA DepthIsUnique ==
  ASSUME Tree, NEW r \in Nat
  PROVE  \A d, e \in 0..Len(posts) : \A i \in Level(r)[d] \cap Level(r)[e] : d = e
<1> DEFINE S == {d \in Nat : d <= Len(posts) =>
                   \A e \in 0..Len(posts) : \A i \in Level(r)[d] \cap Level(r)[e] : d = e}
<1>1. Len(posts) \in Nat
  BY TreeNumbers
<1>2. \A e \in 0..Len(posts) : r \in Level(r)[e] => e = 0
  <2> TAKE e \in 0..Len(posts)
  <2>1. e \in Nat
    OBVIOUS
  <2>2. r \in Level(r)[e] => r >= r + e
    BY DepthBounds
  <2> QED
    BY <2>1, <2>2
<1>3. 0 \in S
  BY <1>2, LevelRows
<1>4. ASSUME NEW d \in Nat, d \in S
      PROVE  d + 1 \in S
  <2> SUFFICES ASSUME d + 1 <= Len(posts), NEW e \in 0..Len(posts),
                      NEW i \in Level(r)[d + 1] \cap Level(r)[e]
               PROVE  d + 1 = e
    OBVIOUS
  <2>1. d <= Len(posts) /\ d + 1 \in 0..Len(posts) /\ d + 1 \in 1..Len(posts) /\ d + 1 # 0
        /\ (d + 1) - 1 = d
    BY <1>1
  <2>2. posts[i].parent \in Level(r)[d]
    BY <2>1, LevelRows
  <2>3. e # 0
    BY <1>2, <2>1, LevelRows
  <2>4. e \in 1..Len(posts) /\ e - 1 \in 0..Len(posts)
    BY <1>1, <2>3
  <2>5. posts[i].parent \in Level(r)[e - 1]
    BY <2>4, LevelRows
  <2>6. d = e - 1
    BY <1>4, <2>1, <2>2, <2>4, <2>5
  <2> QED
    BY <2>4, <2>6
<1>5. \A d \in Nat : d \in S
  <2> HIDE DEF S
  <2> QED
    BY <1>3, <1>4, SetInduction
<1> QED
  BY <1>1, <1>5
------------------------------------------------------------------------------
(* Below, the reference. *)

\* i is the root or replies to a post from which g says that one gets to the root.
Climbs(r, g, i) == i = r \/ (posts[i].parent # 0 /\ g[posts[i].parent])

\* For any number of posts it can be said which of them are below r.
LEMMA ClimbsExist ==
  ASSUME Tree, NEW r
  PROVE  \A n \in Nat : n <= Len(posts) => \E g : g = [i \in 1..n |-> Climbs(r, g, i)]
<1> DEFINE S == {n \in Nat : n <= Len(posts) => \E g : g = [i \in 1..n |-> Climbs(r, g, i)]}
<1>1. Len(posts) \in Nat
  BY TreeNumbers
<1>2. 0 \in S
  <2> DEFINE g == [i \in 1..0 |-> TRUE]
  <2>1. g = [i \in 1..0 |-> Climbs(r, g, i)]
    OBVIOUS
  <2> QED
    BY <2>1
<1>3. ASSUME NEW n \in Nat, n \in S
      PROVE  n + 1 \in S
  <2> SUFFICES ASSUME n + 1 <= Len(posts)
               PROVE  \E g : g = [i \in 1..n + 1 |-> Climbs(r, g, i)]
    OBVIOUS
  <2>1. PICK g : g = [i \in 1..n |-> Climbs(r, g, i)]
    BY <1>1, <1>3
  <2> DEFINE h == [i \in 1..n + 1 |-> IF i = n + 1 THEN Climbs(r, g, i) ELSE g[i]]
  <2>2. \A i \in 1..n + 1 : posts[i].parent # 0 => posts[i].parent \in 1..n
    <3> TAKE i \in 1..n + 1
    <3>1. i \in 1..Len(posts) /\ i <= n + 1
      BY <1>1
    <3>2. posts[i].parent \in Nat /\ posts[i].parent < i
      BY <3>1, TreeNumbers
    <3> QED
      BY <3>1, <3>2
  <2>3. \A i \in 1..n : h[i] = g[i]
    OBVIOUS
  <2>4. \A i \in 1..n + 1 : Climbs(r, h, i) = Climbs(r, g, i)
    <3> HIDE DEF h
    <3> QED
      BY <2>2, <2>3 DEF Climbs
  <2>5. \A i \in 1..n + 1 : i # n + 1 => g[i] = Climbs(r, g, i)
    BY <2>1
  <2>6. h = [i \in 1..n + 1 |-> Climbs(r, h, i)]
    BY <2>4, <2>5
  <2> HIDE DEF h
  <2> QED
    BY <2>6
<1>4. \A n \in Nat : n \in S
  <2> HIDE DEF S
  <2> QED
    BY <1>2, <1>3, SetInduction
<1> QED
  BY <1>4

\* Below r are r and the replies to what is below r.
LEMMA BelowIs ==
  ASSUME Tree, NEW r
  PROVE  /\ Below(r) \subseteq Id
         /\ \A i \in Id : i \in Below(r) <=> i = r \/ posts[i].parent \in Below(r)
<1> DEFINE Under(g) == g = [i \in Id |-> Climbs(r, g, i)]
           under == CHOOSE g : Under(g)
<1>1. Len(posts) \in Nat /\ Id = 1..Len(posts)
  BY TreeNumbers
<1>2. \E g : Under(g)
  <2>1. Len(posts) <= Len(posts)
    BY <1>1
  <2>2. \E g : g = [i \in 1..Len(posts) |-> Climbs(r, g, i)]
    BY <1>1, <2>1, ClimbsExist
  <2> QED
    BY <1>1, <2>2
<1>3. Under(under)
  <2> HIDE DEF Under
  <2> QED
    BY <1>2
<1>4. Below(r) = {i \in Id : under[i]}
  BY DEF Below, Climbs
<1> HIDE DEF under
<1>5. \A i \in Id : under[i] = Climbs(r, under, i)
  BY <1>3
<1>6. \A i \in Id : posts[i].parent # 0 => posts[i].parent \in Id
  <2> TAKE i \in Id
  <2>1. posts[i].parent \in Nat /\ posts[i].parent < i /\ i \in 1..Len(posts)
    BY <1>1, TreeNumbers
  <2> QED
    BY <1>1, <2>1
<1>7. 0 \notin Id
  BY <1>1
<1>8. \A i \in Id : i \in Below(r) <=> Climbs(r, under, i)
  BY <1>4, <1>5
<1>9. \A i \in Id : posts[i].parent \in Below(r) <=> posts[i].parent # 0 /\ under[posts[i].parent]
  BY <1>4, <1>6, <1>7
<1>10. Below(r) \subseteq Id
  BY <1>4
<1> QED
  BY <1>8, <1>9, <1>10 DEF Climbs

\* The rows of the query are the posts below the root.
LEMMA RowsAreBelow ==
  ASSUME Tree, NEW r \in Nat
  PROVE  \A i : i \in Below(r) /\ r \in Id <=> \E d \in 0..Len(posts) : i \in Level(r)[d]
<1>1. Len(posts) \in Nat /\ Id = 1..Len(posts)
  BY TreeNumbers
<1>2. \A d \in 0..Len(posts) : Level(r)[d] \subseteq Below(r) /\ (Level(r)[d] # {} => r \in Id)
  <2> DEFINE S == {d \in Nat : d <= Len(posts) =>
                     Level(r)[d] \subseteq Below(r) /\ (Level(r)[d] # {} => r \in Id)}
  <2>1. 0 \in S
    BY <1>1, LevelRows, BelowIs
  <2>2. ASSUME NEW d \in Nat, d \in S
        PROVE  d + 1 \in S
    <3> SUFFICES ASSUME d + 1 <= Len(posts), NEW i \in Level(r)[d + 1]
                 PROVE  i \in Below(r) /\ r \in Id
      OBVIOUS
    <3>1. d <= Len(posts) /\ d + 1 \in 1..Len(posts) /\ (d + 1) - 1 = d
      BY <1>1
    <3>2. i \in Id /\ posts[i].parent \in Level(r)[d]
      BY <3>1, LevelRows
    <3> QED
      BY <2>2, <3>1, <3>2, BelowIs
  <2>3. \A d \in Nat : d \in S
    <3> HIDE DEF S
    <3> QED
      BY <2>1, <2>2, SetInduction
  <2> QED
    BY <1>1, <2>3
<1>3. ASSUME r \in Id
      PROVE  \A i \in Below(r) : \E d \in 0..Len(posts) : i \in Level(r)[d]
  <2> DEFINE S == {i \in Nat : i \in Below(r) => \E d \in 0..Len(posts) : i \in Level(r)[d]}
  <2>1. ASSUME NEW i \in Nat, \A j \in Nat : j < i => j \in S
        PROVE  i \in S
    <3> SUFFICES ASSUME i \in Below(r) PROVE \E d \in 0..Len(posts) : i \in Level(r)[d]
      OBVIOUS
    <3>1. i \in Id /\ i \in 1..Len(posts)
      BY <1>1, BelowIs
    <3>2. CASE i = r
      BY <1>1, <1>3, <3>2, LevelRows
    <3>3. CASE i # r
      <4> DEFINE j == posts[i].parent
      <4>1. j \in Below(r) /\ j \in Nat /\ j < i
        BY <3>1, <3>3, BelowIs, TreeNumbers
      <4>2. PICK d \in 0..Len(posts) : j \in Level(r)[d]
        BY <2>1, <4>1
      <4>3. j >= r + d
        BY <4>2, DepthBounds
      <4>4. d + 1 \in 1..Len(posts) /\ d + 1 \in 0..Len(posts) /\ (d + 1) - 1 = d
        BY <1>1, <3>1, <4>1, <4>2, <4>3
      <4>5. i \in Level(r)[d + 1]
        BY <3>1, <4>2, <4>4, LevelRows
      <4> QED
        BY <4>4, <4>5
    <3> QED
      BY <3>2, <3>3
  <2>2. \A i \in Nat : i \in S
    <3> HIDE DEF S
    <3> QED
      BY <2>1, StrongSetInduction
  <2> QED
    BY <1>1, <2>2, BelowIs
<1> QED
  BY <1>2, <1>3
------------------------------------------------------------------------------
(* What a request returns. *)

\* The rows are pairs of a post and its depth.
LEMMA RowsAre ==
  ASSUME NEW r
  PROVE  \A row : row \in ThreadRows(r) <=>
                    \E d \in 0..Len(posts) : \E i \in Level(r)[d] : row = <<i, d>>
BY DEF ThreadRows

\* There are finitely many rows.
LEMMA RowsAreFinite ==
  ASSUME Tree, NEW r \in Nat
  PROVE  /\ ThreadRows(r) \subseteq Id \X (0..Len(posts))
         /\ IsFiniteSet(ThreadRows(r))
         /\ Cardinality(ThreadRows(r)) \in Nat
<1>1. Len(posts) \in Nat /\ Id = 1..Len(posts)
  BY TreeNumbers
<1>2. ThreadRows(r) \subseteq Id \X (0..Len(posts))
  BY RowsAre, DepthBounds
<1>3. IsFiniteSet(Id) /\ IsFiniteSet(0..Len(posts))
  BY <1>1, FS_Interval
<1>4. IsFiniteSet(Id \X (0..Len(posts)))
  BY <1>3, FS_Product
<1> QED
  BY <1>2, <1>4, FS_Subset, FS_CardinalityType

\* There are as many rows as posts below the root: none is found at two depths.
LEMMA RowPerPost ==
  ASSUME Tree, NEW r \in Nat, r \in Id
  PROVE  Cardinality(ThreadRows(r)) = Cardinality(Below(r))
<1> DEFINE f == [row \in ThreadRows(r) |-> row[1]]
<1>1. \A i : i \in Below(r) <=> \E d \in 0..Len(posts) : i \in Level(r)[d]
  BY RowsAreBelow
<1>2. f \in [ThreadRows(r) -> Below(r)]
  BY <1>1, RowsAre
<1>3. \A i \in Below(r) : \E row \in ThreadRows(r) : f[row] = i
  <2> TAKE i \in Below(r)
  <2>1. PICK d \in 0..Len(posts) : i \in Level(r)[d]
    BY <1>1
  <2>2. <<i, d>> \in ThreadRows(r)
    BY <2>1, RowsAre
  <2> QED
    BY <2>2
<1>4. \A row1, row2 \in ThreadRows(r) : f[row1] = f[row2] => row1 = row2
  <2> SUFFICES ASSUME NEW row1 \in ThreadRows(r), NEW row2 \in ThreadRows(r), row1[1] = row2[1]
               PROVE  row1 = row2
    OBVIOUS
  <2>1. PICK d1 \in 0..Len(posts) : \E i \in Level(r)[d1] : row1 = <<i, d1>>
    BY RowsAre
  <2>2. PICK d2 \in 0..Len(posts) : \E i \in Level(r)[d2] : row2 = <<i, d2>>
    BY RowsAre
  <2>3. row1[1] \in Level(r)[d1] /\ row1 = <<row1[1], d1>>
    BY <2>1
  <2>4. row2[1] \in Level(r)[d2] /\ row2 = <<row2[1], d2>>
    BY <2>2
  <2>5. d1 = d2
    BY <2>3, <2>4, DepthIsUnique
  <2> QED
    BY <2>3, <2>4, <2>5
<1> HIDE DEF f
<1>5. f \in Surjection(ThreadRows(r), Below(r)) /\ f \in Injection(ThreadRows(r), Below(r))
  BY <1>2, <1>3, <1>4, Fun_IsInj, Fun_IsSurj
<1> QED
  BY <1>5, RowsAreFinite, FS_Surjection

\* The order of the rows, depth first.
LEMMA SortedRows ==
  ASSUME Tree, NEW r \in Nat, NEW s \in Sorted(ThreadRows(r))
  PROVE  LET n == Cardinality(ThreadRows(r))
         IN  /\ n \in Nat
             /\ s \in [1..n -> ThreadRows(r)]
             /\ \A i, j \in 1..n : i < j => s[i] # s[j] /\ s[i][2] <= s[j][2]
             /\ \A row \in ThreadRows(r) : \E i \in 1..n : s[i] = row
<1> DEFINE n == Cardinality(ThreadRows(r))
<1>1. n \in Nat
  BY RowsAreFinite
<1>2. /\ s \in [1..n -> ThreadRows(r)]
      /\ \A i, j \in 1..n : i < j => s[i] # s[j] /\ NotAfter(s[i], s[j])
      /\ \A row \in ThreadRows(r) : \E i \in 1..n : s[i] = row
  BY DEF Sorted
<1>3. \A row \in ThreadRows(r) : row[2] \in Nat
  BY RowsAre
<1>4. \A i \in 1..n : s[i][2] \in Nat
  BY <1>2, <1>3
<1>5. \A i, j \in 1..n : i < j => s[i][2] <= s[j][2]
  BY <1>2, <1>4 DEF NotAfter
<1> QED
  BY <1>1, <1>2, <1>5

\* A request for a post that is not there finds no rows, any other finds some.
LEMMA FoundOrNot ==
  ASSUME Tree, NEW r \in Nat, NEW s \in Sorted(ThreadRows(r))
  PROVE  s = <<>> <=> r \notin Id
<1> DEFINE n == Cardinality(ThreadRows(r))
<1>1. n \in Nat /\ s \in [1..n -> ThreadRows(r)]
  BY SortedRows
<1>2. r \in Id => <<r, 0>> \in ThreadRows(r)
  <2>1. 0 \in 0..Len(posts)
    BY TreeNumbers
  <2> QED
    BY <2>1, LevelRows, RowsAre
<1>3. r \notin Id => ThreadRows(r) = {}
  BY RowsAreBelow, RowsAre
<1>4. ThreadRows(r) = {} <=> n = 0
  BY RowsAreFinite, FS_EmptySet
<1>5. s = <<>> <=> n = 0
  BY <1>1
<1> QED
  BY <1>2, <1>3, <1>4, <1>5

\* In a sorted answer the root comes first, and a reply after what it replies to.
LEMMA ParentsFirst ==
  ASSUME Tree, NEW r \in Nat, r \in Id, NEW s \in Sorted(ThreadRows(r))
  PROVE  LET n == Cardinality(ThreadRows(r))
         IN  /\ 1 \in 1..n /\ s[1][1] = r
             /\ \A j \in 2..n : \E i \in 1..j - 1 : s[i][1] = posts[s[j][1]].parent
<1> DEFINE n == Cardinality(ThreadRows(r))
<1>1. /\ n \in Nat
      /\ s \in [1..n -> ThreadRows(r)]
      /\ \A i, j \in 1..n : i < j => s[i] # s[j] /\ s[i][2] <= s[j][2]
      /\ \A row \in ThreadRows(r) : \E i \in 1..n : s[i] = row
  BY SortedRows
<1>2. Len(posts) \in Nat
  BY TreeNumbers
<1>3. \A row \in ThreadRows(r) : row[2] = 0 => row = <<r, 0>>
  BY <1>2, LevelRows, RowsAre
<1>4. <<r, 0>> \in ThreadRows(r)
  BY <1>2, LevelRows, RowsAre
<1>5. PICK k \in 1..n : s[k] = <<r, 0>>
  BY <1>1, <1>4
<1> HIDE DEF n
<1>6. 1 \in 1..n
  BY <1>1, <1>5
<1>7. s[1] = <<r, 0>>
  <2>1. s[1] \in ThreadRows(r)
    BY <1>1, <1>6
  <2>2. s[1][2] \in Nat
    BY <2>1, RowsAre
  <2>3. 1 < k => s[1][2] <= s[k][2]
    BY <1>1, <1>5, <1>6
  <2>4. s[k][2] = 0
    BY <1>5
  <2>5. 1 < k => s[1][2] = 0
    BY <2>2, <2>3, <2>4
  <2>6. 1 < k \/ 1 = k
    BY <1>1, <1>5
  <2> QED
    BY <1>3, <1>5, <2>1, <2>5, <2>6
<1>8. ASSUME NEW j \in 2..n
      PROVE  \E i \in 1..j - 1 : s[i][1] = posts[s[j][1]].parent
  <2>1. j \in 1..n /\ 1 < j
    BY <1>1, <1>8
  <2>2. s[j] \in ThreadRows(r) /\ s[1] # s[j]
    BY <1>1, <1>6, <2>1
  <2>3. PICK d \in 0..Len(posts) : \E i \in Level(r)[d] : s[j] = <<i, d>>
    BY <2>2, RowsAre
  <2>4. s[j] = <<s[j][1], d>> /\ s[j][1] \in Level(r)[d] /\ s[j][2] = d
    BY <2>3
  <2>5. d # 0
    BY <1>3, <1>7, <2>2, <2>4
  <2>6. d \in 1..Len(posts) /\ d - 1 \in 0..Len(posts) /\ ~(d <= d - 1)
    BY <1>2, <2>5
  <2> DEFINE p == posts[s[j][1]].parent
  <2>7. p \in Level(r)[d - 1]
    BY <2>4, <2>6, LevelRows
  <2>8. <<p, d - 1>> \in ThreadRows(r)
    BY <2>6, <2>7, RowsAre
  <2>9. PICK i \in 1..n : s[i] = <<p, d - 1>>
    BY <1>1, <2>8
  <2>10. s[i][1] = p /\ s[i][2] = d - 1
    BY <2>9
  <2>11. i # j
    BY <2>4, <2>6, <2>10
  <2>12. ~(j < i)
    BY <1>1, <2>1, <2>4, <2>6, <2>10
  <2>13. i \in 1..j - 1
    BY <1>1, <2>1, <2>11, <2>12
  <2> QED
    BY <2>10, <2>13
<1> QED
  BY <1>6, <1>7, <1>8 DEF n

\* What a request leaves in answer, in terms of the sorted rows.
LEMMA Answered ==
  ASSUME Tree, NEW r \in Nat, FetchThread(r)
  PROVE  \/ r \notin Id /\ answer' = NotFound
         \/ /\ r \in Id
            /\ \E s \in Sorted(ThreadRows(r)) :
                 LET n == Cardinality(ThreadRows(r))
                 IN  /\ answer' = [i \in 1..n |-> s[i][1]]
                     /\ answer' \in Seq(Id) /\ Len(answer') = n
<1>1. PICK s \in Sorted(ThreadRows(r)) :
        answer' = IF s = <<>> THEN NotFound ELSE [i \in DOMAIN s |-> s[i][1]]
  BY DEF FetchThread
<1>2. s = <<>> <=> r \notin Id
  BY FoundOrNot
<1> DEFINE n == Cardinality(ThreadRows(r))
<1>3. n \in Nat /\ s \in [1..n -> ThreadRows(r)]
  BY SortedRows
<1>4. ASSUME r \in Id
      PROVE  /\ answer' = [i \in 1..n |-> s[i][1]]
             /\ answer' \in Seq(Id) /\ Len(answer') = n
  <2>1. answer' = [i \in 1..n |-> s[i][1]]
    BY <1>1, <1>2, <1>3, <1>4
  <2>2. \A row \in ThreadRows(r) : row[1] \in Id
    BY RowsAreFinite
  <2>3. answer' \in [1..n -> Id]
    BY <1>3, <2>1, <2>2
  <2> QED
    BY <1>3, <2>1, <2>3, IsASeq
<1> QED
  BY <1>1, <1>2, <1>4
------------------------------------------------------------------------------
(* The order of an answer. *)

\* An answer lists posts of the table.
AnswerFits == answer # NotFound => answer \in Seq(Id)

Inv == Tree /\ AnswerFits /\ RepliesFollowTheirParents

LEMMA InitInv == Init => Inv
<1> SUFFICES ASSUME Init PROVE Inv
  OBVIOUS
<1>1. posts = <<>> /\ answer = NotFound
  BY DEF Init
<1>2. Tree
  BY <1>1, EmptySeq DEF Tree, Id
<1> QED
  BY <1>1, <1>2 DEF Inv, AnswerFits, RepliesFollowTheirParents

\* A new post leaves the posts that are there as they are.
LEMMA InsertKeepsInv ==
  ASSUME Inv, NEW parent \in 0..MaxPost, NEW ts \in Timestamp, InsertPost(parent, ts)
  PROVE  Inv'
<1> DEFINE Row == [parent : Nat, timestamp : Timestamp]
           row == [parent |-> parent, timestamp |-> ts]
           n == Len(posts)
<1>1. /\ posts \in Seq(Row) /\ n \in Nat /\ Id = 1..n
      /\ \A i \in Id : posts[i].parent \in Nat /\ posts[i].parent < i
  BY TreeNumbers DEF Inv, Tree
<1>2. parent \in Nat /\ row \in Row /\ (parent = 0 \/ parent \in Id)
  BY BoundAssumption DEF InsertPost
<1>3. posts' = Append(posts, row) /\ answer' = answer /\ root' = root
  BY DEF InsertPost
<1> HIDE DEF row, Row
<1>4. /\ posts' \in Seq(Row) /\ Len(posts') = n + 1
      /\ \A i \in 1..n : posts'[i] = posts[i]
      /\ posts'[n + 1] = row
  BY <1>1, <1>2, <1>3, AppendProperties
<1>5. Id' = 1..n + 1
  BY <1>1, <1>4, LenProperties DEF Id
<1>6. Tree'
  <2> SUFFICES ASSUME NEW i \in 1..n + 1 PROVE posts'[i].parent < i
    BY <1>4, <1>5 DEF Tree, Row
  <2>1. CASE i \in 1..n
    BY <1>1, <1>4, <2>1
  <2>2. CASE i = n + 1
    BY <1>1, <1>2, <1>4, <2>2 DEF row
  <2> QED
    BY <1>1, <2>1, <2>2
<1>7. ASSUME answer # NotFound
      PROVE  /\ answer \in Seq(Id) /\ Len(answer) \in Nat
             /\ \A j \in 2..Len(answer) : answer[j] \in 1..n
  <2>1. answer \in Seq(Id) /\ Len(answer) \in Nat
    BY <1>7 DEF Inv, AnswerFits
  <2>2. \A j \in 2..Len(answer) : j \in 1..Len(answer)
    BY <2>1
  <2> QED
    BY <1>1, <2>1, <2>2, ElementOfSeq
<1>8. AnswerFits'
  <2>1. Id \subseteq Id'
    BY <1>1, <1>5
  <2>2. Seq(Id) \subseteq Seq(Id')
    BY <2>1
  <2> QED
    BY <1>3, <1>7, <2>2 DEF AnswerFits
<1>9. RepliesFollowTheirParents'
  BY <1>3, <1>4, <1>7 DEF Inv, RepliesFollowTheirParents
<1> QED
  BY <1>6, <1>8, <1>9 DEF Inv

\* A request is answered in order.
LEMMA FetchKeepsInv ==
  ASSUME Inv, NEW r \in Nat, FetchThread(r)
  PROVE  Inv'
<1>1. posts' = posts /\ root' = r
  BY DEF FetchThread
<1>2. Tree /\ Tree' /\ Id' = Id
  BY <1>1 DEF Inv, Tree, Id
<1>3. CASE answer' = NotFound
  BY <1>2, <1>3 DEF Inv, AnswerFits, RepliesFollowTheirParents
<1>4. CASE answer' # NotFound
  <2> DEFINE n == Cardinality(ThreadRows(r))
  <2>1. r \in Id
    BY <1>2, <1>4, Answered
  <2>2. PICK s \in Sorted(ThreadRows(r)) :
          /\ answer' = [i \in 1..n |-> s[i][1]]
          /\ answer' \in Seq(Id) /\ Len(answer') = n
    BY <1>2, <1>4, Answered
  <2>3. n \in Nat
    BY <1>2, SortedRows
  <2>4. /\ 1 \in 1..n /\ s[1][1] = r
        /\ \A j \in 2..n : \E i \in 1..j - 1 : s[i][1] = posts[s[j][1]].parent
    BY <1>2, <2>1, ParentsFirst
  <2> HIDE DEF n
  <2>5. \A j \in 2..n : j \in 1..n /\ \A i \in 1..j - 1 : i \in 1..n
    BY <2>3
  <2>6. answer'[1] = r
    BY <2>2, <2>4
  <2>7. \A j \in 2..n : \E i \in 1..j - 1 : answer'[i] = posts[answer'[j]].parent
    BY <2>2, <2>4, <2>5
  <2>8. RepliesFollowTheirParents'
    BY <1>1, <2>2, <2>6, <2>7 DEF RepliesFollowTheirParents
  <2> QED
    BY <1>2, <2>2, <2>8 DEF Inv, AnswerFits
<1> QED
  BY <1>3, <1>4

LEMMA InvHolds == Spec => []Inv
<1>1. ASSUME Inv, [Next]_vars
      PROVE  Inv'
  <2>1. CASE \E parent \in 0..MaxPost, ts \in Timestamp : InsertPost(parent, ts)
    BY <1>1, <2>1, InsertKeepsInv
  <2>2. CASE \E r \in 1..MaxPost + 1 : FetchThread(r)
    BY <1>1, <2>2, FetchKeepsInv, BoundAssumption
  <2>3. CASE UNCHANGED vars
    BY <1>1, <2>3 DEF vars, Inv, Tree, AnswerFits, RepliesFollowTheirParents, Id
  <2> QED
    BY <1>1, <2>1, <2>2, <2>3 DEF Next
<1> QED
  BY InitInv, <1>1, PTL DEF Spec

\* fetch_thread lists the post first, and every reply after the post it replies to,
\* whatever timestamps the authors chose and whatever is posted afterwards.
THEOREM RepliesAlwaysFollow == Spec => []RepliesFollowTheirParents
BY InvHolds, PTL DEF Inv

\* fetch_thread returns the post and every post that is below it in the tree of
\* replies, each once, and 404 exactly when the post does not exist.
THEOREM ThreadAlwaysComplete == Spec => ThreadIsComplete
<1> DEFINE Complete(r) ==
      IF r \in Id
        THEN /\ {answer'[i] : i \in DOMAIN answer'} = Below(r)
             /\ Len(answer') = Cardinality(Below(r))
        ELSE answer' = NotFound
<1>1. ASSUME Inv, NEW r \in 1..MaxPost + 1, FetchThread(r)
      PROVE  Complete(r)
  <2>1. Tree /\ r \in Nat
    BY <1>1, BoundAssumption DEF Inv
  <2>2. CASE r \notin Id
    BY <1>1, <2>1, <2>2, Answered
  <2>3. CASE r \in Id
    <3> DEFINE n == Cardinality(ThreadRows(r))
    <3>1. PICK s \in Sorted(ThreadRows(r)) :
            /\ answer' = [i \in 1..n |-> s[i][1]]
            /\ answer' \in Seq(Id) /\ Len(answer') = n
      BY <1>1, <2>1, <2>3, Answered
    <3>2. /\ s \in [1..n -> ThreadRows(r)]
          /\ \A row \in ThreadRows(r) : \E i \in 1..n : s[i] = row
      BY <2>1, SortedRows
    <3>3. n = Cardinality(Below(r))
      BY <2>1, <2>3, RowPerPost
    <3> HIDE DEF n
    <3>4. \A i : i \in Below(r) <=> \E row \in ThreadRows(r) : row[1] = i
      <4>1. \A i : i \in Below(r) <=> \E d \in 0..Len(posts) : i \in Level(r)[d]
        BY <2>1, <2>3, RowsAreBelow
      <4>2. \A i : \A d : i \in Level(r)[d] /\ d \in 0..Len(posts) =>
              <<i, d>> \in ThreadRows(r) /\ <<i, d>>[1] = i
        BY RowsAre
      <4>3. \A row \in ThreadRows(r) : \E d \in 0..Len(posts) : row[1] \in Level(r)[d]
        BY RowsAre
      <4> QED
        BY <4>1, <4>2, <4>3
    <3>5. DOMAIN answer' = 1..n
      BY <3>1
    <3>6. {answer'[i] : i \in DOMAIN answer'} = Below(r)
      BY <3>1, <3>2, <3>4, <3>5
    <3> QED
      BY <2>3, <3>1, <3>3, <3>6
  <2> QED
    BY <2>2, <2>3
<1>2. Inv => [\A r \in 1..MaxPost + 1 : FetchThread(r) => Complete(r)]_vars
  BY <1>1
<1> QED
  BY InvHolds, <1>2, PTL DEF ThreadIsComplete
------------------------------------------------------------------------------
(* There is an answer. *)

\* The order of the rows is total and transitive.
LEMMA NotAfterOrders ==
  ASSUME Tree
  PROVE  \A a, b, c \in Id \X (0..Len(posts)) :
           /\ NotAfter(a, b) \/ NotAfter(b, a)
           /\ NotAfter(a, b) /\ NotAfter(b, c) => NotAfter(a, c)
<1>1. Len(posts) \in Nat
  BY TreeNumbers
<1>2. \A i \in Id : posts[i].timestamp \in Int
  <2>1. \A i \in Id : posts[i] \in [parent : Nat, timestamp : Timestamp]
    BY <1>1, ElementOfSeq, TreeNumbers DEF Tree
  <2> QED
    BY <2>1, TimestampAssumption
<1>3. \A a \in Id \X (0..Len(posts)) : a[2] \in Int /\ posts[a[1]].timestamp \in Int
  BY <1>1, <1>2
<1> QED
  BY <1>3 DEF NotAfter

\* A new row finds its place in a sorted sequence of rows.
LEMMA InsertSorted ==
  ASSUME Tree, NEW R \in SUBSET (Id \X (0..Len(posts))), NEW x \in Id \X (0..Len(posts)),
         x \notin R, NEW n \in Nat, Cardinality(R) = n, Cardinality(R \cup {x}) = n + 1,
         NEW s \in Sorted(R)
  PROVE  Sorted(R \cup {x}) # {}
<1>1. /\ s \in [1..n -> R]
      /\ \A i, j \in 1..n : i < j => s[i] # s[j] /\ NotAfter(s[i], s[j])
      /\ \A row \in R : \E i \in 1..n : s[i] = row
  BY DEF Sorted
<1> DEFINE T == {k \in 1..n + 1 : k = n + 1 \/ NotAfter(x, s[k])}
<1>2. PICK k \in T : \A m \in T : k <= m
  <2>1. T \in SUBSET Nat /\ n + 1 \in T
    OBVIOUS
  <2> HIDE DEF T
  <2> QED
    BY <2>1, Least
<1>3. k \in 1..n + 1 /\ (k # n + 1 => NotAfter(x, s[k]))
  BY <1>2
<1>4. \A i \in 1..n : i < k => NotAfter(s[i], x)
  <2> SUFFICES ASSUME NEW i \in 1..n, i < k PROVE NotAfter(s[i], x)
    OBVIOUS
  <2>1. i \notin T
    BY <1>2
  <2>2. ~NotAfter(x, s[i])
    BY <2>1
  <2> QED
    BY <1>1, <2>2, NotAfterOrders
<1> HIDE DEF T
<1>5. \A i \in 1..n : k <= i => NotAfter(x, s[i])
  <2> SUFFICES ASSUME NEW i \in 1..n, k <= i PROVE NotAfter(x, s[i])
    OBVIOUS
  <2>1. k \in 1..n /\ NotAfter(x, s[k]) /\ (k = i \/ k < i)
    BY <1>3
  <2>2. s[k] \in R /\ s[i] \in R /\ (k < i => NotAfter(s[k], s[i]))
    BY <1>1, <2>1
  <2> QED
    BY <2>1, <2>2, NotAfterOrders
<1> DEFINE t == [j \in 1..n + 1 |-> IF j < k THEN s[j] ELSE IF j = k THEN x ELSE s[j - 1]]
<1>6. /\ \A j \in 1..n + 1 : j < k => j \in 1..n /\ t[j] = s[j]
      /\ t[k] = x
      /\ \A j \in 1..n + 1 : k < j => j - 1 \in 1..n /\ k <= j - 1 /\ t[j] = s[j - 1]
  BY <1>3
<1>7. t \in [1..n + 1 -> R \cup {x}]
  BY <1>1, <1>3
<1> HIDE DEF t
<1>8. ASSUME NEW i \in 1..n + 1, NEW j \in 1..n + 1, i < j
      PROVE  t[i] # t[j] /\ NotAfter(t[i], t[j])
  <2>1. CASE j < k
    <3>1. i < k
      BY <1>3, <1>8, <2>1
    <3>2. i \in 1..n /\ j \in 1..n /\ t[i] = s[i] /\ t[j] = s[j]
      BY <1>6, <2>1, <3>1
    <3> QED
      BY <1>1, <1>8, <3>2
  <2>2. CASE j = k
    <3>1. i < k
      BY <1>8, <2>2
    <3>2. i \in 1..n /\ t[i] = s[i] /\ t[j] = x
      BY <1>6, <2>2, <3>1
    <3>3. s[i] \in R /\ NotAfter(s[i], x)
      BY <1>1, <1>4, <3>1, <3>2
    <3> QED
      BY <3>2, <3>3
  <2>3. CASE k < j /\ i < k
    <3>1. i < j - 1
      BY <1>3, <2>3
    <3>2. i \in 1..n /\ j - 1 \in 1..n /\ t[i] = s[i] /\ t[j] = s[j - 1]
      BY <1>6, <2>3
    <3> QED
      BY <1>1, <3>1, <3>2
  <2>4. CASE k < j /\ i = k
    <3>1. j - 1 \in 1..n /\ k <= j - 1 /\ t[i] = x /\ t[j] = s[j - 1]
      BY <1>6, <2>4
    <3>2. s[j - 1] \in R /\ NotAfter(x, s[j - 1])
      BY <1>1, <1>5, <3>1
    <3> QED
      BY <3>1, <3>2
  <2>5. CASE k < j /\ k < i
    <3>1. i - 1 < j - 1
      BY <1>8
    <3>2. i - 1 \in 1..n /\ j - 1 \in 1..n /\ t[i] = s[i - 1] /\ t[j] = s[j - 1]
      BY <1>6, <2>5
    <3> QED
      BY <1>1, <3>1, <3>2
  <2> QED
    BY <1>3, <2>1, <2>2, <2>3, <2>4, <2>5
<1>9. ASSUME NEW row \in R \cup {x}
      PROVE  \E i \in 1..n + 1 : t[i] = row
  <2>1. CASE row = x
    BY <1>3, <1>6, <2>1
  <2>2. CASE row \in R
    <3>1. PICK i \in 1..n : s[i] = row
      BY <1>1, <2>2
    <3>2. CASE i < k
      <4>1. i \in 1..n + 1
        OBVIOUS
      <4> QED
        BY <1>6, <3>1, <3>2, <4>1
    <3>3. CASE k <= i
      <4>1. i + 1 \in 1..n + 1 /\ k < i + 1 /\ (i + 1) - 1 = i
        BY <1>3, <3>3
      <4> QED
        BY <1>6, <3>1, <4>1
    <3> QED
      BY <1>3, <3>2, <3>3
  <2> QED
    BY <2>1, <2>2
<1>10. DOMAIN t = 1..n + 1
  BY <1>7
<1>11. t \in Sorted(R \cup {x})
  BY <1>7, <1>8, <1>9, <1>10 DEF Sorted
<1> QED
  BY <1>11

\* A finite set of rows can be sorted.
LEMMA CanSort ==
  ASSUME Tree, NEW R \in SUBSET (Id \X (0..Len(posts))), IsFiniteSet(R)
  PROVE  Sorted(R) # {}
<1> DEFINE S == {n \in Nat : \A Q \in SUBSET (Id \X (0..Len(posts))) :
                   IsFiniteSet(Q) /\ Cardinality(Q) = n => Sorted(Q) # {}}
<1>1. 0 \in S
  <2> SUFFICES ASSUME NEW Q \in SUBSET (Id \X (0..Len(posts))),
                      IsFiniteSet(Q), Cardinality(Q) = 0
               PROVE  Sorted(Q) # {}
    OBVIOUS
  <2>1. Q = {}
    BY FS_EmptySet
  <2> DEFINE s == [i \in 1..0 |-> i]
  <2>2. s \in [1..Cardinality(Q) -> Q] /\ DOMAIN s = {}
    OBVIOUS
  <2>3. s \in Sorted(Q)
    BY <2>1, <2>2 DEF Sorted
  <2> QED
    BY <2>3
<1>2. ASSUME NEW n \in Nat, n \in S
      PROVE  n + 1 \in S
  <2> SUFFICES ASSUME NEW Q \in SUBSET (Id \X (0..Len(posts))),
                      IsFiniteSet(Q), Cardinality(Q) = n + 1
               PROVE  Sorted(Q) # {}
    OBVIOUS
  <2>1. PICK x \in Q : TRUE
    BY FS_EmptySet
  <2> DEFINE P == Q \ {x}
  <2>2. IsFiniteSet(P) /\ Cardinality(P) = n
    <3>1. IsFiniteSet(P) /\ Cardinality(P) = Cardinality(Q) - 1
      BY FS_RemoveElement
    <3> QED
      BY <3>1
  <2>3. PICK s : s \in Sorted(P)
    BY <1>2, <2>2
  <2>4. Q = P \cup {x} /\ x \notin P /\ P \in SUBSET (Id \X (0..Len(posts)))
    OBVIOUS
  <2> HIDE DEF P
  <2> QED
    BY <2>2, <2>3, <2>4, InsertSorted
<1>3. \A n \in Nat : n \in S
  <2> HIDE DEF S
  <2> QED
    BY <1>1, <1>2, SetInduction
<1> QED
  BY <1>3, FS_CardinalityType

\* fetch_thread has an answer whatever was posted: FetchThread, which takes a sorted
\* sequence of the rows, is never without one, so the theorems about its answers are
\* about every request.
THEOREM EveryRequestIsAnswered == Spec => [](\A r \in Nat : Sorted(ThreadRows(r)) # {})
<1>1. Inv => \A r \in Nat : Sorted(ThreadRows(r)) # {}
  BY RowsAreFinite, CanSort DEF Inv
<1> QED
  BY InvHolds, <1>1, PTL
=============================================================================
