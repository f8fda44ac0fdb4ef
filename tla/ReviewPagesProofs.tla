-------------------------- MODULE ReviewPagesProofs --------------------------
(***************************************************************************)
(* Proofs about the pages of ReviewQueue, for every value of its constants *)
(* and every interleaving of readers with ingestion and overrides.         *)
(***************************************************************************)
EXTENDS ReviewQueueProofs, FiniteSetTheorems

-----------------------------------------------------------------------------
(* Ranks: Above(S, i) counts the elements of S that are listed before i.     *)

\* Ids are numbers, and finitely many.
LEMMA IdsAreFinite ==
  ASSUME NEW S \in SUBSET (1..MaxId)
  PROVE  S \in SUBSET Nat /\ IsFiniteSet(S)
<1>1. MaxId \in Nat
  BY ReviewAssumption
<1>2. 1 \in Int /\ MaxId \in Int
  BY <1>1
<1>3. IsFiniteSet(1..MaxId)
  BY <1>2, FS_Interval
<1>4. IsFiniteSet(S)
  BY <1>3, FS_Subset
<1>5. S \in SUBSET Nat
  BY <1>1
<1>6. QED
  BY <1>4, <1>5

LEMMA AboveType ==
  ASSUME NEW S \in SUBSET Nat, IsFiniteSet(S), NEW i \in S
  PROVE  Above(S, i) \in Nat /\ Cardinality(S) \in Nat /\ Above(S, i) < Cardinality(S)
<1>. DEFINE A == {j \in S : j > i}
<1>1. /\ IsFiniteSet(S \ {i})
      /\ Cardinality(S \ {i}) = Cardinality(S) - 1
  BY FS_RemoveElement
<1>2. A \in SUBSET (S \ {i})
  OBVIOUS
<1>3. IsFiniteSet(A) /\ Cardinality(A) <= Cardinality(S \ {i})
  BY <1>1, <1>2, FS_Subset
<1>4. Cardinality(A) \in Nat /\ Cardinality(S) \in Nat
  BY <1>3, FS_CardinalityType
<1>5. Above(S, i) = Cardinality(A)
  BY DEF Above
<1>. HIDE DEF A
<1>6. QED
  BY <1>1, <1>3, <1>4, <1>5

\* A larger id has a smaller rank.
LEMMA AboveDecreases ==
  ASSUME NEW S \in SUBSET Nat, IsFiniteSet(S), NEW i \in S, NEW j \in S, i < j
  PROVE  Above(S, j) < Above(S, i)
<1>. DEFINE A == {k \in S : k > i}
            B == {k \in S : k > j}
<1>1. B \in SUBSET A /\ A \in SUBSET S
  <2>1. ASSUME NEW k \in S, k > j PROVE k > i
    BY <2>1
  <2>2. QED
    BY <2>1
<1>2. j \in A /\ j \notin B
  OBVIOUS
<1>3. Above(S, i) = Cardinality(A) /\ Above(S, j) = Cardinality(B)
  BY DEF Above
<1>. HIDE DEF A, B
<1>4. IsFiniteSet(A)
  BY <1>1, FS_Subset
<1>5. Cardinality(B) <= Cardinality(A) /\ Cardinality(A) # Cardinality(B)
  BY <1>1, <1>2, <1>4, FS_Subset
<1>6. Above(S, i) \in Nat /\ Above(S, j) \in Nat
  BY AboveType
<1>7. QED
  BY <1>3, <1>5, <1>6

\* Every rank below the size of S is taken.
LEMMA AboveIsOnto ==
  ASSUME NEW S \in SUBSET Nat, IsFiniteSet(S), NEW k \in Nat, k < Cardinality(S)
  PROVE  \E i \in S : Above(S, i) = k
<1>1. PICK n \in Nat : n = Cardinality(S)
  BY FS_CardinalityType
<1>. DEFINE f == [i \in S |-> Above(S, i)]
<1>2. IsFiniteSet(0..(n-1)) /\ Cardinality(0..(n-1)) = n
  <2>1. 0 \in Int /\ n - 1 \in Int
    OBVIOUS
  <2>2. IsFiniteSet(0..(n-1)) /\ Cardinality(0..(n-1)) = IF 0 > n-1 THEN 0 ELSE (n-1)-0+1
    BY <2>1, FS_Interval
  <2>3. QED
    BY <2>2
<1>3. \A i \in S : Above(S, i) \in 0..(n-1)
  BY <1>1, AboveType
<1>4. \A i, j \in S : i # j => Above(S, i) # Above(S, j)
  <2>1. SUFFICES ASSUME NEW i \in S, NEW j \in S, i < j
                 PROVE  Above(S, i) # Above(S, j)
    OBVIOUS
  <2>2. Above(S, j) < Above(S, i) /\ Above(S, i) \in Nat /\ Above(S, j) \in Nat
    BY <2>1, AboveDecreases, AboveType
  <2>3. QED
    BY <2>2
<1>5. f \in Injection(S, 0..(n-1))
  BY <1>3, <1>4 DEF Injection, IsInjective
<1>6. f \in Surjection(S, 0..(n-1))
  BY <1>1, <1>2, <1>5, FS_Injection
<1>7. k \in 0..(n-1)
  BY <1>1
<1>. HIDE DEF f
<1>8. \A t \in 0..(n-1) : \E i \in S : f[i] = t
  BY <1>6 DEF Surjection
<1>9. QED
  BY <1>7, <1>8 DEF f

\* ORDER BY id DESC: every id once, the larger before the smaller.
LEMMA DescendingSorts ==
  ASSUME NEW S \in SUBSET Nat, IsFiniteSet(S)
  PROVE  LET s == Descending(S) IN
         /\ s \in Seq(S) /\ Len(s) = Cardinality(S)
         /\ \A i \in S : \E k \in 1..Len(s) : s[k] = i
         /\ \A j, k \in 1..Len(s) : j < k => s[j] > s[k]
<1>1. PICK n \in Nat : n = Cardinality(S)
  BY FS_CardinalityType
<1>2. PICK s : s = Descending(S)
  OBVIOUS
<1>3. s = [k \in 1..n |-> CHOOSE i \in S : Above(S, i) = k - 1]
  BY <1>1, <1>2 DEF Descending
<1>4. ASSUME NEW k \in 1..n PROVE s[k] \in S /\ Above(S, s[k]) = k - 1
  <2>1. k - 1 \in Nat /\ k - 1 < Cardinality(S)
    BY <1>1
  <2>2. \E i \in S : Above(S, i) = k - 1
    BY <2>1, AboveIsOnto
  <2>3. s[k] = CHOOSE i \in S : Above(S, i) = k - 1
    BY <1>3
  <2>4. QED
    BY <2>2, <2>3
<1>5. s \in Seq(S) /\ Len(s) = n
  <2>1. s \in [1..n -> S]
    BY <1>3, <1>4
  <2>2. QED
    BY <2>1
<1>6. ASSUME NEW i \in S PROVE \E k \in 1..n : s[k] = i
  <2>1. PICK k : k = Above(S, i) + 1
    OBVIOUS
  <2>2. k \in 1..n /\ k - 1 = Above(S, i)
    BY <1>1, <2>1, AboveType
  <2>3. PICK j \in S : j = s[k] /\ Above(S, j) = Above(S, i)
    BY <1>4, <2>2
  <2>4. ~(i < j) /\ ~(j < i)
    BY <2>3, AboveDecreases, AboveType
  <2>5. i = j
    BY <2>4
  <2>6. QED
    BY <2>2, <2>3, <2>5
<1>7. ASSUME NEW j \in 1..n, NEW k \in 1..n, j < k PROVE s[j] > s[k]
  <2>1. PICK a \in S, b \in S : /\ a = s[j] /\ Above(S, a) = j - 1
                                /\ b = s[k] /\ Above(S, b) = k - 1
    BY <1>4
  <2>2. ~(a < b)
    BY <1>7, <2>1, AboveDecreases
  <2>3. a # b
    BY <1>7, <2>1
  <2>4. QED
    BY <2>1, <2>2, <2>3
<1>8. QED
  BY <1>1, <1>2, <1>5, <1>6, <1>7

\* A finite set of numbers has a largest and a smallest element.
LEMMA Extremes ==
  ASSUME NEW S \in SUBSET Nat, IsFiniteSet(S), S # {}
  PROVE  /\ \E m \in S : \A i \in S : i <= m
         /\ \E m \in S : \A i \in S : m <= i
<1>1. Cardinality(S) \in Nat /\ Cardinality(S) # 0
  BY FS_CardinalityType, FS_EmptySet
<1>2. \E m \in S : Above(S, m) = 0
  BY <1>1, AboveIsOnto
<1>3. PICK m \in S : Above(S, m) = 0
  BY <1>2
<1>4. \A i \in S : ~(m < i)
  BY <1>3, AboveDecreases, AboveType
<1>5. PICK k \in Nat : k = Cardinality(S) - 1 /\ k < Cardinality(S)
  BY <1>1
<1>6. \E n \in S : Above(S, n) = k
  BY <1>5, AboveIsOnto
<1>7. PICK n \in S : Above(S, n) = k
  BY <1>6
<1>8. \A i \in S : ~(i < n)
  <2>1. ASSUME NEW i \in S, i < n PROVE FALSE
    <3>1. Above(S, n) < Above(S, i) /\ Above(S, i) < Cardinality(S) /\ Above(S, i) \in Nat
      BY <2>1, AboveDecreases, AboveType
    <3>2. QED
      BY <1>1, <1>5, <1>7, <3>1
  <2>2. QED
    BY <2>1
<1>9. QED
  BY <1>4, <1>8

\* The smallest id of a page.
LEMMA MinOfPage ==
  ASSUME NEW S \in SUBSET Nat, IsFiniteSet(S), S # {}
  PROVE  Min(S) \in S /\ \A i \in S : Min(S) <= i
<1>1. \E m \in S : \A i \in S : m <= i
  BY Extremes
<1>2. QED
  BY <1>1 DEF Min

-----------------------------------------------------------------------------
(* ORDER BY id DESC LIMIT n.                                                 *)

LEMMA TopFacts ==
  ASSUME NEW S \in SUBSET Nat, IsFiniteSet(S), NEW n \in Nat
  PROVE  /\ Top(S, n) \in SUBSET S /\ IsFiniteSet(Top(S, n))
         /\ Cardinality(Top(S, n)) \in Nat /\ Cardinality(Top(S, n)) <= n
         /\ \A i \in Top(S, n), j \in S : i < j => j \in Top(S, n)
         /\ Cardinality(S) <= n => Top(S, n) = S
         /\ Cardinality(Top(S, n)) < n => Top(S, n) = S
<1>1. PICK T : T = Top(S, n)
  OBVIOUS
<1>2. T = {i \in S : Above(S, i) < n}
  BY <1>1 DEF Top
<1>3. T \in SUBSET S /\ T \in SUBSET Nat
  BY <1>2
<1>4. IsFiniteSet(T) /\ Cardinality(T) \in Nat
  BY <1>3, FS_Subset, FS_CardinalityType
<1>5. Cardinality(T) <= n
  <2>. DEFINE f == [i \in T |-> Above(S, i)]
  <2>1. IsFiniteSet(0..(n-1)) /\ Cardinality(0..(n-1)) = n
    <3>1. 0 \in Int /\ n - 1 \in Int
      OBVIOUS
    <3>2. IsFiniteSet(0..(n-1)) /\ Cardinality(0..(n-1)) = IF 0 > n-1 THEN 0 ELSE (n-1)-0+1
      BY <3>1, FS_Interval
    <3>3. QED
      BY <3>2
  <2>2. \A i \in T : Above(S, i) \in 0..(n-1)
    BY <1>2, AboveType
  <2>3. \A i, j \in T : i # j => Above(S, i) # Above(S, j)
    <3>1. SUFFICES ASSUME NEW i \in T, NEW j \in T, i < j
                   PROVE  Above(S, i) # Above(S, j)
      BY <1>3
    <3>2. Above(S, j) < Above(S, i) /\ Above(S, i) \in Nat /\ Above(S, j) \in Nat
      BY <1>3, <3>1, AboveDecreases, AboveType
    <3>3. QED
      BY <3>2
  <2>4. f \in Injection(T, 0..(n-1))
    BY <2>2, <2>3 DEF Injection, IsInjective
  <2>5. QED
    BY <2>1, <2>4, FS_Injection
<1>6. ASSUME NEW i \in T, NEW j \in S, i < j PROVE j \in T
  <2>1. Above(S, j) < Above(S, i) /\ Above(S, i) \in Nat /\ Above(S, j) \in Nat
    BY <1>3, <1>6, AboveDecreases, AboveType
  <2>2. QED
    BY <1>2, <2>1
<1>7. ASSUME Cardinality(S) <= n PROVE T = S
  <2>1. \A i \in S : Above(S, i) < n
    BY <1>7, AboveType
  <2>2. QED
    BY <1>2, <2>1
<1>8. ASSUME Cardinality(T) < n, T # S PROVE FALSE
  <2>1. IsFiniteSet(S \ T) /\ S \ T # {} /\ S \ T \in SUBSET Nat
    BY <1>3, <1>8, FS_Difference
  <2>2. \E m \in S \ T : \A i \in S \ T : i <= m
    BY <2>1, Extremes
  <2>3. PICK m \in S \ T : \A i \in S \ T : i <= m
    BY <2>2
  <2>. DEFINE A == {j \in S : j > m}
  <2>4. A \in SUBSET T
    <3>1. ASSUME NEW j \in S, j > m, j \notin T PROVE FALSE
      <4>1. j <= m /\ j \in Nat /\ m \in Nat
        BY <2>3, <3>1
      <4>2. QED
        BY <3>1, <4>1
    <3>2. QED
      BY <3>1
  <2>5. Above(S, m) = Cardinality(A)
    BY DEF Above
  <2>. HIDE DEF A
  <2>6. Cardinality(A) <= Cardinality(T)
    BY <1>4, <2>4, FS_Subset
  <2>7. Above(S, m) < n
    BY <1>4, <1>8, <2>5, <2>6, AboveType
  <2>8. QED
    BY <1>2, <2>7
<1>9. QED
  BY <1>1, <1>3, <1>4, <1>5, <1>6, <1>7, <1>8

\* The next cursor is the smallest id on the page.
LEMMA PageFacts ==
  ASSUME NEW S \in SUBSET Nat, IsFiniteSet(S), NEW screen \in BOOLEAN, NEW limit \in Nat
  PROVE  LET page == PageOf(S, screen, limit) IN
         /\ page.ids \in SUBSET S
         /\ page.next = 0 \/ (page.next \in page.ids /\ \A i \in page.ids : page.next <= i)
<1>. DEFINE n    == IF screen THEN Clamp(ScreenPage + 1) ELSE Clamp(limit)
            rows == Top(S, n)
            ids  == IF screen THEN Top(rows, ScreenPage) ELSE rows
            next == PageOf(S, screen, limit).next
<1>1. n \in Nat /\ ScreenPage \in Nat
  BY ReviewAssumption DEF Clamp
<1>2. rows \in SUBSET S /\ IsFiniteSet(rows)
  BY <1>1, TopFacts
<1>3. ids \in SUBSET rows /\ IsFiniteSet(ids)
  <2>1. Top(rows, ScreenPage) \in SUBSET rows /\ IsFiniteSet(Top(rows, ScreenPage))
    BY <1>1, <1>2, TopFacts
  <2>2. QED
    BY <1>2, <2>1
<1>4. PageOf(S, screen, limit).ids = ids /\ (next = 0 \/ (ids # {} /\ next = Min(ids)))
  BY DEF PageOf
<1>. HIDE DEF rows, ids, next
<1>5. ids # {} => Min(ids) \in ids /\ \A i \in ids : Min(ids) <= i
  BY <1>2, <1>3, MinOfPage
<1>6. QED
  BY <1>2, <1>3, <1>4, <1>5 DEF next

\* The limits for which the cursor is right: those that the service does not
\* clamp.  The router compares the number of rows with the limit as asked for.
PagesFit == Limits \subseteq 1..MaxPage /\ ScreenPage < MaxPage

\* A page ends the traversal only if it shows all there is, and otherwise shows
\* all down to the next cursor.
LEMMA PageIsWhole ==
  ASSUME NEW S \in SUBSET Nat, IsFiniteSet(S), NEW screen \in BOOLEAN,
         NEW limit \in Nat, PagesFit, ~screen => limit \in 1..MaxPage
  PROVE  LET page == PageOf(S, screen, limit) IN
         \A i \in S : page.next <= i => i \in page.ids
<1>1. MaxPage \in Nat \ {0} /\ ScreenPage \in Nat \ {0} /\ ScreenPage < MaxPage
  BY ReviewAssumption DEF PagesFit
<1>2. CASE screen
  <2>. DEFINE rows == Top(S, ScreenPage + 1)
              ids  == Top(rows, ScreenPage)
  <2>1. Clamp(ScreenPage + 1) = ScreenPage + 1
    BY <1>1 DEF Clamp
  <2>2. /\ rows \in SUBSET S /\ IsFiniteSet(rows) /\ Cardinality(rows) \in Nat
        /\ \A i \in rows, j \in S : i < j => j \in rows
        /\ Cardinality(rows) < ScreenPage + 1 => rows = S
    BY <1>1, TopFacts
  <2>3. PageOf(S, screen, limit) =
          [ids |-> ids, next |-> IF Cardinality(rows) > ScreenPage /\ ids # {}
                                   THEN Min(ids) ELSE 0]
    BY <1>2, <2>1 DEF PageOf
  <2>. HIDE DEF rows
  <2>4. /\ ids \in SUBSET rows /\ IsFiniteSet(ids) /\ Cardinality(ids) \in Nat
        /\ \A i \in ids, j \in rows : i < j => j \in ids
        /\ Cardinality(rows) <= ScreenPage => ids = rows
        /\ Cardinality(ids) < ScreenPage => ids = rows
    BY <1>1, <2>2, TopFacts
  <2>. HIDE DEF ids
  <2>5. CASE Cardinality(rows) <= ScreenPage
    <3>1. ids = S
      BY <1>1, <2>2, <2>4, <2>5
    <3>2. QED
      BY <2>3, <3>1
  <2>6. CASE Cardinality(rows) > ScreenPage
    <3>1. ids # {}
      BY <1>1, <2>4, <2>6, FS_EmptySet
    <3>2. Min(ids) \in ids
      BY <2>2, <2>4, <3>1, MinOfPage
    <3>3. ASSUME NEW i \in S, Min(ids) <= i PROVE i \in ids
      <4>1. CASE i = Min(ids)
        BY <3>2, <4>1
      <4>2. CASE i # Min(ids)
        <5>0. Min(ids) \in rows /\ Min(ids) \in Nat /\ i \in Nat
          BY <2>2, <2>4, <3>2
        <5>1. Min(ids) < i /\ Min(ids) \in rows
          BY <3>3, <4>2, <5>0
        <5>2. i \in rows
          BY <2>2, <5>1
        <5>3. QED
          BY <2>4, <3>2, <5>1, <5>2
      <4>3. QED
        BY <4>1, <4>2
    <3>4. QED
      BY <2>3, <2>6, <3>1, <3>3
  <2>7. Cardinality(rows) <= ScreenPage \/ Cardinality(rows) > ScreenPage
    BY <1>1, <2>2
  <2>8. QED
    BY <2>5, <2>6, <2>7
<1>3. CASE ~screen
  <2>. DEFINE ids == Top(S, limit)
  <2>1. Clamp(limit) = limit /\ limit \in Nat \ {0}
    BY <1>1, <1>3 DEF Clamp
  <2>2. /\ ids \in SUBSET S /\ IsFiniteSet(ids) /\ Cardinality(ids) \in Nat
        /\ Cardinality(ids) <= limit
        /\ \A i \in ids, j \in S : i < j => j \in ids
        /\ Cardinality(ids) < limit => ids = S
    BY <2>1, TopFacts
  <2>3. PageOf(S, screen, limit) =
          [ids |-> ids, next |-> IF Cardinality(ids) = limit /\ ids # {}
                                   THEN Min(ids) ELSE 0]
    BY <1>3, <2>1 DEF PageOf
  <2>. HIDE DEF ids
  <2>4. CASE Cardinality(ids) # limit
    <3>1. ids = S
      BY <2>1, <2>2, <2>4
    <3>2. QED
      BY <2>3, <3>1
  <2>5. CASE Cardinality(ids) = limit
    <3>1. ids # {}
      BY <2>1, <2>5, FS_EmptySet
    <3>2. Min(ids) \in ids
      BY <2>2, <3>1, MinOfPage
    <3>3. ASSUME NEW i \in S, Min(ids) <= i PROVE i \in ids
      <4>1. CASE i = Min(ids)
        BY <3>2, <4>1
      <4>2. CASE i # Min(ids)
        <5>0. Min(ids) \in Nat /\ i \in Nat
          BY <2>2, <3>2
        <5>1. Min(ids) < i
          BY <3>3, <4>2, <5>0
        <5>2. QED
          BY <2>2, <3>2, <5>1
      <4>3. QED
        BY <4>1, <4>2
    <3>4. QED
      BY <2>3, <2>5, <3>1, <3>3
  <2>6. QED
    BY <2>4, <2>5
<1>4. QED
  BY <1>2, <1>3

-----------------------------------------------------------------------------
(* The traversals: what a reader has listed, and what is still before it.    *)

Pager == [state : {"closed", "open", "done"}, queue : BOOLEAN, screen : BOOLEAN,
          limit : Nat, cursor : 0..MaxId, listed : Seq(1..MaxId),
          promised : SUBSET (1..MaxId)]

PagersTyped == pager \in [Readers -> Pager]

Decreasing(s) == \A j, k \in 1..Len(s) : j < k => s[j] > s[k]

\* What is still to be listed is below what has been listed.
Ordered(p) ==
  /\ Decreasing(p.listed)
  /\ p.state = "open" =>
       p.cursor # 0 /\ \A k \in 1..Len(p.listed) : p.cursor <= p.listed[k]

\* What has been promised is listed or still to be listed, while it matches.
Covered(p) ==
  /\ p.promised \subseteq DOMAIN reports
  /\ p.state = "open" =>
       /\ ~p.screen => p.limit \in 1..MaxPage
       /\ \A i \in p.promised \cap Matching(p.queue) :
            p.cursor <= i => i \in ToSet(p.listed)
  /\ p.state = "done" =>
       p.promised \cap Matching(p.queue) \subseteq ToSet(p.listed)

PagesInv == IInv /\ PagersTyped /\ \A r \in Readers : Ordered(pager[r])
CoverInv == PagesInv /\ \A r \in Readers : Covered(pager[r])

LEMMA DecreasingConcat ==
  ASSUME NEW s \in Seq(Nat), NEW t \in Seq(Nat), Decreasing(s), Decreasing(t),
         \A j \in 1..Len(s), k \in 1..Len(t) : s[j] > t[k]
  PROVE  Decreasing(s \o t)
<1>1. SUFFICES ASSUME NEW j \in 1..Len(s \o t), NEW k \in 1..Len(s \o t), j < k
               PROVE  (s \o t)[j] > (s \o t)[k]
  BY DEF Decreasing
<1>2. Len(s) \in Nat /\ Len(t) \in Nat /\ Len(s \o t) = Len(s) + Len(t)
  OBVIOUS
<1>3. CASE k <= Len(s)
  <2>1. j \in 1..Len(s) /\ k \in 1..Len(s)
    BY <1>1, <1>2, <1>3
  <2>2. (s \o t)[j] = s[j] /\ (s \o t)[k] = s[k]
    BY <2>1
  <2>3. QED
    BY <1>1, <2>1, <2>2 DEF Decreasing
<1>4. CASE j > Len(s)
  <2>1. j - Len(s) \in 1..Len(t) /\ k - Len(s) \in 1..Len(t) /\ j - Len(s) < k - Len(s)
    BY <1>1, <1>2, <1>4
  <2>2. (s \o t)[j] = t[j - Len(s)] /\ (s \o t)[k] = t[k - Len(s)]
    BY <1>1, <1>2, <1>4
  <2>3. QED
    BY <2>1, <2>2 DEF Decreasing
<1>5. CASE j <= Len(s) /\ k > Len(s)
  <2>1. j \in 1..Len(s) /\ k - Len(s) \in 1..Len(t)
    BY <1>1, <1>2, <1>5
  <2>2. (s \o t)[j] = s[j] /\ (s \o t)[k] = t[k - Len(s)]
    BY <1>1, <1>2, <1>5
  <2>3. QED
    BY <2>1, <2>2
<1>6. QED
  BY <1>2, <1>3, <1>4, <1>5

\* Reader r has gone on from p by one page.
Continued(r, p, page) ==
  /\ pager'[r].state = IF page.next = 0 THEN "done" ELSE "open"
  /\ pager'[r].cursor = page.next
  /\ pager'[r].listed = p.listed \o Descending(page.ids)
  /\ pager'[r].queue = p.queue /\ pager'[r].screen = p.screen
  /\ pager'[r].limit = p.limit /\ pager'[r].promised = p.promised
  /\ \A s \in Readers \ {r} : pager'[s] = pager[s]

\* What a page adds to a traversal p that is about to read from S, below its
\* cursor.
LEMMA ReadStep ==
  ASSUME PagersTyped, NEW r \in Readers, NEW p \in Pager, Read(r, p),
         NEW S \in SUBSET (1..MaxId), S = Below(Matching(p.queue), p.cursor),
         NEW page, page = PageOf(S, p.screen, p.limit)
  PROVE  /\ page.ids \in SUBSET S /\ page.next \in 0..MaxId
         /\ PagersTyped'
         /\ Continued(r, p, page)
<1>2. S \in SUBSET Nat /\ IsFiniteSet(S) /\ p.screen \in BOOLEAN /\ p.limit \in Nat
  BY IdsAreFinite DEF Pager
<1>3. /\ page.ids \in SUBSET S
      /\ page.next = 0 \/ page.next \in page.ids
  BY <1>2, PageFacts
<1>4. page.next \in 0..MaxId
  BY <1>3, ReviewAssumption
<1>5. IsFiniteSet(page.ids) /\ page.ids \in SUBSET Nat
  BY <1>2, <1>3, FS_Subset
<1>6. PICK t : t = Descending(page.ids)
  OBVIOUS
<1>7. t \in Seq(page.ids)
  BY <1>5, <1>6, DescendingSorts
<1>8. t \in Seq(1..MaxId)
  <2>1. PICK ids, Ids : ids = page.ids /\ Ids = 1..MaxId
    OBVIOUS
  <2>2. ids \in SUBSET Ids /\ t \in Seq(ids)
    BY <1>3, <1>7, <2>1
  <2>3. t \in Seq(Ids)
    BY <2>2
  <2>4. QED
    BY <2>1, <2>3
<1>9. p.listed \o t \in Seq(1..MaxId)
  BY <1>8 DEF Pager
<1>10. pager' = [pager EXCEPT ![r] =
                   [p EXCEPT !.state  = IF page.next = 0 THEN "done" ELSE "open",
                             !.cursor = page.next,
                             !.listed = @ \o t]]
  BY <1>6 DEF Read
<1>11. PICK q : q = [p EXCEPT !.state  = IF page.next = 0 THEN "done" ELSE "open",
                              !.cursor = page.next,
                              !.listed = @ \o t]
  OBVIOUS
<1>12. /\ q \in Pager
       /\ q.state = (IF page.next = 0 THEN "done" ELSE "open")
       /\ q.cursor = page.next /\ q.listed = p.listed \o t
       /\ q.queue = p.queue /\ q.screen = p.screen
       /\ q.limit = p.limit /\ q.promised = p.promised
  BY <1>4, <1>9, <1>11 DEF Pager
<1>13. /\ pager' = [pager EXCEPT ![r] = q]
       /\ pager'[r] = q /\ \A s \in Readers \ {r} : pager'[s] = pager[s]
  BY <1>10, <1>11 DEF PagersTyped
<1>14. PagersTyped'
  BY <1>12, <1>13 DEF PagersTyped
<1>15. QED
  BY <1>3, <1>4, <1>6, <1>12, <1>13, <1>14 DEF Continued

LEMMA MatchingType ==
  ASSUME Types, NEW q \in BOOLEAN
  PROVE  Matching(q) \in SUBSET (1..MaxId) /\ Matching(q) \subseteq DOMAIN reports
BY DEF Types, Matching, Queue

\* Whoever reads on from p reads below what p has listed.
Ready(p) ==
  /\ Decreasing(p.listed)
  /\ p.cursor = 0 => p.listed = <<>>
  /\ \A k \in 1..Len(p.listed) : p.cursor <= p.listed[k]

\* A page continues the list downwards.
LEMMA ReadOrdered ==
  ASSUME Types, PagersTyped, NEW r \in Readers, NEW p \in Pager, Read(r, p), Ready(p)
  PROVE  PagersTyped' /\ Ordered(pager'[r])
<1>1. PICK S : S = Below(Matching(p.queue), p.cursor)
  OBVIOUS
<1>2. S \in SUBSET (1..MaxId)
  BY <1>1, MatchingType DEF Below, Pager
<1>3. PICK page : page = PageOf(S, p.screen, p.limit)
  OBVIOUS
<1>4. PICK s, t : s = p.listed /\ t = Descending(page.ids)
  OBVIOUS
<1>5. /\ page.ids \in SUBSET S
      /\ PagersTyped'
      /\ pager'[r].state = IF page.next = 0 THEN "done" ELSE "open"
      /\ pager'[r].cursor = page.next
      /\ pager'[r].listed = s \o t
  <2>1. S = Below(Matching(p.queue), p.cursor)
    BY <1>1
  <2>2. /\ page.ids \in SUBSET S
        /\ PagersTyped'
        /\ Continued(r, p, page)
    BY <1>2, <1>3, <2>1, ReadStep
  <2>3. QED
    BY <1>4, <2>2 DEF Continued
<1>6. S \in SUBSET Nat /\ IsFiniteSet(S) /\ p.screen \in BOOLEAN /\ p.limit \in Nat
  BY <1>2, IdsAreFinite DEF Pager
<1>7. page.next = 0 \/ \A i \in page.ids : page.next <= i
  BY <1>3, <1>6, PageFacts
<1>8. IsFiniteSet(page.ids) /\ page.ids \in SUBSET Nat
  BY <1>5, <1>6, FS_Subset
<1>9. t \in Seq(page.ids) /\ Decreasing(t)
  BY <1>4, <1>8, DescendingSorts DEF Decreasing
<1>10. \A k \in 1..Len(t) : t[k] \in page.ids /\ t[k] \in S
  BY <1>5, <1>9
<1>11. s \in Seq(Nat) /\ t \in Seq(Nat) /\ p.cursor \in Nat
  <2>1. s \in Seq(1..MaxId) /\ MaxId \in Nat /\ p.cursor \in 0..MaxId
    BY <1>4, ReviewAssumption DEF Pager
  <2>2. s \in Seq(Nat)
    BY <2>1
  <2>3. Len(t) \in Nat /\ t = [k \in 1..Len(t) |-> t[k]]
    BY <1>9
  <2>4. t \in Seq(Nat)
    BY <1>6, <1>10, <2>3
  <2>5. QED
    BY <2>1, <2>2, <2>4
<1>12. ASSUME NEW j \in 1..Len(s), NEW k \in 1..Len(t) PROVE s[j] > t[k]
  <2>1. p.cursor # 0
    BY <1>4, <1>12 DEF Ready
  <2>2. p.cursor <= s[j] /\ s[j] \in Nat
    BY <1>4, <1>11, <1>12 DEF Ready
  <2>3. t[k] \in Nat /\ t[k] < p.cursor
    BY <1>1, <1>6, <1>10, <2>1 DEF Below
  <2>4. QED
    BY <1>11, <2>2, <2>3
<1>13. Decreasing(s \o t)
  BY <1>4, <1>9, <1>11, <1>12, DecreasingConcat DEF Ready
<1>14. ASSUME page.next # 0, NEW k \in 1..Len(s \o t) PROVE page.next <= (s \o t)[k]
  <2>1. CASE k <= Len(s)
    <3>1. k \in 1..Len(s) /\ (s \o t)[k] = s[k]
      BY <1>11, <2>1
    <3>2. p.cursor # 0 /\ p.cursor <= s[k] /\ s[k] \in Nat
      BY <1>4, <1>11, <3>1 DEF Ready
    <3>3. page.next \in S
      BY <1>3, <1>5, <1>6, <1>14, PageFacts
    <3>4. page.next < p.cursor /\ page.next \in Nat
      BY <1>1, <1>6, <3>2, <3>3 DEF Below
    <3>5. QED
      BY <1>11, <3>1, <3>2, <3>4
  <2>2. CASE k > Len(s)
    <3>1. k - Len(s) \in 1..Len(t) /\ (s \o t)[k] = t[k - Len(s)]
      BY <1>11, <2>2
    <3>2. QED
      BY <1>7, <1>10, <1>14, <3>1
  <2>3. QED
    BY <1>11, <2>1, <2>2
<1>15. QED
  BY <1>5, <1>13, <1>14 DEF Ordered

\* What is promised and not yet listed is on the page or below its cursor.
LEMMA ReadCovered ==
  ASSUME Types, PagersTyped, NEW r \in Readers, NEW p \in Pager, Read(r, p), PagesFit,
         p.promised \subseteq DOMAIN reports,
         ~p.screen => p.limit \in 1..MaxPage,
         \A i \in p.promised \cap Matching(p.queue) :
           i \in Below(Matching(p.queue), p.cursor) \/ i \in ToSet(p.listed),
         UNCHANGED reports
  PROVE  Covered(pager[r])'
<1>1. PICK M : M = Matching(p.queue)
  OBVIOUS
<1>2. PICK S : S = Below(M, p.cursor)
  OBVIOUS
<1>3. S \in SUBSET (1..MaxId)
  BY <1>1, <1>2, MatchingType DEF Below, Pager
<1>4. PICK page : page = PageOf(S, p.screen, p.limit)
  OBVIOUS
<1>5. PICK s, t : s = p.listed /\ t = Descending(page.ids)
  OBVIOUS
<1>6. /\ page.ids \in SUBSET S
      /\ pager'[r].state = IF page.next = 0 THEN "done" ELSE "open"
      /\ pager'[r].cursor = page.next
      /\ pager'[r].listed = s \o t
      /\ pager'[r].queue = p.queue /\ pager'[r].screen = p.screen
      /\ pager'[r].limit = p.limit /\ pager'[r].promised = p.promised
  <2>1. S = Below(Matching(p.queue), p.cursor)
    BY <1>1, <1>2
  <2>2. /\ page.ids \in SUBSET S
        /\ PagersTyped'
        /\ Continued(r, p, page)
    BY <1>3, <1>4, <2>1, ReadStep
  <2>3. QED
    BY <1>5, <2>2 DEF Continued
<1>7. S \in SUBSET Nat /\ IsFiniteSet(S) /\ p.screen \in BOOLEAN /\ p.limit \in Nat
  BY <1>3, IdsAreFinite DEF Pager
<1>8. \A i \in S : page.next <= i => i \in page.ids
  BY <1>4, <1>7, PageIsWhole
<1>9. IsFiniteSet(page.ids) /\ page.ids \in SUBSET Nat
  BY <1>6, <1>7, FS_Subset
<1>10. t \in Seq(page.ids) /\ \A i \in page.ids : \E k \in 1..Len(t) : t[k] = i
  BY <1>5, <1>9, DescendingSorts
<1>11. s \in Seq(1..MaxId)
  BY <1>5 DEF Pager
<1>12. PICK all : all = s \o t
  OBVIOUS
<1>13. /\ \A k \in 1..Len(s) : s[k] \in ToSet(all)
       /\ \A k \in 1..Len(t) : t[k] \in ToSet(all)
  <2>1. /\ Len(s) \in Nat /\ Len(t) \in Nat
        /\ DOMAIN all = 1..(Len(s) + Len(t))
        /\ \A k \in 1..Len(s) : all[k] = s[k]
        /\ \A k \in 1..Len(t) : all[Len(s) + k] = t[k]
    BY <1>10, <1>11, <1>12
  <2>2. ASSUME NEW k \in 1..Len(s) PROVE s[k] \in ToSet(all)
    BY <2>1 DEF ToSet
  <2>3. ASSUME NEW k \in 1..Len(t) PROVE t[k] \in ToSet(all)
    <3>1. Len(s) + k \in DOMAIN all
      BY <2>1
    <3>2. QED
      BY <2>1, <3>1 DEF ToSet
  <2>4. QED
    BY <2>2, <2>3
<1>14. ASSUME NEW i \in p.promised \cap M, page.next <= i
       PROVE  i \in ToSet(all)
  <2>1. CASE i \in S
    BY <1>8, <1>10, <1>13, <1>14, <2>1
  <2>2. CASE i \in ToSet(s)
    <3>1. PICK k \in 1..Len(s) : i = s[k]
      BY <1>11, <2>2 DEF ToSet
    <3>2. QED
      BY <1>13, <3>1
  <2>3. QED
    BY <1>1, <1>2, <1>5, <2>1, <2>2
<1>15. page.next = 0 => \A i \in p.promised \cap M : page.next <= i
  BY <1>1, MatchingType, ReviewAssumption DEF Pager
<1>16. Matching(p.queue)' = M
  BY <1>1 DEF Matching, Queue
<1>17. QED
  BY <1>6, <1>12, <1>14, <1>15, <1>16 DEF Covered, Matching, Queue

-----------------------------------------------------------------------------
(* The steps.                                                                *)

\* A report never comes back to the queue.
LEMMA MatchingShrinks ==
  ASSUME IInv, [Next]_vars, NEW q \in BOOLEAN, NEW i \in DOMAIN reports,
         i \in Matching(q)'
  PROVE  i \in Matching(q)
<1>1. ASSUME NEW l \in Loaders, CommitInsert(l) PROVE reports'[i] = reports[i]
  BY <1>1, NewReport
<1>2. ASSUME NEW c \in Clerks, CommitOverride(c)
      PROVE  reports'[i] = reports[i] \/ reports'[i].status = "human_verified"
  BY <1>2, Decided
<1>3. CASE UNCHANGED reports
  BY <1>3 DEF Matching, Queue
<1>4. CASE reports'[i] = reports[i] \/ reports'[i].status = "human_verified"
  BY <1>4 DEF Matching, Queue
<1>5. QED
  BY <1>1, <1>2, <1>3, <1>4
     DEF Next, vars, InsertAgain, Insert, AbortInsert, LoadAnalysis, WriteAnalysis,
         AbortOverride, FirstPage, NextPage, Close

\* What a first page starts from.
LEMMA FirstPager ==
  ASSUME Types, NEW r \in Readers, FirstPage(r)
  PROVE  \E p \in Pager :
           /\ Read(r, p) /\ p.cursor = 0 /\ p.listed = <<>>
           /\ p.promised = Matching(p.queue)
           /\ ~p.screen => p.limit \in Limits
<1>1. PICK queue \in BOOLEAN, screen \in BOOLEAN, limit \in Limits :
        Read(r, [Closed EXCEPT !.queue = queue, !.screen = screen,
                               !.limit = IF screen THEN 0 ELSE limit,
                               !.promised = Matching(queue)])
  BY DEF FirstPage
<1>2. PICK p : p = [Closed EXCEPT !.queue = queue, !.screen = screen,
                                  !.limit = IF screen THEN 0 ELSE limit,
                                  !.promised = Matching(queue)]
  OBVIOUS
<1>3. Matching(queue) \in SUBSET (1..MaxId)
  BY MatchingType
<1>4. p \in Pager
  <2>1. 0 \in 0..MaxId /\ <<>> \in Seq(1..MaxId) /\ limit \in Nat
    BY ReviewAssumption
  <2>2. QED
    BY <1>2, <1>3, <2>1 DEF Pager, Closed
<1>5. /\ p.queue = queue /\ p.screen = screen /\ p.cursor = 0 /\ p.listed = <<>>
      /\ p.promised = Matching(queue)
      /\ ~screen => p.limit = limit
  BY <1>2 DEF Closed
<1>6. Read(r, p)
  BY <1>1, <1>2
<1>7. WITNESS p \in Pager
<1>8. QED
  BY <1>5, <1>6

LEMMA ClosedPager == Closed \in Pager /\ Ordered(Closed) /\ Covered(Closed)
<1>1. 0 \in 0..MaxId /\ <<>> \in Seq(1..MaxId)
  BY ReviewAssumption
<1>2. QED
  BY <1>1 DEF Closed, Pager, Ordered, Decreasing, Covered

\* A traversal is touched by its reader only.
LEMMA PagerSteps ==
  ASSUME PagersTyped, [Next]_vars, NEW r \in Readers
  PROVE  \/ pager'[r] = pager[r]
         \/ pager'[r] = Closed
         \/ FirstPage(r) /\ UNCHANGED reports
         \/ NextPage(r) /\ UNCHANGED reports
<1>1. CASE UNCHANGED pager
  BY <1>1
<1>2. ASSUME NEW s \in Readers, FirstPage(s)
      PROVE  UNCHANGED reports /\ (s # r => pager'[r] = pager[r])
  BY <1>2 DEF FirstPage, Read, PagersTyped
<1>3. ASSUME NEW s \in Readers, NextPage(s)
      PROVE  UNCHANGED reports /\ (s # r => pager'[r] = pager[r])
  BY <1>3 DEF NextPage, Read, PagersTyped
<1>4. ASSUME NEW s \in Readers, Close(s)
      PROVE  pager'[r] = pager[r] \/ pager'[r] = Closed
  BY <1>4 DEF Close, PagersTyped
<1>5. QED
  BY <1>1, <1>2, <1>3, <1>4
     DEF Next, vars, InsertAgain, Insert, CommitInsert, AbortInsert, LoadAnalysis,
         WriteAnalysis, CommitOverride, AbortOverride

LEMMA PagesInit == Init => CoverInv
<1>. SUFFICES ASSUME Init PROVE CoverInv
  OBVIOUS
<1>1. pager = [r \in Readers |-> Closed]
  BY DEF Init
<1>2. QED
  BY <1>1, InvInit, ClosedPager DEF CoverInv, PagesInv, PagersTyped

\* A step of a reader keeps its traversal in order.
LEMMA PageOrdered ==
  ASSUME PagesInv, NEW r \in Readers, FirstPage(r) \/ NextPage(r)
  PROVE  PagersTyped' /\ Ordered(pager'[r])
<1>0. Types /\ PagersTyped
  BY DEF PagesInv, IInv
<1>1. CASE FirstPage(r)
  <2>1. PICK p \in Pager : Read(r, p) /\ p.cursor = 0 /\ p.listed = <<>>
    BY <1>0, <1>1, FirstPager
  <2>2. Ready(p)
    BY <2>1 DEF Ready, Decreasing
  <2>3. QED
    BY <1>0, <2>1, <2>2, ReadOrdered
<1>2. CASE NextPage(r)
  <2>1. PICK p \in Pager : p = pager[r]
    BY <1>0 DEF PagersTyped
  <2>2. Read(r, p) /\ Ready(p)
    BY <1>2, <2>1 DEF NextPage, PagesInv, Ordered, Ready
  <2>3. QED
    BY <1>0, <2>2, ReadOrdered
<1>3. QED
  BY <1>1, <1>2

LEMMA PagesStep == PagesInv /\ [Next]_vars => PagesInv'
<1>. SUFFICES ASSUME PagesInv, [Next]_vars PROVE PagesInv'
  OBVIOUS
<1>1. PagersTyped /\ IInv'
  BY InvStep DEF PagesInv
<1>2. PagersTyped'
  <2>1. ASSUME NEW r \in Readers, FirstPage(r) \/ NextPage(r) PROVE PagersTyped'
    BY <2>1, PageOrdered
  <2>2. ASSUME NEW r \in Readers, Close(r) PROVE PagersTyped'
    BY <1>1, <2>2, ClosedPager DEF Close, PagersTyped
  <2>3. CASE UNCHANGED pager
    BY <1>1, <2>3 DEF PagersTyped
  <2>4. QED
    BY <2>1, <2>2, <2>3
       DEF Next, vars, InsertAgain, Insert, CommitInsert, AbortInsert, LoadAnalysis,
           WriteAnalysis, CommitOverride, AbortOverride
<1>3. ASSUME NEW r \in Readers PROVE Ordered(pager'[r])
  BY <1>1, PagerSteps, PageOrdered, ClosedPager DEF PagesInv
<1>4. QED
  BY <1>1, <1>2, <1>3 DEF PagesInv

\* Between the pages a promise is only dropped, never forgotten.
LEMMA CoverStep == PagesFit /\ CoverInv /\ [Next]_vars => CoverInv'
<1>. SUFFICES ASSUME PagesFit, CoverInv, [Next]_vars PROVE CoverInv'
  OBVIOUS
<1>1. PagesInv /\ PagesInv' /\ IInv /\ Types /\ PagersTyped
  BY PagesStep DEF CoverInv, PagesInv, IInv
<1>2. ASSUME NEW r \in Readers PROVE Covered(pager[r])'
  <2>0. PICK p \in Pager : p = pager[r]
    BY <1>1 DEF PagersTyped
  <2>1. CASE pager'[r] = pager[r]
    <3>1. Covered(p)
      BY <2>0 DEF CoverInv
    <3>2. p.promised \subseteq DOMAIN reports /\ p.queue \in BOOLEAN
      BY <3>1 DEF Covered, Pager
    <3>3. DOMAIN reports \subseteq DOMAIN reports'
      BY <1>1, ReportsStep DEF Evolves
    <3>4. \A i \in p.promised : i \in Matching(p.queue)' => i \in Matching(p.queue)
      BY <1>1, <3>2, MatchingShrinks
    <3>5. PICK M, N : M = Matching(p.queue) /\ N = Matching(p.queue)'
      OBVIOUS
    <3>6. N = Matching(pager[r].queue)' /\ pager'[r] = p
      BY <2>0, <2>1, <3>5 DEF Matching, Queue
    <3>7. QED
      BY <3>1, <3>2, <3>3, <3>4, <3>5, <3>6 DEF Covered
  <2>2. CASE pager'[r] = Closed
    BY <2>2 DEF Closed, Covered
  <2>3. CASE FirstPage(r) /\ UNCHANGED reports
    <3>1. PICK f \in Pager : /\ Read(r, f) /\ f.cursor = 0
                             /\ f.promised = Matching(f.queue)
                             /\ ~f.screen => f.limit \in Limits
      BY <1>1, <2>3, FirstPager
    <3>2. ~f.screen => f.limit \in 1..MaxPage
      BY <3>1 DEF PagesFit
    <3>3. /\ f.promised \subseteq DOMAIN reports
          /\ \A i \in f.promised : i \in Below(Matching(f.queue), f.cursor)
      BY <1>1, <3>1, MatchingType DEF Below, Pager
    <3>4. QED
      BY <1>1, <2>3, <3>1, <3>2, <3>3, ReadCovered
  <2>4. CASE NextPage(r) /\ UNCHANGED reports
    <3>1. Read(r, p) /\ p.state = "open" /\ Covered(p) /\ Ordered(p)
      BY <2>0, <2>4 DEF NextPage, CoverInv, PagesInv
    <3>2. ASSUME NEW i \in p.promised \cap Matching(p.queue)
          PROVE  i \in Below(Matching(p.queue), p.cursor) \/ i \in ToSet(p.listed)
      <4>1. i \in Nat /\ p.cursor \in Nat
        BY <3>2, ReviewAssumption DEF Pager
      <4>2. i < p.cursor \/ p.cursor <= i
        BY <4>1
      <4>3. QED
        BY <3>1, <3>2, <4>2 DEF Covered, Below
    <3>3. p.promised \subseteq DOMAIN reports /\ (~p.screen => p.limit \in 1..MaxPage)
      BY <3>1 DEF Covered
    <3>4. QED
      BY <1>1, <2>4, <3>1, <3>2, <3>3, ReadCovered
  <2>5. QED
    BY <1>1, <2>1, <2>2, <2>3, <2>4, PagerSteps
<1>3. QED
  BY <1>1, <1>2 DEF CoverInv

-----------------------------------------------------------------------------
(* Theorems.                                                                 *)

LEMMA PagesHold == Spec => []PagesInv
<1>1. Init => PagesInv
  BY PagesInit DEF CoverInv
<1>2. QED
  BY <1>1, PagesStep, PTL DEF Spec

AuditTyped == audit \in SUBSET [id : 1..MaxId, decision : Decision]

\* An audit entry names a report and a whole decision.
LEMMA AuditStep == IInv /\ AuditTyped /\ [Next]_vars => AuditTyped'
<1>. SUFFICES ASSUME IInv, AuditTyped, [Next]_vars PROVE AuditTyped'
  OBVIOUS
<1>1. ASSUME NEW c \in Clerks, CommitOverride(c) PROVE AuditTyped'
  <2>1. target[c] \in 1..MaxId /\ decision[c] \in Decision
    BY <1>1, Decided DEF IInv, Types
  <2>2. [id |-> target[c], decision |-> decision[c]] \in [id : 1..MaxId, decision : Decision]
    BY <2>1
  <2>3. audit' = audit \cup {[id |-> target[c], decision |-> decision[c]]}
    BY <1>1 DEF CommitOverride, Logged
  <2>4. QED
    BY <2>2, <2>3 DEF AuditTyped
<1>2. CASE UNCHANGED audit
  BY <1>2 DEF AuditTyped
<1>3. QED
  BY <1>1, <1>2
     DEF Next, vars, InsertAgain, Insert, CommitInsert, AbortInsert, LoadAnalysis,
         WriteAnalysis, AbortOverride, FirstPage, NextPage, Close

\* Rows, audit entries, overrides and traversals keep the shape of their tables
\* and requests.
THEOREM TypeCorrect == Spec => []TypeOK
<1>1. Init => AuditTyped
  BY DEF Init, AuditTyped
<1>2. Spec => []AuditTyped
  BY <1>1, AuditStep, InvariantHolds, PTL DEF Spec
<1>3. ASSUME PagesInv, AuditTyped PROVE TypeOK
  <2>1. \A r \in Readers : pager[r] \in Pager
    BY <1>3 DEF PagesInv, PagersTyped
  <2>2. \A r \in Readers :
          /\ pager[r].state \in {"closed", "open", "done"}
          /\ pager[r].cursor \in 0..MaxId
          /\ pager[r].listed \in Seq(1..MaxId)
    BY <2>1 DEF Pager
  <2>3. QED
    BY <1>3, <2>2 DEF PagesInv, IInv, Types, AuditTyped, TypeOK
<1>4. QED
  BY <1>2, <1>3, PagesHold, PTL

\* Whatever is inserted, verified or redelivered between two pages, following
\* next_cursor lists reports newest first and none twice.
THEOREM PagesInOrder == Spec => []ListedInOrder
<1>1. PagesInv => ListedInOrder
  BY DEF PagesInv, Ordered, Decreasing, ListedInOrder
<1>2. QED
  BY <1>1, PagesHold, PTL

\* For the limits that the service does not clamp, and for the screen, a complete
\* traversal has listed every report that matched throughout.
THEOREM PagesMissNothing == PagesFit /\ Spec => []NothingSkipped
<1>1. CoverInv => NothingSkipped
  BY DEF CoverInv, Covered, NothingSkipped
<1>2. SUFFICES ASSUME PagesFit PROVE Spec => []NothingSkipped
  OBVIOUS
<1>3. CoverInv /\ [Next]_vars => CoverInv'
  BY <1>2, CoverStep
<1>4. QED
  BY <1>1, <1>3, PagesInit, PTL DEF Spec
=============================================================================
