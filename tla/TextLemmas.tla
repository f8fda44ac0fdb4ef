----------------------------- MODULE TextLemmas -----------------------------
(***************************************************************************)
(* Lemmas about the operators of TextRules, for texts of every length.     *)
(*                                                                         *)
(* Induction goes through sets: what holds of 0, and of n + 1 if of n, is  *)
(* a set that holds every natural number.                                  *)
(***************************************************************************)
EXTENDS TextRules, SequenceTheorems, WellFoundedInduction, TLAPS

-----------------------------------------------------------------------------
(* Induction. *)

LEMMA Induction ==
  ASSUME NEW T, 0 \in T, \A n \in Nat : n \in T => n + 1 \in T
  PROVE  Nat \subseteq T
<1>. SUFFICES ASSUME Nat \ T # {} PROVE FALSE
  OBVIOUS
<1>. DEFINE R == OpToRel(<, Nat)
<1>1. IsWellFoundedOn(R, Nat)
  BY NatLessThanWellFounded
<1>2. \A x, y \in Nat : x < y => <<x, y>> \in R
  BY DEF OpToRel
<1>. HIDE DEF R
<1>3. PICK x \in Nat \ T : \A y \in Nat \ T : ~ (<<y, x>> \in R)
  BY <1>1, WFMin
<1>4. PICK y \in Nat : x = y + 1
  <2>1. x # 0
    OBVIOUS
  <2>2. x - 1 \in Nat /\ x = (x - 1) + 1
    BY <2>1
  <2>3. QED
    BY <2>2
<1>5. y \in T
  <2>1. y < x
    BY <1>4
  <2>2. <<y, x>> \in R
    BY <1>2, <2>1
  <2>3. QED
    BY <1>3, <2>2
<1>6. QED
  BY <1>3, <1>4, <1>5

\* The least and the greatest of a bounded set.
LEMMA MaxFacts ==
  ASSUME NEW n \in Nat, NEW A \in SUBSET (0..n), A # {}
  PROVE  Max(A) \in A /\ \A x \in A : x <= Max(A)
<1>. DEFINE T == {k \in Nat : (\E x \in A : x >= n - k) =>
                                \E m \in A : \A x \in A : m >= x}
<1>1. 0 \in T
  OBVIOUS
<1>2. ASSUME NEW k \in Nat, k \in T PROVE k + 1 \in T
  <2>1. SUFFICES ASSUME NEW y \in A, y >= n - (k + 1),
                        ~ \E x \in A : x >= n - k
                 PROVE  \E m \in A : \A x \in A : m >= x
    BY <1>2
  <2>2. \A x \in A : y >= x
    BY <2>1
  <2>3. QED
    BY <2>2
<1>. HIDE DEF T
<1>3. n \in T
  BY <1>1, <1>2, Induction
<1>4. \E x \in A : x >= n - n
  <2>1. PICK x \in A : x \in 0..n
    OBVIOUS
  <2>2. x >= n - n
    BY <2>1
  <2>3. QED
    BY <2>2
<1>5. PICK m \in A : \A x \in A : m >= x
  BY <1>3, <1>4 DEF T
<1>6. Max(A) \in A /\ \A x \in A : Max(A) >= x
  BY <1>5 DEF Max
<1>7. QED
  BY <1>6

LEMMA MinFacts ==
  ASSUME NEW A \in SUBSET Nat, A # {}
  PROVE  Min(A) \in A /\ \A x \in A : Min(A) <= x
<1>. DEFINE T == {k \in Nat : (\E x \in A : x <= k) =>
                                \E m \in A : \A x \in A : m =< x}
<1>1. 0 \in T
  OBVIOUS
<1>2. ASSUME NEW k \in Nat, k \in T PROVE k + 1 \in T
  <2>1. SUFFICES ASSUME NEW y \in A, y <= k + 1, ~ \E x \in A : x <= k
                 PROVE  \E m \in A : \A x \in A : m =< x
    BY <1>2
  <2>2. \A x \in A : y =< x
    BY <2>1
  <2>3. QED
    BY <2>2
<1>. HIDE DEF T
<1>3. PICK y \in A : y \in Nat
  OBVIOUS
<1>4. y \in T /\ y <= y
  BY <1>1, <1>2, <1>3, Induction
<1>. \E m \in A : \A x \in A : m =< x
  BY <1>3, <1>4 DEF T
<1>5. QED
  BY DEF Min

-----------------------------------------------------------------------------
(* Short sequences. *)

Joins(c, a, b, S) ==
  /\ c \in Seq(S) /\ Len(c) = Len(a) + Len(b)
  /\ \A i \in 1..(Len(a) + Len(b)) : c[i] = IF i <= Len(a) THEN a[i] ELSE b[i - Len(a)]

\* What a concatenation consists of.
LEMMA Joining ==
  ASSUME NEW S, NEW a \in Seq(S), NEW b \in Seq(S)
  PROVE  Joins(a \o b, a, b, S)
BY ConcatProperties DEF Joins

LEMMA AppendPair ==
  ASSUME NEW x, NEW y
  PROVE  Append(<<x>>, y) = <<x, y>>
<1>1. PICK S : S = {x, y}
  OBVIOUS
<1>2. PICK p : p = Append(<<x>>, y)
  OBVIOUS
<1>3. <<x>> \in Seq(S) /\ <<x, y>> \in Seq(S) /\ y \in S
  BY <1>1
<1>4. Len(<<x>>) = 1 /\ <<x>>[1] = x
  OBVIOUS
<1>5. p \in Seq(S) /\ Len(p) = 2 /\ p[1] = x /\ p[2] = y
  BY <1>2, <1>3, <1>4, AppendProperties
<1>6. Len(<<x, y>>) = 2 /\ <<x, y>>[1] = x /\ <<x, y>>[2] = y
  OBVIOUS
<1>7. \A i \in 1..2 : i = 1 \/ i = 2
  OBVIOUS
<1>8. QED
  BY <1>2, <1>3, <1>5, <1>6, <1>7, SeqEqual

LEMMA AppendThird ==
  ASSUME NEW x, NEW y, NEW z
  PROVE  Append(<<x, y>>, z) = <<x, y, z>>
<1>1. PICK S : S = {x, y, z}
  OBVIOUS
<1>2. PICK p : p = Append(<<x, y>>, z)
  OBVIOUS
<1>3. <<x, y>> \in Seq(S) /\ <<x, y, z>> \in Seq(S) /\ z \in S
  BY <1>1
<1>4. Len(<<x, y>>) = 2 /\ <<x, y>>[1] = x /\ <<x, y>>[2] = y
  OBVIOUS
<1>5. p \in Seq(S) /\ Len(p) = 3 /\ p[1] = x /\ p[2] = y /\ p[3] = z
  <2>1. /\ p \in Seq(S) /\ Len(p) = 2 + 1 /\ p[2 + 1] = z
        /\ \A i \in 1..2 : p[i] = <<x, y>>[i]
    BY <1>2, <1>3, <1>4, AppendProperties
  <2>2. QED
    BY <1>4, <2>1
<1>6. /\ Len(<<x, y, z>>) = 3 /\ <<x, y, z>>[1] = x /\ <<x, y, z>>[2] = y
      /\ <<x, y, z>>[3] = z
  OBVIOUS
<1>7. \A i \in 1..3 : i = 1 \/ i = 2 \/ i = 3
  OBVIOUS
<1>8. QED
  BY <1>2, <1>3, <1>5, <1>6, <1>7, SeqEqual

LEMMA AppendFourth ==
  ASSUME NEW x, NEW y, NEW z, NEW w
  PROVE  Append(<<x, y, z>>, w) = <<x, y, z, w>>
<1>1. PICK S : S = {x, y, z, w}
  OBVIOUS
<1>2. PICK p : p = Append(<<x, y, z>>, w)
  OBVIOUS
<1>3. <<x, y, z>> \in Seq(S) /\ <<x, y, z, w>> \in Seq(S) /\ w \in S
  BY <1>1
<1>4. /\ Len(<<x, y, z>>) = 3 /\ <<x, y, z>>[1] = x /\ <<x, y, z>>[2] = y
      /\ <<x, y, z>>[3] = z
  OBVIOUS
<1>5. p \in Seq(S) /\ Len(p) = 4 /\ p[1] = x /\ p[2] = y /\ p[3] = z /\ p[4] = w
  <2>1. /\ p \in Seq(S) /\ Len(p) = 3 + 1 /\ p[3 + 1] = w
        /\ \A i \in 1..3 : p[i] = <<x, y, z>>[i]
    BY <1>2, <1>3, <1>4, AppendProperties
  <2>2. QED
    BY <1>4, <2>1
<1>6. /\ Len(<<x, y, z, w>>) = 4 /\ <<x, y, z, w>>[1] = x /\ <<x, y, z, w>>[2] = y
      /\ <<x, y, z, w>>[3] = z /\ <<x, y, z, w>>[4] = w
  OBVIOUS
<1>7. \A i \in 1..4 : i = 1 \/ i = 2 \/ i = 3 \/ i = 4
  OBVIOUS
<1>8. PICK q : q = <<x, y, z, w>>
  OBVIOUS
<1>9. /\ q \in Seq(S) /\ Len(q) = 4
      /\ q[1] = x /\ q[2] = y /\ q[3] = z /\ q[4] = w
  BY <1>3, <1>6, <1>8
<1>10. \A i \in 1..4 : p[i] = q[i]
  BY <1>5, <1>7, <1>9
<1>11. p = q
  BY <1>5, <1>9, <1>10, SeqEqual
<1>12. QED
  BY <1>2, <1>8, <1>11

-----------------------------------------------------------------------------
(***************************************************************************)
(* FlattenSeq.  Flattens(f, s) says that f[i] is the concatenation of the  *)
(* first i sequences of s.                                                 *)
(***************************************************************************)
Flattens(f, s) ==
  f = [i \in 1..Len(s) |-> IF i = 1 THEN s[i] ELSE f[i - 1] \o s[i]]

LEMMA FlattenExists ==
  ASSUME NEW S, NEW s \in Seq(Seq(S))
  PROVE  \E f : Flattens(f, s) /\ \A i \in 1..Len(s) : f[i] \in Seq(S)
<1>. DEFINE Upto(f, n) == /\ f \in [1..n -> Seq(S)]
                          /\ \A i \in 1..n : f[i] = IF i = 1 THEN s[i]
                                                    ELSE f[i - 1] \o s[i]
            Some(n) == \E f : Upto(f, n)
            T == {n \in Nat : n <= Len(s) => Some(n)}
<1>0. Len(s) \in Nat /\ \A i \in 1..Len(s) : s[i] \in Seq(S)
  BY LenProperties
<1>1. 0 \in T
  <2>1. Upto([i \in 1..0 |-> <<>>], 0)
    OBVIOUS
  <2>2. QED
    BY <2>1
<1>2. ASSUME NEW n \in Nat, n \in T PROVE n + 1 \in T
  <2>. HIDE DEF Some
  <2>0. SUFFICES ASSUME n + 1 <= Len(s) PROVE Some(n + 1)
    OBVIOUS
  <2>1. n <= Len(s)
    BY <1>0, <2>0
  <2>2. PICK f : Upto(f, n)
    BY <1>2, <2>1 DEF Some
  <2>. HIDE DEF T
  <2>3. PICK e : e = IF n + 1 = 1 THEN s[n + 1] ELSE f[n] \o s[n + 1]
    OBVIOUS
  <2>4. n + 1 \in 1..Len(s) /\ s[n + 1] \in Seq(S)
    BY <1>0, <2>0
  <2>5. e \in Seq(S)
    <3>1. CASE n = 0
      BY <2>3, <2>4, <3>1
    <3>2. CASE n # 0
      <4>1. f[n] \in Seq(S)
        BY <2>2, <3>2
      <4>2. e = f[n] \o s[n + 1]
        <5>1. n + 1 # 1
          BY <3>2
        <5>2. QED
          BY <2>3, <5>1
      <4>3. QED
        BY <2>4, <4>1, <4>2, ConcatProperties
    <3>3. QED
      BY <3>1, <3>2
  <2>. DEFINE g == [i \in 1..(n + 1) |-> IF i = n + 1 THEN e ELSE f[i]]
  <2>6. g \in [1..(n + 1) -> Seq(S)]
    BY <2>2, <2>5
  <2>7. ASSUME NEW i \in 1..(n + 1)
        PROVE  g[i] = IF i = 1 THEN s[i] ELSE g[i - 1] \o s[i]
    <3>1. CASE i = n + 1
      BY <2>3, <3>1
    <3>2. CASE i # n + 1
      <4>1. i \in 1..n /\ g[i] = f[i]
        BY <3>2
      <4>2. i # 1 => g[i - 1] = f[i - 1]
        BY <4>1
      <4>3. QED
        BY <2>2, <4>1, <4>2
    <3>3. QED
      BY <3>1, <3>2
  <2>8. Upto(g, n + 1)
    BY <2>6, <2>7
  <2>9. QED
    BY <2>8 DEF Some
<1>. HIDE DEF T
<1>3. Len(s) \in T
  BY <1>0, <1>1, <1>2, Induction
<1>4. PICK f : Upto(f, Len(s))
  BY <1>0, <1>3 DEF T
<1>5. f = [i \in 1..Len(s) |-> IF i = 1 THEN s[i] ELSE f[i - 1] \o s[i]]
  BY <1>4
<1>6. QED
  BY <1>4, <1>5 DEF Flattens

\* There is one such f, and FlattenSeq is its last element.
LEMMA FlattenUnique ==
  ASSUME NEW S, NEW s \in Seq(Seq(S)), NEW f, Flattens(f, s),
         NEW t \in Seq(Seq(S)), NEW g, Flattens(g, t),
         NEW m \in Nat, m <= Len(s), m <= Len(t),
         \A i \in 1..m : s[i] = t[i]
  PROVE  \A i \in 1..m : f[i] = g[i]
<1>. DEFINE T == {n \in Nat : n + 1 <= m => f[n + 1] = g[n + 1]}
<1>0. Len(s) \in Nat /\ Len(t) \in Nat
  BY LenProperties
<1>1. /\ \A i \in 1..Len(s) : f[i] = IF i = 1 THEN s[i] ELSE f[i - 1] \o s[i]
      /\ \A i \in 1..Len(t) : g[i] = IF i = 1 THEN t[i] ELSE g[i - 1] \o t[i]
  BY DEF Flattens
<1>2. 0 \in T
  <2>1. SUFFICES ASSUME 1 <= m PROVE f[1] = g[1]
    OBVIOUS
  <2>2. 1 \in 1..Len(s) /\ 1 \in 1..Len(t) /\ 1 \in 1..m
    BY <1>0, <2>1
  <2>3. f[1] = s[1] /\ g[1] = t[1]
    BY <1>1, <2>2
  <2>4. QED
    BY <2>2, <2>3
<1>3. ASSUME NEW n \in Nat, n \in T PROVE n + 1 \in T
  <2>1. SUFFICES ASSUME n + 2 <= m PROVE f[n + 2] = g[n + 2]
    OBVIOUS
  <2>2. f[n + 1] = g[n + 1]
    BY <1>3, <2>1
  <2>3. n + 2 \in 1..Len(s) /\ n + 2 \in 1..Len(t) /\ n + 2 \in 1..m
        /\ n + 2 # 1 /\ (n + 2) - 1 = n + 1
    BY <1>0, <2>1
  <2>4. f[n + 2] = f[n + 1] \o s[n + 2] /\ g[n + 2] = g[n + 1] \o t[n + 2]
    BY <1>1, <2>3
  <2>5. QED
    BY <2>2, <2>3, <2>4
<1>. HIDE DEF T
<1>4. ASSUME NEW i \in 1..m PROVE f[i] = g[i]
  <2>1. PICK n \in Nat : i = n + 1
    <3>1. i - 1 \in Nat /\ i = (i - 1) + 1
      OBVIOUS
    <3>2. QED
      BY <3>1
  <2>2. n \in T
    BY <1>2, <1>3, Induction
  <2>3. n + 1 <= m
    BY <2>1
  <2>4. QED
    BY <2>1, <2>2, <2>3 DEF T
<1>5. QED
  BY <1>4

LEMMA FlattenIsLast ==
  ASSUME NEW S, NEW s \in Seq(Seq(S)), s # <<>>
  PROVE  \E f : /\ Flattens(f, s) /\ FlattenSeq(s) = f[Len(s)]
                /\ \A i \in 1..Len(s) : f[i] \in Seq(S)
<1>0. Len(s) \in Nat /\ Len(s) # 0
  BY EmptySeq
<1>1. PICK f : Flattens(f, s) /\ \A i \in 1..Len(s) : f[i] \in Seq(S)
  BY FlattenExists
<1>2. PICK g : g = CHOOSE h : Flattens(h, s)
  OBVIOUS
<1>3. Flattens(g, s)
  BY <1>1, <1>2
<1>4. FlattenSeq(s) = g[Len(s)]
  BY <1>0, <1>2 DEF FlattenSeq, Flattens
<1>5. \A i \in 1..Len(s) : g[i] = f[i]
  BY <1>0, <1>1, <1>3, FlattenUnique
<1>6. QED
  BY <1>1, <1>3, <1>4, <1>5

\* What FlattenSeq is: nothing of nothing, and one sequence more at the end.
LEMMA FlattenFacts ==
  ASSUME NEW S, NEW s \in Seq(Seq(S))
  PROVE  /\ FlattenSeq(<<>>) = <<>>
         /\ FlattenSeq(s) \in Seq(S)
         /\ \A x \in Seq(S) : FlattenSeq(Append(s, x)) = FlattenSeq(s) \o x
<1>1. FlattenSeq(<<>>) = <<>>
  BY DEF FlattenSeq
<1>2. FlattenSeq(s) \in Seq(S)
  <2>1. CASE s = <<>>
    <3>1. <<>> \in Seq(S)
      BY EmptySeq
    <3>2. QED
      BY <1>1, <2>1, <3>1
  <2>2. CASE s # <<>>
    <3>1. Len(s) \in 1..Len(s)
      BY <2>2, EmptySeq
    <3>2. QED
      BY <2>2, <3>1, FlattenIsLast
  <2>3. QED
    BY <2>1, <2>2
<1>3. ASSUME NEW x \in Seq(S) PROVE FlattenSeq(Append(s, x)) = FlattenSeq(s) \o x
  <2>. DEFINE t == Append(s, x)
  <2>1. /\ t \in Seq(Seq(S)) /\ t # <<>> /\ Len(t) = Len(s) + 1
        /\ \A i \in 1..Len(s) : t[i] = s[i]
        /\ t[Len(s) + 1] = x /\ Len(s) \in Nat
    BY AppendProperties, LenProperties
  <2>. HIDE DEF t
  <2>2. PICK g : Flattens(g, t) /\ FlattenSeq(t) = g[Len(t)]
    BY <2>1, FlattenIsLast
  <2>3. Len(t) \in 1..Len(t)
    BY <2>1
  <2>4. g[Len(t)] = IF Len(t) = 1 THEN t[Len(t)] ELSE g[Len(t) - 1] \o t[Len(t)]
    BY <2>2, <2>3 DEF Flattens
  <2>5. CASE s = <<>>
    <3>1. FlattenSeq(t) = x
      BY <2>1, <2>2, <2>4, <2>5
    <3>2. QED
      BY <1>1, <2>5, <3>1, ConcatEmptySeq DEF t
  <2>6. CASE s # <<>>
    <3>1. PICK f : Flattens(f, s) /\ FlattenSeq(s) = f[Len(s)]
      BY <2>6, FlattenIsLast
    <3>2. Len(s) \in 1..Len(s)
      BY <2>6, EmptySeq
    <3>3. f[Len(s)] = g[Len(s)]
      <4>1. PICK m \in Nat : m = Len(s)
        BY <2>1
      <4>2. m <= Len(s) /\ m <= Len(t)
        BY <2>1, <4>1
      <4>3. \A i \in 1..m : s[i] = t[i]
        BY <2>1, <4>1
      <4>4. t \in Seq(Seq(S))
        BY <2>1
      <4>5. Flattens(g, t) /\ Flattens(f, s)
        BY <2>2, <3>1
      <4>6. \A i \in 1..m : f[i] = g[i]
        BY <4>2, <4>3, <4>4, <4>5, FlattenUnique
      <4>7. QED
        BY <3>2, <4>1, <4>6
    <3>4. Len(t) # 1 /\ Len(t) - 1 = Len(s)
      BY <2>1, <3>2
    <3>5. QED
      BY <2>1, <2>2, <2>4, <3>1, <3>3, <3>4 DEF t
  <2>7. QED
    BY <2>5, <2>6
<1>4. QED
  BY <1>1, <1>2, <1>3

-----------------------------------------------------------------------------
(***************************************************************************)
(* Spans.  ends[i] is 0 or where the match that starts at i ends.          *)
(***************************************************************************)
Ends(n) == {ends \in [1..n -> 0..n] : \A i \in 1..n : ends[i] # 0 => i <= ends[i]}

Places(n) == (1..n) \X (1..n)

\* f[i] are the spans from i on.
Scans(f, ends, n) ==
  f = [i \in 1..(n + 1) |->
         IF i > n THEN <<>>
         ELSE IF ends[i] = 0 THEN f[i + 1]
         ELSE <<<<i, ends[i]>>>> \o f[ends[i] + 1]]

LEMMA ScanExists ==
  ASSUME NEW n \in Nat, NEW ends \in Ends(n)
  PROVE  \E f : Scans(f, ends, n)
<1>. DEFINE V == Seq(Places(n))
            Value(f, i) == IF i > n THEN <<>>
                           ELSE IF ends[i] = 0 THEN f[i + 1]
                           ELSE <<<<i, ends[i]>>>> \o f[ends[i] + 1]
            From(f, b) == /\ f \in [b..(n + 1) -> V]
                          /\ \A i \in b..(n + 1) : f[i] = Value(f, i)
            Some(b) == \E f : From(f, b)
            T == {m \in Nat : m <= n => Some(n + 1 - m)}
<1>0. ends \in [1..n -> 0..n] /\ \A i \in 1..n : ends[i] # 0 => i <= ends[i]
  BY DEF Ends
<1>1. 0 \in T
  <2>. DEFINE f == [i \in (n + 1)..(n + 1) |-> <<>>]
  <2>1. f \in [(n + 1)..(n + 1) -> V]
    BY EmptySeq
  <2>2. \A i \in (n + 1)..(n + 1) : f[i] = Value(f, i)
    OBVIOUS
  <2>3. Some(n + 1)
    BY <2>1, <2>2
  <2>. HIDE DEF Some
  <2>4. n + 1 - 0 = n + 1
    OBVIOUS
  <2>5. QED
    BY <2>3, <2>4
<1>2. ASSUME NEW m \in Nat, m \in T PROVE m + 1 \in T
  <2>. HIDE DEF Some
  <2>0. SUFFICES ASSUME m + 1 <= n PROVE Some(n + 1 - (m + 1))
    OBVIOUS
  <2>1. PICK b \in 1..n : b = n + 1 - (m + 1) /\ b + 1 = n + 1 - m
    BY <2>0
  <2>2. m <= n
    BY <2>0
  <2>3. PICK f : From(f, b + 1)
    BY <1>2, <2>1, <2>2 DEF Some
  <2>. HIDE DEF T
  <2>4. PICK e : e = Value(f, b)
    OBVIOUS
  <2>5. e \in V
    <3>1. ~ (b > n)
      BY <2>1
    <3>2. CASE ends[b] = 0
      <4>1. e = f[b + 1] /\ b + 1 \in (b + 1)..(n + 1)
        BY <2>1, <2>4, <3>1, <3>2
      <4>2. QED
        BY <2>3, <4>1
    <3>3. CASE ends[b] # 0
      <4>1. e = <<<<b, ends[b]>>>> \o f[ends[b] + 1]
        BY <2>4, <3>1, <3>3
      <4>2. ends[b] \in 1..n /\ ends[b] + 1 \in (b + 1)..(n + 1)
        BY <1>0, <2>1, <3>3
      <4>3. f[ends[b] + 1] \in V
        BY <2>3, <4>2
      <4>4. <<b, ends[b]>> \in Places(n)
        BY <2>1, <4>2 DEF Places
      <4>5. <<<<b, ends[b]>>>> \in V
        BY <4>4
      <4>6. QED
        BY <4>1, <4>3, <4>5, ConcatProperties
    <3>4. QED
      BY <3>2, <3>3
  <2>. DEFINE g == [i \in b..(n + 1) |-> IF i = b THEN e ELSE f[i]]
  <2>6. g \in [b..(n + 1) -> V]
    <3>1. \A i \in b..(n + 1) : i = b \/ i \in (b + 1)..(n + 1)
      BY <2>1
    <3>. HIDE DEF V, Value
    <3>2. QED
      BY <2>3, <2>5, <3>1
  <2>7. ASSUME NEW i \in b..(n + 1) PROVE g[i] = Value(g, i)
    <3>1. \A k \in (b + 1)..(n + 1) : g[k] = f[k] /\ k \in b..(n + 1)
      BY <2>1
    <3>2. i = b \/ i \in (b + 1)..(n + 1)
      BY <2>1, <2>7
    <3>3. i \in 1..(n + 1)
      BY <2>1, <2>7
    <3>4. g[i] = Value(f, i)
      <4>1. CASE i = b
        BY <2>4, <4>1
      <4>2. CASE i \in (b + 1)..(n + 1)
        BY <2>3, <3>1, <4>2
      <4>3. QED
        BY <3>2, <4>1, <4>2
    <3>5. CASE i > n
      BY <3>4, <3>5
    <3>6. CASE ~ (i > n) /\ ends[i] = 0
      <4>1. i + 1 \in (b + 1)..(n + 1)
        BY <2>1, <2>7, <3>6
      <4>2. QED
        BY <3>1, <3>4, <3>6, <4>1
    <3>7. CASE ~ (i > n) /\ ends[i] # 0
      <4>1. i \in 1..n
        BY <3>3, <3>7
      <4>2. ends[i] + 1 \in (b + 1)..(n + 1)
        BY <1>0, <2>1, <2>7, <3>7, <4>1
      <4>3. g[ends[i] + 1] = f[ends[i] + 1]
        BY <3>1, <4>2
      <4>. HIDE DEF g
      <4>4. QED
        BY <3>4, <3>7, <4>3
    <3>8. QED
      BY <3>5, <3>6, <3>7
  <2>8. From(g, b)
    BY <2>6, <2>7
  <2>9. Some(b)
    BY <2>8 DEF Some
  <2>10. QED
    BY <2>1, <2>9
<1>. HIDE DEF T
<1>3. n \in T
  BY <1>1, <1>2, Induction
<1>4. n + 1 - n = 1
  OBVIOUS
<1>5. Some(1)
  <2>. HIDE DEF Some
  <2>1. QED
    BY <1>3, <1>4 DEF T
<1>6. PICK f : From(f, 1)
  BY <1>5
<1>7. f = [i \in 1..(n + 1) |-> Value(f, i)]
  BY <1>6
<1>8. QED
  BY <1>7 DEF Scans

\* Spans that start at i or later: apart, and nothing between them is a match.
SpansFrom(spans, ends, i, n) ==
  /\ spans \in Seq(Places(n))
  /\ \A k \in 1..Len(spans) :
       /\ i <= spans[k][1] /\ spans[k][1] <= spans[k][2]
       /\ spans[k][2] = ends[spans[k][1]]
  /\ \A k, l \in 1..Len(spans) : k < l => spans[k][2] < spans[l][1]
  /\ \A x \in i..n : ends[x] # 0 =>
       \E k \in 1..Len(spans) : spans[k][1] <= x /\ x <= spans[k][2]

LEMMA SpanAhead ==
  ASSUME NEW n \in Nat, NEW ends \in Ends(n), NEW i \in 1..n, ends[i] # 0,
         NEW rest, SpansFrom(rest, ends, ends[i] + 1, n)
  PROVE  SpansFrom(<<<<i, ends[i]>>>> \o rest, ends, i, n)
<1>. DEFINE e     == ends[i]
            first == <<<<i, e>>>>
            all   == first \o rest
<1>1. e \in i..n /\ e \in 1..n
  BY DEF Ends
<1>2. <<i, e>> \in Places(n) /\ rest \in Seq(Places(n))
  BY <1>1 DEF Places, SpansFrom
<1>3. first \in Seq(Places(n)) /\ Len(first) = 1 /\ first[1] = <<i, e>>
  BY <1>2
<1>4. Len(rest) \in Nat
  BY <1>2, LenProperties
<1>. HIDE DEF first
<1>5. /\ all \in Seq(Places(n)) /\ Len(all) = 1 + Len(rest)
      /\ \A k \in 1..(1 + Len(rest)) : all[k] = IF k <= 1 THEN first[k] ELSE rest[k - 1]
  <2>1. /\ all \in Seq(Places(n)) /\ Len(all) = Len(first) + Len(rest)
        /\ \A k \in 1..(Len(first) + Len(rest)) :
             all[k] = IF k <= Len(first) THEN first[k] ELSE rest[k - Len(first)]
    BY <1>2, <1>3, ConcatProperties
  <2>. HIDE DEF all
  <2>2. QED
    BY <1>3, <2>1
<1>. HIDE DEF all
<1>6. all[1] = <<i, e>>
  BY <1>3, <1>4, <1>5
<1>7. ASSUME NEW k \in 1..Len(all), k # 1
      PROVE  k - 1 \in 1..Len(rest) /\ all[k] = rest[k - 1]
  BY <1>4, <1>5, <1>7
<1>8. \A k \in 1..Len(rest) :
        /\ e + 1 <= rest[k][1] /\ rest[k][1] <= rest[k][2]
        /\ rest[k][2] = ends[rest[k][1]]
        /\ rest[k][1] \in 1..n /\ rest[k][2] \in 1..n
  BY <1>2, ElementOfSeq DEF SpansFrom, Places
<1>9. ASSUME NEW k \in 1..Len(all)
      PROVE  /\ i <= all[k][1] /\ all[k][1] <= all[k][2]
             /\ all[k][2] = ends[all[k][1]]
  <2>1. CASE k = 1
    BY <1>1, <1>6, <2>1
  <2>2. CASE k # 1
    <3>1. PICK l \in 1..Len(rest) : all[k] = rest[l]
      BY <1>7, <2>2
    <3>2. QED
      BY <1>1, <1>8, <3>1
  <2>3. QED
    BY <2>1, <2>2
<1>10. ASSUME NEW k \in 1..Len(all), NEW l \in 1..Len(all), k < l
       PROVE  all[k][2] < all[l][1]
  <2>0. l # 1
    BY <1>4, <1>5, <1>10
  <2>1. PICK y \in 1..Len(rest) : y = l - 1 /\ all[l] = rest[y]
    BY <1>7, <2>0
  <2>2. CASE k = 1
    BY <1>1, <1>6, <1>8, <2>1, <2>2
  <2>3. CASE k # 1
    <3>1. PICK x \in 1..Len(rest) : x = k - 1 /\ all[k] = rest[x]
      BY <1>7, <2>3
    <3>2. x < y
      BY <1>4, <1>5, <1>10, <2>1, <3>1
    <3>3. QED
      BY <2>1, <3>1, <3>2 DEF SpansFrom
  <2>4. QED
    BY <2>2, <2>3
<1>11. ASSUME NEW x \in i..n, ends[x] # 0
       PROVE  \E k \in 1..Len(all) : all[k][1] <= x /\ x <= all[k][2]
  <2>1. CASE x <= e
    <3>1. 1 \in 1..Len(all)
      BY <1>4, <1>5
    <3>2. all[1][1] <= x /\ x <= all[1][2]
      BY <1>6, <1>11, <2>1
    <3>3. QED
      BY <3>1, <3>2
  <2>2. CASE ~ (x <= e)
    <3>1. x \in (e + 1)..n
      BY <1>1, <1>11, <2>2
    <3>2. PICK l \in 1..Len(rest) : rest[l][1] <= x /\ x <= rest[l][2]
      BY <1>11, <3>1 DEF SpansFrom
    <3>3. l + 1 \in 1..Len(all) /\ all[l + 1] = rest[l]
      BY <1>4, <1>5
    <3>4. QED
      BY <3>2, <3>3
  <2>3. QED
    BY <2>1, <2>2
<1>12. SpansFrom(all, ends, i, n)
  BY <1>5, <1>9, <1>10, <1>11 DEF SpansFrom
<1>13. QED
  BY <1>12 DEF all, first

\* The spans of a text: each is a match, none overlaps another, and whatever
\* matches is covered by them from its first symbol.
LEMMA SpansFacts ==
  ASSUME NEW text, Len(text) \in Nat, NEW ends \in Ends(Len(text))
  PROVE  SpansFrom(Spans(text, ends), ends, 1, Len(text))
<1>. DEFINE n == Len(text)
<1>1. PICK f : f = CHOOSE g : Scans(g, ends, n)
  OBVIOUS
<1>2. Scans(f, ends, n)
  BY <1>1, ScanExists
<1>3. Spans(text, ends) = f[1]
  BY <1>1 DEF Spans, Scans
<1>4. \A i \in 1..(n + 1) :
        f[i] = IF i > n THEN <<>>
               ELSE IF ends[i] = 0 THEN f[i + 1]
               ELSE <<<<i, ends[i]>>>> \o f[ends[i] + 1]
  BY <1>2 DEF Scans
<1>. HIDE DEF n
<1>5. n \in Nat /\ ends \in Ends(n)
  BY DEF n
<1>. DEFINE Fine(i) == SpansFrom(f[i], ends, i, n)
            T == {m \in Nat : \A i \in 1..(n + 1) : n + 1 - m <= i => Fine(i)}
<1>6. 0 \in T
  <2>1. SUFFICES ASSUME NEW i \in 1..(n + 1), n + 1 - 0 <= i PROVE Fine(i)
    OBVIOUS
  <2>2. i = n + 1
    BY <1>5, <2>1
  <2>3. f[i] = <<>>
    <3>1. n + 1 \in 1..(n + 1) /\ n + 1 > n
      BY <1>5
    <3>2. f[n + 1] = <<>>
      BY <1>4, <3>1
    <3>3. QED
      BY <2>2, <3>2
  <2>4. <<>> \in Seq(Places(n)) /\ Len(<<>>) = 0
    BY EmptySeq
  <2>5. QED
    BY <1>5, <2>2, <2>3, <2>4 DEF SpansFrom
<1>7. ASSUME NEW m \in Nat, m \in T PROVE m + 1 \in T
  <2>1. SUFFICES ASSUME NEW i \in 1..(n + 1), n + 1 - (m + 1) <= i PROVE Fine(i)
    OBVIOUS
  <2>2. \A k \in 1..(n + 1) : i < k => Fine(k)
    <3>1. SUFFICES ASSUME NEW k \in 1..(n + 1), i < k PROVE Fine(k)
      OBVIOUS
    <3>2. n + 1 - m <= k
      BY <1>5, <2>1, <3>1
    <3>. HIDE DEF Fine
    <3>3. QED
      BY <1>7, <3>2
  <2>3. CASE i = n + 1
    BY <1>6, <2>3, <1>5
  <2>4. CASE i # n + 1 /\ ends[i] = 0
    <3>1. i \in 1..n /\ i + 1 \in 1..(n + 1) /\ i < i + 1 /\ ~ (i > n)
      BY <1>5, <2>4
    <3>2. Fine(i + 1) /\ f[i] = f[i + 1]
      BY <1>4, <2>2, <2>4, <3>1
    <3>3. \A x \in i..n : x = i \/ x \in (i + 1)..n
      BY <3>1
    <3>4. ASSUME NEW k \in 1..Len(f[i + 1]) PROVE i <= f[i + 1][k][1]
      <4>1. i + 1 <= f[i + 1][k][1] /\ f[i + 1] \in Seq(Places(n))
        BY <3>2 DEF SpansFrom
      <4>2. f[i + 1][k] \in Places(n)
        BY <4>1, ElementOfSeq
      <4>3. QED
        BY <4>1, <4>2 DEF Places
    <3>5. QED
      BY <2>4, <3>2, <3>3, <3>4 DEF SpansFrom
  <2>5. CASE i # n + 1 /\ ends[i] # 0
    <3>1. i \in 1..n /\ ~ (i > n)
      BY <1>5, <2>5
    <3>2. ends[i] + 1 \in 1..(n + 1) /\ i < ends[i] + 1
      BY <1>5, <2>5, <3>1 DEF Ends
    <3>3. Fine(ends[i] + 1)
      BY <2>2, <3>2
    <3>4. f[i] = <<<<i, ends[i]>>>> \o f[ends[i] + 1]
      BY <1>4, <2>5, <3>1
    <3>5. QED
      BY <1>5, <2>5, <3>1, <3>3, <3>4, SpanAhead
  <2>6. QED
    BY <2>3, <2>4, <2>5
<1>. HIDE DEF T
<1>8. n \in T
  BY <1>5, <1>6, <1>7, Induction
<1>9. Fine(1)
  <2>1. 1 \in 1..(n + 1) /\ n + 1 - n <= 1
    BY <1>5
  <2>. HIDE DEF Fine
  <2>2. QED
    BY <1>8, <2>1 DEF T
<1>10. QED
  BY <1>3, <1>9 DEF n

-----------------------------------------------------------------------------
(* FlattenSeq of a part, of two parts, and of single symbols. *)

LEMMA FlattenPrefix ==
  ASSUME NEW S, NEW s \in Seq(Seq(S)), NEW k \in Nat, k < Len(s)
  PROVE  /\ SubSeq(s, 1, k) \in Seq(Seq(S)) /\ s[k + 1] \in Seq(S)
         /\ FlattenSeq(SubSeq(s, 1, k + 1)) = FlattenSeq(SubSeq(s, 1, k)) \o s[k + 1]
<1>0. Len(s) \in Nat /\ k + 1 \in 1..Len(s) /\ 1 \in 1..Len(s) /\ k + 1 \in 1..Len(s)
  BY LenProperties
<1>1. s[k + 1] \in Seq(S)
  BY <1>0, ElementOfSeq
<1>2. SubSeq(s, 1, k) \in Seq(Seq(S))
  <2>1. \A i \in 1..k : s[i] \in Seq(S)
    BY <1>0, ElementOfSeq
  <2>2. QED
    BY <2>1, SubSeqProperties
<1>3. SubSeq(s, 1, k + 1) = Append(SubSeq(s, 1, k), s[k + 1])
  <2>1. SubSeq(s, 1, k + 1) = SubSeq(s, 1, (k + 1) - 1) \o <<s[k + 1]>>
    BY <1>0, SubSeqRecursiveSecond
  <2>2. (k + 1) - 1 = k
    OBVIOUS
  <2>3. Append(SubSeq(s, 1, k), s[k + 1]) = SubSeq(s, 1, k) \o <<s[k + 1]>>
    BY <1>1, <1>2, AppendIsConcat
  <2>4. QED
    BY <2>1, <2>2, <2>3
<1>4. QED
  BY <1>1, <1>2, <1>3, FlattenFacts

\* A function on 1..n is a sequence of length n.
Arrays(n, S) == [1..n -> S]

LEMMA ArrayIsSeq ==
  ASSUME NEW S, NEW n \in Nat, NEW f \in Arrays(n, S)
  PROVE  f \in Seq(S) /\ Len(f) = n /\ DOMAIN f = 1..n
<1>0. f \in [1..n -> S]
  BY DEF Arrays
<1>1. f \in UNION {[1..k -> S] : k \in Nat}
  BY <1>0
<1>2. f \in Seq(S)
  BY <1>1, SeqDef
<1>3. Len(f) \in Nat /\ DOMAIN f = 1..Len(f)
  BY <1>2, LenProperties
<1>4. DOMAIN f = 1..n
  BY <1>0
<1>5. Len(f) = n
  <2>1. PICK m \in Nat : m = Len(f)
    BY <1>3
  <2>2. \A i : i \in 1..n <=> i \in 1..m
    BY <1>3, <1>4, <2>1
  <2>3. m = n
    BY <2>2
  <2>4. QED
    BY <2>1, <2>3
<1>6. QED
  BY <1>2, <1>4, <1>5

LEMMA Associative ==
  ASSUME NEW S, NEW a, NEW b, NEW c, a \in Seq(S), b \in Seq(S), c \in Seq(S)
  PROVE  (a \o b) \o c = a \o (b \o c)
BY ConcatAssociative

LEMMA FlattenConcat ==
  ASSUME NEW S, NEW s \in Seq(Seq(S)), NEW t \in Seq(Seq(S))
  PROVE  FlattenSeq(s \o t) = FlattenSeq(s) \o FlattenSeq(t)
<1>. DEFINE P(k) == FlattenSeq(s \o SubSeq(t, 1, k))
                      = FlattenSeq(s) \o FlattenSeq(SubSeq(t, 1, k))
            T == {k \in Nat : k <= Len(t) => P(k)}
<1>0. Len(t) \in Nat /\ FlattenSeq(s) \in Seq(S)
  BY LenProperties, FlattenFacts
<1>1. 0 \in T
  <2>1. SubSeq(t, 1, 0) = <<>>
    BY SubSeqEmpty
  <2>2. s \o <<>> = s /\ FlattenSeq(<<>>) = <<>> /\ FlattenSeq(s) \o <<>> = FlattenSeq(s)
    BY <1>0, ConcatEmptySeq, FlattenFacts
  <2>3. P(0)
    BY <2>1, <2>2
  <2>. HIDE DEF P
  <2>4. QED
    BY <2>3
<1>2. ASSUME NEW k \in Nat, k \in T PROVE k + 1 \in T
  <2>1. SUFFICES ASSUME k + 1 <= Len(t) PROVE P(k + 1)
    OBVIOUS
  <2>2. P(k)
    <3>. HIDE DEF P
    <3>1. k <= Len(t)
      BY <1>0, <2>1
    <3>2. QED
      BY <1>2, <3>1
  <2>. PICK a : a = SubSeq(t, 1, k)
    OBVIOUS
  <2>3. k < Len(t)
    BY <1>0, <2>1
  <2>4. /\ a \in Seq(Seq(S)) /\ t[k + 1] \in Seq(S)
        /\ FlattenSeq(SubSeq(t, 1, k + 1)) = FlattenSeq(a) \o t[k + 1]
    BY <2>3, FlattenPrefix
  <2>5. SubSeq(t, 1, k + 1) = a \o <<t[k + 1]>>
    <3>1. 1 \in 1..Len(t) /\ k + 1 \in 1..Len(t) /\ (k + 1) - 1 = k
      BY <1>0, <2>1
    <3>2. SubSeq(t, 1, k + 1) = SubSeq(t, 1, (k + 1) - 1) \o <<t[k + 1]>>
      BY <3>1, SubSeqRecursiveSecond
    <3>3. QED
      BY <3>1, <3>2
  <2>6. s \o SubSeq(t, 1, k + 1) = Append(s \o a, t[k + 1])
    <3>1. <<t[k + 1]>> \in Seq(Seq(S))
      BY <2>4
    <3>2. s \o (a \o <<t[k + 1]>>) = (s \o a) \o <<t[k + 1]>>
      <4>1. PICK b : b = <<t[k + 1]>>
        OBVIOUS
      <4>2. PICK W : W = Seq(S)
        OBVIOUS
      <4>3. b \in Seq(W) /\ a \in Seq(W) /\ s \in Seq(W)
        BY <2>4, <3>1, <4>1, <4>2
      <4>4. \A x, y, z \in Seq(W) : (x \o y) \o z = x \o (y \o z)
        BY Associative
      <4>5. (s \o a) \o b = s \o (a \o b)
        BY <4>3, <4>4
      <4>6. QED
        BY <4>1, <4>5
    <3>3. s \o a \in Seq(Seq(S))
      BY <2>4, ConcatProperties
    <3>4. (s \o a) \o <<t[k + 1]>> = Append(s \o a, t[k + 1])
      BY <2>4, <3>3, AppendIsConcat
    <3>5. QED
      BY <2>5, <3>2, <3>4
  <2>7. FlattenSeq(Append(s \o a, t[k + 1])) = FlattenSeq(s \o a) \o t[k + 1]
    <3>1. s \o a \in Seq(Seq(S))
      BY <2>4, ConcatProperties
    <3>2. QED
      BY <2>4, <3>1, FlattenFacts
  <2>8. (FlattenSeq(s) \o FlattenSeq(a)) \o t[k + 1]
          = FlattenSeq(s) \o (FlattenSeq(a) \o t[k + 1])
    <3>1. FlattenSeq(a) \in Seq(S)
      BY <2>4, FlattenFacts
    <3>2. PICK x, y, z : x = FlattenSeq(s) /\ y = FlattenSeq(a) /\ z = t[k + 1]
      OBVIOUS
    <3>3. x \in Seq(S) /\ y \in Seq(S) /\ z \in Seq(S)
      BY <1>0, <2>4, <3>1, <3>2
    <3>4. (x \o y) \o z = x \o (y \o z)
      BY <3>3, Associative
    <3>5. QED
      BY <3>2, <3>4
  <2>9. QED
    BY <2>2, <2>4, <2>6, <2>7, <2>8
<1>. HIDE DEF T, P
<1>3. Len(t) \in T
  BY <1>0, <1>1, <1>2, Induction
<1>4. P(Len(t))
  BY <1>0, <1>3 DEF T
<1>5. SubSeq(t, 1, Len(t)) = t
  BY SubSeqFull
<1>6. QED
  BY <1>4, <1>5 DEF P

\* Replacements of symbols of S by sequences of symbols of R.
Replacements(S, R) == [S -> Seq(R)]

\* What becomes of a text when every symbol s is replaced by the sequence v[s].
Spread(t, v) == FlattenSeq([i \in DOMAIN t |-> v[t[i]]])

LEMMA SpreadConcat ==
  ASSUME NEW S, NEW R, NEW v \in Replacements(S, R), NEW s \in Seq(S), NEW t \in Seq(S)
  PROVE  /\ Spread(s, v) \in Seq(R)
         /\ Spread(s \o t, v) = Spread(s, v) \o Spread(t, v)
<1>. DEFINE Im(u) == [i \in DOMAIN u |-> v[u[i]]]
<1>1. ASSUME NEW u \in Seq(S) PROVE Im(u) \in Seq(Seq(R)) /\ Len(Im(u)) = Len(u)
  <2>1. Len(u) \in Nat /\ DOMAIN u = 1..Len(u)
    BY LenProperties
  <2>2. \A i \in 1..Len(u) : v[u[i]] \in Seq(R)
    BY ElementOfSeq DEF Replacements
  <2>3. Im(u) \in Arrays(Len(u), Seq(R))
    BY <2>1, <2>2 DEF Arrays
  <2>. HIDE DEF Im
  <2>4. QED
    BY <2>1, <2>3, ArrayIsSeq
<1>2. s \o t \in Seq(S) /\ Len(s \o t) = Len(s) + Len(t)
  BY ConcatProperties
<1>3. Im(s \o t) = Im(s) \o Im(t)
  <2>1. /\ DOMAIN (s \o t) = 1..Len(s \o t) /\ DOMAIN s = 1..Len(s) /\ DOMAIN t = 1..Len(t)
        /\ Len(s) \in Nat /\ Len(t) \in Nat
    BY <1>2, LenProperties
  <2>2. /\ Im(s) \o Im(t) \in Seq(Seq(R))
        /\ Len(Im(s) \o Im(t)) = Len(Im(s)) + Len(Im(t))
        /\ \A i \in 1..(Len(Im(s)) + Len(Im(t))) :
             (Im(s) \o Im(t))[i] = IF i <= Len(Im(s)) THEN Im(s)[i]
                                   ELSE Im(t)[i - Len(Im(s))]
    <3>. HIDE DEF Im
    <3>1. QED
      BY <1>1, ConcatProperties
  <2>3. ASSUME NEW i \in 1..(Len(s) + Len(t))
        PROVE  Im(s \o t)[i] = (Im(s) \o Im(t))[i]
    <3>1. Im(s \o t)[i] = v[(s \o t)[i]]
      BY <1>2, <2>1
    <3>2. (s \o t)[i] = IF i <= Len(s) THEN s[i] ELSE t[i - Len(s)]
      BY ConcatProperties
    <3>3. (Im(s) \o Im(t))[i] = IF i <= Len(s) THEN Im(s)[i] ELSE Im(t)[i - Len(s)]
      <4>. HIDE DEF Im
      <4>1. Len(Im(s)) = Len(s) /\ Len(Im(t)) = Len(t)
        BY <1>1
      <4>2. QED
        BY <2>2, <4>1
    <3>4. CASE i <= Len(s)
      <4>1. i \in DOMAIN s
        BY <2>1, <3>4
      <4>2. Im(s)[i] = v[s[i]]
        BY <4>1
      <4>. HIDE DEF Im
      <4>3. QED
        BY <3>1, <3>2, <3>3, <3>4, <4>2
    <3>5. CASE ~ (i <= Len(s))
      <4>1. i - Len(s) \in DOMAIN t
        BY <2>1, <3>5
      <4>2. Im(t)[i - Len(s)] = v[t[i - Len(s)]]
        BY <4>1
      <4>. HIDE DEF Im
      <4>3. QED
        BY <3>1, <3>2, <3>3, <3>5, <4>2
    <3>6. QED
      BY <3>4, <3>5
  <2>. HIDE DEF Im
  <2>4. Im(s \o t) \in Seq(Seq(R)) /\ Len(Im(s \o t)) = Len(s) + Len(t)
    BY <1>1, <1>2
  <2>5. Len(Im(s) \o Im(t)) = Len(s) + Len(t)
    BY <1>1, <2>2
  <2>6. QED
    BY <2>2, <2>3, <2>4, <2>5, SeqEqual
<1>4. ASSUME NEW u PROVE Spread(u, v) = FlattenSeq(Im(u))
  BY DEF Spread
<1>. HIDE DEF Im
<1>5. FlattenSeq(Im(s) \o Im(t)) = FlattenSeq(Im(s)) \o FlattenSeq(Im(t))
  BY <1>1, FlattenConcat
<1>6. FlattenSeq(Im(s)) \in Seq(R)
  BY <1>1, FlattenFacts
<1>7. /\ Spread(s, v) = FlattenSeq(Im(s)) /\ Spread(t, v) = FlattenSeq(Im(t))
      /\ Spread(s \o t, v) = FlattenSeq(Im(s \o t))
  BY <1>4
<1>8. QED
  BY <1>3, <1>5, <1>6, <1>7

LEMMA SpreadParts ==
  ASSUME NEW S, NEW R, NEW v \in Replacements(S, R), NEW s \in Seq(S), NEW t \in Seq(S)
  PROVE  Spread(s \o t, v) = Spread(s, v) \o Spread(t, v)
BY SpreadConcat

LEMMA SpreadOne ==
  ASSUME NEW S, NEW R, NEW v \in Replacements(S, R), NEW s \in S
  PROVE  Spread(<<s>>, v) = v[s]
<1>1. [i \in DOMAIN <<s>> |-> v[<<s>>[i]]] = <<v[s]>>
  OBVIOUS
<1>2. v[s] \in Seq(R)
  BY DEF Replacements
<1>3. <<>> \in Seq(Seq(R)) /\ Append(<<>>, v[s]) = <<v[s]>>
  BY <1>2
<1>4. FlattenSeq(Append(<<>>, v[s])) = FlattenSeq(<<>>) \o v[s] /\ FlattenSeq(<<>>) = <<>>
  BY <1>2, <1>3, FlattenFacts
<1>5. <<>> \o v[s] = v[s]
  BY <1>2, ConcatEmptySeq
<1>6. QED
  BY <1>1, <1>3, <1>4, <1>5 DEF Spread

Alike(v, w, s) == v[s] = w[s]

\* Two replacements that agree on the symbols of a text.
LEMMA SpreadSame ==
  ASSUME NEW S, NEW t \in Seq(S), NEW v, NEW w, \A i \in 1..Len(t) : Alike(v, w, t[i])
  PROVE  Spread(t, v) = Spread(t, w)
<1>1. DOMAIN t = 1..Len(t)
  BY LenProperties
<1>2. [i \in DOMAIN t |-> v[t[i]]] = [i \in DOMAIN t |-> w[t[i]]]
  BY <1>1 DEF Alike
<1>3. QED
  BY <1>2 DEF Spread

LEMMA SpreadJoin ==
  \A S : \A w \in Replacements(S, S) : \A x, y \in Seq(S) :
    Spread(x \o y, w) = Spread(x, w) \o Spread(y, w)
<1>1. ASSUME NEW S, NEW w \in Replacements(S, S), NEW x \in Seq(S), NEW y \in Seq(S)
      PROVE  Spread(x \o y, w) = Spread(x, w) \o Spread(y, w)
  BY SpreadParts
<1>2. QED
  BY <1>1

Leaves(w, s) == w[s] = <<s>>

LEMMA SpreadEach ==
  ASSUME NEW S, NEW t \in Seq(S), NEW w \in Replacements(S, S), \A s \in S : Leaves(w, s)
  PROVE  Spread(t, w) = t
<1>. DEFINE T == {k \in Nat : k <= Len(t) => Spread(SubSeq(t, 1, k), w) = SubSeq(t, 1, k)}
<1>0. Len(t) \in Nat /\ \A i \in 1..Len(t) : t[i] \in S
  BY LenProperties, ElementOfSeq
<1>1. \A x, y \in Seq(S) : Spread(x \o y, w) = Spread(x, w) \o Spread(y, w)
  BY SpreadJoin
<1>2. 0 \in T
  <2>1. SubSeq(t, 1, 0) = <<>>
    BY SubSeqEmpty
  <2>2. Spread(<<>>, w) = <<>>
    <3>1. [i \in DOMAIN <<>> |-> w[<<>>[i]]] = <<>>
      OBVIOUS
    <3>2. FlattenSeq(<<>>) = <<>>
      BY DEF FlattenSeq
    <3>3. QED
      BY <3>1, <3>2 DEF Spread
  <2>3. QED
    BY <2>1, <2>2
<1>3. ASSUME NEW k \in Nat, k \in T PROVE k + 1 \in T
  <2>1. SUFFICES ASSUME k + 1 <= Len(t)
                 PROVE  Spread(SubSeq(t, 1, k + 1), w) = SubSeq(t, 1, k + 1)
    OBVIOUS
  <2>2. k <= Len(t)
    BY <1>0, <2>1
  <2>3. Spread(SubSeq(t, 1, k), w) = SubSeq(t, 1, k)
    BY <1>3, <2>2
  <2>4. 1 \in 1..Len(t) /\ k + 1 \in 1..Len(t) /\ (k + 1) - 1 = k
    BY <1>0, <2>1
  <2>5. SubSeq(t, 1, k + 1) = SubSeq(t, 1, k) \o <<t[k + 1]>>
    BY <2>4, SubSeqRecursiveSecond
  <2>6. SubSeq(t, 1, k) \in Seq(S)
    <3>1. \A i \in 1..k : t[i] \in S
      BY <1>0, <2>1
    <3>2. QED
      BY <3>1, SubSeqProperties
  <2>7. t[k + 1] \in S /\ <<t[k + 1]>> \in Seq(S) /\ w[t[k + 1]] = <<t[k + 1]>>
    BY <1>0, <2>4 DEF Leaves
  <2>8. Spread(<<t[k + 1]>>, w) = <<t[k + 1]>>
    BY <2>7, SpreadOne
  <2>9. Spread(SubSeq(t, 1, k) \o <<t[k + 1]>>, w)
          = Spread(SubSeq(t, 1, k), w) \o Spread(<<t[k + 1]>>, w)
    <3>1. PICK a, b : a = SubSeq(t, 1, k) /\ b = <<t[k + 1]>>
      OBVIOUS
    <3>2. a \in Seq(S) /\ b \in Seq(S)
      BY <2>6, <2>7, <3>1
    <3>3. QED
      BY <1>1, <3>1, <3>2
  <2>10. QED
    BY <2>3, <2>5, <2>8, <2>9
<1>. HIDE DEF T
<1>4. Len(t) \in T
  BY <1>0, <1>2, <1>3, Induction
<1>5. Spread(SubSeq(t, 1, Len(t)), w) = SubSeq(t, 1, Len(t))
  BY <1>0, <1>4 DEF T
<1>6. QED
  BY <1>5, SubSeqFull

\* A replacement that leaves the symbols of a text alone.
LEMMA SpreadNothing ==
  ASSUME NEW S, NEW t \in Seq(S), NEW v, \A i \in 1..Len(t) : Leaves(v, t[i])
  PROVE  Spread(t, v) = t
<1>1. PICK w : w = [s \in S |-> <<s>>]
  OBVIOUS
<1>2. w \in Replacements(S, S) /\ \A s \in S : Leaves(w, s)
  BY <1>1 DEF Replacements, Leaves
<1>3. Spread(t, w) = t
  BY <1>2, SpreadEach
<1>4. ASSUME NEW i \in 1..Len(t) PROVE Alike(v, w, t[i])
  <2>1. t[i] \in S
    BY ElementOfSeq
  <2>2. w[t[i]] = <<t[i]>>
    BY <1>2, <2>1 DEF Leaves
  <2>3. v[t[i]] = <<t[i]>>
    BY DEF Leaves
  <2>4. QED
    BY <2>2, <2>3 DEF Alike
<1>5. QED
  BY <1>3, <1>4, SpreadSame

-----------------------------------------------------------------------------
(* The longest match at each place, as re.sub takes it. *)

Longest(n, M) == [i \in 1..n |-> Max({j \in i..n : <<i, j>> \in M} \cup {0})]

LEMMA LongestFacts ==
  ASSUME NEW n \in Nat, NEW M, NEW e, e = Longest(n, M)
  PROVE  /\ e \in Ends(n)
         /\ \A i \in 1..n : e[i] # 0 => e[i] \in i..n /\ <<i, e[i]>> \in M
         /\ \A i \in 1..n : \A j \in i..n : <<i, j>> \in M => e[i] # 0 /\ j <= e[i]
<1>. DEFINE A(i) == {j \in i..n : <<i, j>> \in M} \cup {0}
<1>1. ASSUME NEW i \in 1..n
      PROVE  e[i] \in A(i) /\ \A j \in A(i) : j <= e[i]
  <2>1. A(i) \in SUBSET (0..n) /\ A(i) # {}
    OBVIOUS
  <2>2. e[i] = Max(A(i))
    BY DEF Longest
  <2>. HIDE DEF A
  <2>3. QED
    BY <2>1, <2>2, MaxFacts
<1>2. ASSUME NEW i \in 1..n
      PROVE  /\ e[i] \in 0..n
             /\ e[i] # 0 => e[i] \in i..n /\ <<i, e[i]>> \in M
             /\ \A j \in i..n : <<i, j>> \in M => e[i] # 0 /\ j <= e[i]
  <2>1. e[i] = 0 \/ (e[i] \in i..n /\ <<i, e[i]>> \in M)
    BY <1>1
  <2>2. \A j \in i..n : <<i, j>> \in M => j <= e[i]
    BY <1>1
  <2>3. QED
    BY <2>1, <2>2
<1>3. e \in [1..n -> 0..n]
  <2>1. DOMAIN e = 1..n /\ e = [i \in DOMAIN e |-> e[i]]
    BY DEF Longest
  <2>2. QED
    BY <1>2, <2>1
<1>4. e \in Ends(n)
  <2>1. \A i \in 1..n : e[i] # 0 => i <= e[i]
    <3>. SUFFICES ASSUME NEW i \in 1..n, e[i] # 0 PROVE i <= e[i]
      OBVIOUS
    <3>1. e[i] \in i..n
      BY <1>2
    <3>2. QED
      BY <3>1
  <2>2. QED
    BY <1>3, <2>1, Zenon DEF Ends
<1>5. QED
  BY <1>2, <1>4
-----------------------------------------------------------------------------
(* Masking. *)

Kinds == {"PERSON", "EMAIL", "PHONE"}

\* Matches have no placeholder in them.
LEMMA MatchIsPlain ==
  ASSUME NEW kind \in Kinds, NEW t, NEW i \in Int, NEW j \in Int, Is(kind, t, i, j)
  PROVE  \A x \in i..j : t[x][2] = 0
<1>1. ASSUME NEW class, NEW a, NEW b, All(t, a, b, class)
      PROVE  \A x \in a..b : t[x][2] = 0
  BY <1>1 DEF All
<1>2. CASE kind = "PERSON"
  BY <1>2 DEF Is, IsName
<1>3. CASE kind = "EMAIL"
  <2>1. IsEmail(t, i, j)
    BY <1>3 DEF Is
  <2>10. PICK at \in (i + 1)..(j - 3) : \E dot \in (at + 2)..(j - 1) :
           /\ t[at] = <<"@", 0>> /\ t[dot] = <<".", 0>>
           /\ All(t, i, at - 1, Word \cup {".", "-"})
           /\ All(t, at + 1, dot - 1, Word \cup {"-"})
           /\ All(t, dot + 1, j, Word \cup {".", "-"})
    BY <2>1, Zenon DEF IsEmail
  <2>2. PICK dot \in (at + 2)..(j - 1) :
          /\ t[at] = <<"@", 0>> /\ t[dot] = <<".", 0>>
          /\ All(t, i, at - 1, Word \cup {".", "-"})
          /\ All(t, at + 1, dot - 1, Word \cup {"-"})
          /\ All(t, dot + 1, j, Word \cup {".", "-"})
    BY <2>10
  <2>3. ASSUME NEW x \in i..j
        PROVE  \/ x \in i..(at - 1) \/ x = at \/ x \in (at + 1)..(dot - 1) \/ x = dot
               \/ x \in (dot + 1)..j
    OBVIOUS
  <2>4. t[at][2] = 0 /\ t[dot][2] = 0
    BY <2>2
  <2>5. /\ \A x \in i..(at - 1) : t[x][2] = 0
        /\ \A x \in (at + 1)..(dot - 1) : t[x][2] = 0
        /\ \A x \in (dot + 1)..j : t[x][2] = 0
    BY <1>1, <2>2
  <2>6. QED
    BY <2>3, <2>4, <2>5
<1>4. CASE kind = "PHONE"
  <2>1. IsPhone(t, i, j)
    BY <1>4 DEF Is
  <2>2. PICK a \in 1..4, b \in 1..4, c \in 3..4, d \in 0..1, e \in 0..1 :
          /\ i + a + d + b + 1 + e + c - 1 = j
          /\ d = 1 => t[i + a + 1] = <<"-", 0>>
          /\ e = 1 => t[i + a + d + b + 1] = <<"-", 0>>
          /\ All(t, i + 1, i + a + 1 - 1, Digits)
          /\ All(t, i + a + 1 + d, i + a + d + b + 1 - 1, Digits)
          /\ All(t, i + a + d + b + 1 + e, j, Digits)
    BY <2>1 DEF IsPhone
  <2>3. t[i][2] = 0
    BY <2>1 DEF IsPhone
  <2>4. /\ d = 1 => t[i + a + 1][2] = 0
        /\ e = 1 => t[i + a + d + b + 1][2] = 0
    BY <2>2
  <2>5. /\ \A x \in (i + 1)..(i + a + 1 - 1) : t[x][2] = 0
        /\ \A x \in (i + a + 1 + d)..(i + a + d + b + 1 - 1) : t[x][2] = 0
        /\ \A x \in (i + a + d + b + 1 + e)..j : t[x][2] = 0
    BY <1>1, <2>2
  <2>6. ASSUME NEW x \in i..j
        PROVE  \/ x = i \/ x \in (i + 1)..(i + a + 1 - 1)
               \/ d = 1 /\ x = i + a + 1
               \/ x \in (i + a + 1 + d)..(i + a + d + b + 1 - 1)
               \/ e = 1 /\ x = i + a + d + b + 1
               \/ x \in (i + a + d + b + 1 + e)..j
    OBVIOUS
  <2>7. QED
    BY <2>3, <2>4, <2>5, <2>6
<1>5. QED
  BY <1>2, <1>3, <1>4 DEF Kinds

\* A match is one wherever it stands.
LEMMA MatchMoves ==
  ASSUME NEW kind \in Kinds, NEW t, NEW u, NEW i \in Int, NEW j \in Int, NEW d \in Int,
         Is(kind, u, i, j), i <= j, \A x \in i..j : t[x + d] = u[x]
  PROVE  Is(kind, t, i + d, j + d)
<1>1. ASSUME NEW class, NEW a \in Int, NEW b \in Int, i <= a, b <= j, All(u, a, b, class),
             NEW a2, NEW b2, a2 = a + d, b2 = b + d
      PROVE  All(t, a2, b2, class)
  <2>1. SUFFICES ASSUME NEW x \in a2..b2 PROVE t[x] \in class \X {0}
    BY DEF All
  <2>2. x - d \in a..b /\ x - d \in i..j /\ (x - d) + d = x
    BY <1>1
  <2>3. t[x] = u[x - d]
    BY <2>2
  <2>4. u[x - d] \in class \X {0}
    BY <1>1, <2>2 DEF All
  <2>5. QED
    BY <2>3, <2>4
<1>2. CASE kind = "PERSON"
  <2>1. i = j /\ u[i] = <<"N", 0>>
    BY <1>2 DEF Is, IsName
  <2>2. i \in i..j
    OBVIOUS
  <2>3. t[i + d] = <<"N", 0>>
    BY <2>1, <2>2
  <2>4. QED
    BY <1>2, <2>1, <2>3 DEF Is, IsName
<1>3. CASE kind = "EMAIL"
  <2>1. IsEmail(u, i, j)
    BY <1>3 DEF Is
  <2>10. PICK at \in (i + 1)..(j - 3) : \E dot \in (at + 2)..(j - 1) :
           /\ u[at] = <<"@", 0>> /\ u[dot] = <<".", 0>>
           /\ All(u, i, at - 1, Word \cup {".", "-"})
           /\ All(u, at + 1, dot - 1, Word \cup {"-"})
           /\ All(u, dot + 1, j, Word \cup {".", "-"})
    BY <2>1, Zenon DEF IsEmail
  <2>2. PICK dot \in (at + 2)..(j - 1) :
          /\ u[at] = <<"@", 0>> /\ u[dot] = <<".", 0>>
          /\ All(u, i, at - 1, Word \cup {".", "-"})
          /\ All(u, at + 1, dot - 1, Word \cup {"-"})
          /\ All(u, dot + 1, j, Word \cup {".", "-"})
    BY <2>10
  <2>3. t[at + d] = <<"@", 0>> /\ t[dot + d] = <<".", 0>>
    <3>1. at \in i..j /\ dot \in i..j
      OBVIOUS
    <3>2. QED
      BY <2>2, <3>1
  <2>4. All(t, i + d, at + d - 1, Word \cup {".", "-"})
    <3>1. i \in Int /\ at - 1 \in Int /\ i <= i /\ at - 1 <= j /\ at + d - 1 = (at - 1) + d
      OBVIOUS
    <3>2. QED
      BY <1>1, <2>2, <3>1
  <2>5. All(t, at + d + 1, dot + d - 1, Word \cup {"-"})
    <3>1. /\ at + 1 \in Int /\ dot - 1 \in Int /\ i <= at + 1 /\ dot - 1 <= j
          /\ at + d + 1 = (at + 1) + d /\ dot + d - 1 = (dot - 1) + d
      OBVIOUS
    <3>2. QED
      BY <1>1, <2>2, <3>1
  <2>6. All(t, dot + d + 1, j + d, Word \cup {".", "-"})
    <3>1. dot + 1 \in Int /\ i <= dot + 1 /\ j <= j /\ dot + d + 1 = (dot + 1) + d
      OBVIOUS
    <3>2. QED
      BY <1>1, <2>2, <3>1
  <2>7. at + d \in (i + d + 1)..(j + d - 3) /\ dot + d \in (at + d + 2)..(j + d - 1)
    OBVIOUS
  <2>8. IsEmail(t, i + d, j + d)
    <3>1. PICK p, q, a, b : p = at + d /\ q = dot + d /\ a = i + d /\ b = j + d
      OBVIOUS
    <3>2. p \in (a + 1)..(b - 3) /\ q \in (p + 2)..(b - 1)
      BY <2>7, <3>1
    <3>3. /\ t[p] = <<"@", 0>> /\ t[q] = <<".", 0>>
          /\ All(t, a, p - 1, Word \cup {".", "-"})
          /\ All(t, p + 1, q - 1, Word \cup {"-"})
          /\ All(t, q + 1, b, Word \cup {".", "-"})
      BY <2>3, <2>4, <2>5, <2>6, <3>1
    <3>4. IsEmail(t, a, b)
      BY <3>2, <3>3 DEF IsEmail
    <3>5. QED
      BY <3>1, <3>4
  <2>9. QED
    BY <1>3, <2>8 DEF Is
<1>4. CASE kind = "PHONE"
  <2>1. IsPhone(u, i, j)
    BY <1>4 DEF Is
  <2>2. PICK a \in 1..4, b \in 1..4, c \in 3..4, f \in 0..1, e \in 0..1 :
          /\ i + a + f + b + 1 + e + c - 1 = j
          /\ f = 1 => u[i + a + 1] = <<"-", 0>>
          /\ e = 1 => u[i + a + f + b + 1] = <<"-", 0>>
          /\ All(u, i + 1, i + a + 1 - 1, Digits)
          /\ All(u, i + a + 1 + f, i + a + f + b + 1 - 1, Digits)
          /\ All(u, i + a + f + b + 1 + e, j, Digits)
    BY <2>1 DEF IsPhone
  <2>. PICK k \in Int : k = i + d
    OBVIOUS
  <2>3. t[k] = <<"0", 0>>
    <3>1. u[i] = <<"0", 0>>
      BY <2>1 DEF IsPhone
    <3>2. QED
      BY <3>1
  <2>4. f = 1 => t[k + a + 1] = <<"-", 0>>
    <3>1. i + a + 1 \in i..j /\ k + a + 1 = (i + a + 1) + d
      BY <2>2
    <3>2. QED
      BY <2>2, <3>1
  <2>5. e = 1 => t[k + a + f + b + 1] = <<"-", 0>>
    <3>1. i + a + f + b + 1 \in i..j /\ k + a + f + b + 1 = (i + a + f + b + 1) + d
      BY <2>2
    <3>2. QED
      BY <2>2, <3>1
  <2>6. All(t, k + 1, k + a + 1 - 1, Digits)
    <3>1. /\ i + 1 \in Int /\ i + a + 1 - 1 \in Int /\ i <= i + 1 /\ i + a + 1 - 1 <= j
          /\ k + 1 = (i + 1) + d /\ k + a + 1 - 1 = (i + a + 1 - 1) + d
      BY <2>2
    <3>2. QED
      BY <1>1, <2>2, <3>1
  <2>7. All(t, k + a + 1 + f, k + a + f + b + 1 - 1, Digits)
    <3>1. /\ i + a + 1 + f \in Int /\ i + a + f + b + 1 - 1 \in Int
          /\ i <= i + a + 1 + f /\ i + a + f + b + 1 - 1 <= j
          /\ k + a + 1 + f = (i + a + 1 + f) + d
          /\ k + a + f + b + 1 - 1 = (i + a + f + b + 1 - 1) + d
      BY <2>2
    <3>2. QED
      BY <1>1, <2>2, <3>1
  <2>8. All(t, k + a + f + b + 1 + e, j + d, Digits)
    <3>1. /\ i + a + f + b + 1 + e \in Int /\ i <= i + a + f + b + 1 + e /\ j <= j
          /\ k + a + f + b + 1 + e = (i + a + f + b + 1 + e) + d
      BY <2>2
    <3>2. QED
      BY <1>1, <2>2, <3>1
  <2>9. k + a + f + b + 1 + e + c - 1 = j + d
    BY <2>2
  <2>10. IsPhone(t, k, j + d)
    BY <2>3, <2>4, <2>5, <2>6, <2>7, <2>8, <2>9 DEF IsPhone
  <2>11. QED
    BY <1>4, <2>10 DEF Is
<1>5. QED
  BY <1>2, <1>3, <1>4 DEF Kinds

\* Spans in order that do not overlap.
Apart(spans, n) ==
  /\ spans \in Seq(Places(n))
  /\ \A k \in 1..Len(spans) : spans[k][1] <= spans[k][2]
  /\ \A k, l \in 1..Len(spans) : k < l => spans[k][2] < spans[l][1]

LEMMA MatchesFacts ==
  ASSUME NEW kind, NEW t, Len(t) \in Nat, NEW spans, spans = Matches(t, kind)
  PROVE  /\ Apart(spans, Len(t))
         /\ \A k \in 1..Len(spans) : Is(kind, t, spans[k][1], spans[k][2])
         /\ \A i \in 1..Len(t) : \A j \in i..Len(t) : Is(kind, t, i, j) =>
              \E k \in 1..Len(spans) : spans[k][1] <= i /\ i <= spans[k][2]
<1>1. PICK n \in Nat : n = Len(t)
  OBVIOUS
<1>0. PICK M : M = {p \in Places(n) : Is(kind, t, p[1], p[2])}
  OBVIOUS
<1>2. PICK e : e = [i \in 1..n |-> Max({j \in i..n : Is(kind, t, i, j)} \cup {0})]
  OBVIOUS
<1>3. e = [i \in 1..n |-> Max({j \in i..n : <<i, j>> \in M} \cup {0})]
  <2>1. ASSUME NEW i \in 1..n
        PROVE  {j \in i..n : Is(kind, t, i, j)} = {j \in i..n : <<i, j>> \in M}
    <3>1. ASSUME NEW j \in i..n PROVE Is(kind, t, i, j) <=> <<i, j>> \in M
      <4>1. j \in 1..n
        OBVIOUS
      <4>2. QED
        BY <1>0, <4>1 DEF Places
    <3>2. QED
      BY <3>1
  <2>2. QED
    BY <1>2, <2>1
<1>4. /\ e \in Ends(n)
      /\ \A i \in 1..n : e[i] # 0 => e[i] \in i..n /\ <<i, e[i]>> \in M
      /\ \A i \in 1..n : \A j \in i..n : <<i, j>> \in M => e[i] # 0 /\ j <= e[i]
  <2>1. e = Longest(n, M)
    BY <1>3 DEF Longest
  <2>2. QED
    BY <2>1, LongestFacts
<1>5. spans = Spans(t, e)
  BY <1>1, <1>2 DEF Matches
<1>6. SpansFrom(spans, e, 1, n)
  BY <1>1, <1>4, <1>5, SpansFacts
<1>7. /\ spans \in Seq(Places(n))
      /\ \A k \in 1..Len(spans) :
           /\ 1 <= spans[k][1] /\ spans[k][1] <= spans[k][2]
           /\ spans[k][2] = e[spans[k][1]]
      /\ \A k, l \in 1..Len(spans) : k < l => spans[k][2] < spans[l][1]
      /\ \A x \in 1..n : e[x] # 0 =>
           \E k \in 1..Len(spans) : spans[k][1] <= x /\ x <= spans[k][2]
  BY <1>6 DEF SpansFrom
<1>8. Apart(spans, n)
  BY <1>7 DEF Apart
<1>9. ASSUME NEW k \in 1..Len(spans) PROVE Is(kind, t, spans[k][1], spans[k][2])
  <2>1. spans[k] \in Places(n)
    BY <1>7, ElementOfSeq
  <2>2. PICK a \in 1..n, b \in 1..n : spans[k] = <<a, b>>
    BY <2>1 DEF Places
  <2>3. b = e[a] /\ a <= b
    BY <1>7, <2>2
  <2>4. <<a, b>> \in M
    BY <1>4, <2>3
  <2>5. QED
    BY <1>0, <2>2, <2>4
<1>10. ASSUME NEW i \in 1..n, NEW j \in i..n, Is(kind, t, i, j)
       PROVE  \E k \in 1..Len(spans) : spans[k][1] <= i /\ i <= spans[k][2]
  <2>1. <<i, j>> \in M
    BY <1>0, <1>10 DEF Places
  <2>2. e[i] # 0
    BY <1>4, <2>1
  <2>3. QED
    BY <1>7, <2>2
<1>11. QED
  BY <1>1, <1>8, <1>9, <1>10

LEMMA NoMatches ==
  ASSUME NEW kind, NEW t, Len(t) \in Nat
  PROVE  Matches(t, kind) = <<>> <=>
           \A i \in 1..Len(t) : \A j \in i..Len(t) : ~ Is(kind, t, i, j)
<1>1. PICK spans : spans = Matches(t, kind)
  OBVIOUS
<1>2. /\ Apart(spans, Len(t))
      /\ \A k \in 1..Len(spans) : Is(kind, t, spans[k][1], spans[k][2])
      /\ \A i \in 1..Len(t) : \A j \in i..Len(t) : Is(kind, t, i, j) =>
           \E k \in 1..Len(spans) : spans[k][1] <= i /\ i <= spans[k][2]
  BY <1>1, MatchesFacts
<1>3. spans \in Seq(Places(Len(t))) /\ \A k \in 1..Len(spans) : spans[k][1] <= spans[k][2]
  BY <1>2 DEF Apart
<1>4. CASE spans = <<>>
  <2>1. Len(spans) = 0
    BY <1>4
  <2>2. QED
    BY <1>1, <1>2, <1>4, <2>1
<1>5. CASE spans # <<>>
  <2>1. 1 \in 1..Len(spans)
    BY <1>3, <1>5, EmptySeq, LenProperties
  <2>2. spans[1] \in Places(Len(t))
    BY <1>3, <2>1, ElementOfSeq
  <2>3. PICK a \in 1..Len(t), b \in 1..Len(t) : spans[1] = <<a, b>>
    BY <2>2 DEF Places
  <2>4. b \in a..Len(t) /\ Is(kind, t, a, b)
    BY <1>2, <1>3, <2>1, <2>3
  <2>5. QED
    BY <1>1, <1>5, <2>4
<1>6. QED
  BY <1>4, <1>5

-----------------------------------------------------------------------------
(* One pass, span by span. *)

LEMMA SubSeqType ==
  ASSUME NEW D, NEW t \in Seq(D), NEW a \in 1..(Len(t) + 1), NEW b \in 0..Len(t)
  PROVE  /\ SubSeq(t, a, b) \in Seq(D)
         /\ Len(SubSeq(t, a, b)) = IF a <= b THEN b - a + 1 ELSE 0
         /\ \A i \in 1..(b - a + 1) : SubSeq(t, a, b)[i] = t[a + i - 1]
<1>1. Len(t) \in Nat
  BY LenProperties
<1>2. a \in Int /\ b \in Int
  BY <1>1
<1>3. \A i \in a..b : t[i] \in D
  BY <1>1, ElementOfSeq
<1>4. QED
  BY <1>2, <1>3, SubSeqProperties

LEMMA SubSeqJoin ==
  ASSUME NEW D, NEW t \in Seq(D), NEW a \in 1..(Len(t) + 1), NEW b \in 0..Len(t),
         NEW c \in 0..Len(t), a <= b + 1, b <= c
  PROVE  SubSeq(t, a, b) \o SubSeq(t, b + 1, c) = SubSeq(t, a, c)
<1>1. PICK x, y, z : x = SubSeq(t, a, b) /\ y = SubSeq(t, b + 1, c) /\ z = SubSeq(t, a, c)
  OBVIOUS
<1>2. Len(t) \in Nat /\ b + 1 \in 1..(Len(t) + 1)
  BY LenProperties
<1>3. /\ x \in Seq(D) /\ Len(x) = b - a + 1
      /\ \A i \in 1..(b - a + 1) : x[i] = t[a + i - 1]
  BY <1>1, <1>2, SubSeqType
<1>4. /\ y \in Seq(D) /\ Len(y) = c - b
      /\ \A i \in 1..(c - (b + 1) + 1) : y[i] = t[(b + 1) + i - 1]
  BY <1>1, <1>2, SubSeqType
<1>5. /\ z \in Seq(D) /\ Len(z) = c - a + 1
      /\ \A i \in 1..(c - a + 1) : z[i] = t[a + i - 1]
  BY <1>1, <1>2, SubSeqType
<1>6. /\ x \o y \in Seq(D) /\ Len(x \o y) = Len(x) + Len(y)
      /\ \A i \in 1..(Len(x) + Len(y)) :
           (x \o y)[i] = IF i <= Len(x) THEN x[i] ELSE y[i - Len(x)]
  BY <1>3, <1>4, ConcatProperties
<1>7. ASSUME NEW i \in 1..(c - a + 1) PROVE (x \o y)[i] = z[i]
  <2>1. CASE i <= b - a + 1
    BY <1>2, <1>3, <1>4, <1>5, <1>6, <2>1
  <2>2. CASE ~ (i <= b - a + 1)
    <3>1. i - (b - a + 1) \in 1..(c - (b + 1) + 1)
      BY <1>2, <2>2
    <3>2. (b + 1) + (i - (b - a + 1)) - 1 = a + i - 1
      BY <1>2
    <3>3. y[i - (b - a + 1)] = t[a + i - 1]
      BY <1>4, <3>1, <3>2
    <3>4. /\ i \in 1..(Len(x) + Len(y)) /\ ~ (i <= Len(x))
          /\ i - Len(x) = i - (b - a + 1)
      BY <1>2, <1>3, <1>4, <2>2
    <3>5. (x \o y)[i] = y[i - (b - a + 1)]
      BY <1>6, <3>4
    <3>6. z[i] = t[a + i - 1]
      BY <1>5
    <3>7. QED
      BY <3>3, <3>5, <3>6
  <2>3. QED
    BY <2>1, <2>2
<1>8. Len(x \o y) = c - a + 1
  BY <1>2, <1>3, <1>4, <1>6
<1>9. x \o y = z
  BY <1>2, <1>5, <1>6, <1>7, <1>8, SeqEqual
<1>10. QED
  BY <1>1, <1>9

\* Where the k-th gap ends.
Upto(spans, n, k) == IF k > Len(spans) THEN n ELSE spans[k][1] - 1

LEMMA SpansInOrder ==
  ASSUME NEW n \in Nat, NEW spans, Apart(spans, n)
  PROVE  /\ Len(spans) \in Nat
         /\ \A k \in 1..(Len(spans) + 1) : Upto(spans, n, k) \in 0..n
         /\ \A k \in 1..Len(spans) :
              /\ spans[k][1] \in 1..n /\ spans[k][2] \in 1..n
              /\ Upto(spans, n, k) = spans[k][1] - 1
              /\ spans[k][1] <= spans[k][2]
              /\ spans[k][2] <= Upto(spans, n, k + 1)
<1>1. spans \in Seq(Places(n)) /\ Len(spans) \in Nat
  BY LenProperties DEF Apart
<1>2. \A k \in 1..Len(spans) : spans[k][1] \in 1..n /\ spans[k][2] \in 1..n
  BY <1>1, ElementOfSeq DEF Places
<1>3. ASSUME NEW k \in 1..(Len(spans) + 1) PROVE Upto(spans, n, k) \in 0..n
  BY <1>1, <1>2 DEF Upto
<1>4. ASSUME NEW k \in 1..Len(spans)
      PROVE  /\ Upto(spans, n, k) = spans[k][1] - 1
             /\ spans[k][1] <= spans[k][2]
             /\ spans[k][2] <= Upto(spans, n, k + 1)
  <2>1. Upto(spans, n, k) = spans[k][1] - 1
    BY <1>1 DEF Upto
  <2>2. spans[k][1] <= spans[k][2]
    BY DEF Apart
  <2>3. CASE k = Len(spans)
    BY <1>1, <1>2, <2>1, <2>2, <2>3 DEF Upto
  <2>4. CASE k # Len(spans)
    <3>1. k + 1 \in 1..Len(spans) /\ k < k + 1
      BY <1>1, <2>4
    <3>2. spans[k][2] < spans[k + 1][1]
      BY <3>1 DEF Apart
    <3>3. Upto(spans, n, k + 1) = spans[k + 1][1] - 1
      BY <1>1, <3>1 DEF Upto
    <3>4. QED
      BY <1>2, <2>1, <2>2, <3>1, <3>2, <3>3
  <2>5. QED
    BY <2>3, <2>4
<1>5. QED
  BY <1>1, <1>2, <1>3, <1>4

\* u[k] is what a pass has made of the text up to the k-th span, which becomes x[k].
PassOver(u, t, spans, x, D) ==
  /\ \A k \in 1..(Len(spans) + 1) : u[k] \in Seq(D)
  /\ u[1] = SubSeq(t, 1, Upto(spans, Len(t), 1))
  /\ \A k \in 1..Len(spans) :
       u[k + 1] = u[k] \o (<<x[k]>> \o
                    SubSeq(t, spans[k][2] + 1, Upto(spans, Len(t), k + 1)))

Singles(x, K) == [k \in 1..K |-> <<x[k]>>]

\* The parts of a text that spans leave.
Parts(g, t, spans, n, K, D) ==
  /\ g \in Arrays(K + 1, Seq(D)) /\ Len(g) = K + 1 /\ DOMAIN g = 1..(K + 1)
  /\ g[1] = SubSeq(t, 1, Upto(spans, n, 1))
  /\ \A k \in 1..K : g[k + 1] = SubSeq(t, spans[k][2] + 1, Upto(spans, n, k + 1))
  /\ \A k \in 1..(K + 1) : g[k] \in Seq(D)

LEMMA GapsFacts ==
  ASSUME NEW D, NEW t \in Seq(D), NEW n, n = Len(t), NEW spans, Apart(spans, n),
         NEW K, K = Len(spans), NEW g, g = Gaps(t, spans)
  PROVE  Parts(g, t, spans, n, K, D)
<1>1. /\ K \in Nat
      /\ \A k \in 1..(K + 1) : Upto(spans, n, k) \in 0..n
      /\ \A k \in 1..K :
           spans[k][1] \in 1..n /\ spans[k][2] \in 1..n
  <2>1. n \in Nat
    BY LenProperties
  <2>2. QED
    BY <2>1, SpansInOrder
<1>0. n \in Nat
  BY LenProperties
<1>2. K \in Nat
  BY <1>1
<1>3. g = Gaps(t, spans)
  OBVIOUS
<1>4. /\ DOMAIN g = 1..(K + 1)
      /\ g[1] = SubSeq(t, 1, Upto(spans, n, 1))
      /\ \A k \in 1..K : g[k + 1] = SubSeq(t, spans[k][2] + 1, Upto(spans, n, k + 1))
  <2>1. g = [k \in 1..(K + 1) |-> SubSeq(t, IF k = 1 THEN 1 ELSE spans[k - 1][2] + 1,
                                            Upto(spans, n, k))]
    BY <1>0, <1>2, <1>3 DEF Gaps, Upto
  <2>2. 1 \in 1..(K + 1)
    OBVIOUS
  <2>3. ASSUME NEW k \in 1..K
        PROVE  k + 1 \in 1..(K + 1) /\ k + 1 # 1 /\ (k + 1) - 1 = k
    OBVIOUS
  <2>4. ASSUME NEW k \in 1..K
        PROVE  g[k + 1] = SubSeq(t, spans[k][2] + 1, Upto(spans, n, k + 1))
    BY <2>1, <2>3
  <2>5. QED
    BY <2>1, <2>2, <2>4
<1>5. \A k \in 1..(K + 1) : g[k] \in Seq(D)
  <2>1. g[1] \in Seq(D)
    <3>1. 1 \in 1..(Len(t) + 1) /\ Upto(spans, n, 1) \in 0..Len(t)
      BY <1>0, <1>1, <1>2
    <3>2. QED
      BY <1>4, <3>1, SubSeqType
  <2>2. ASSUME NEW k \in 1..K PROVE g[k + 1] \in Seq(D)
    <3>1. spans[k][2] + 1 \in 1..(Len(t) + 1) /\ Upto(spans, n, k + 1) \in 0..Len(t)
      BY <1>0, <1>1, <1>2
    <3>2. SubSeq(t, spans[k][2] + 1, Upto(spans, n, k + 1)) \in Seq(D)
      BY <3>1, SubSeqType
    <3>3. QED
      BY <1>4, <3>2
  <2>3. ASSUME NEW k \in 1..(K + 1) PROVE k = 1 \/ (k - 1 \in 1..K /\ k = (k - 1) + 1)
    OBVIOUS
  <2>4. QED
    BY <2>1, <2>2, <2>3
<1>6. g \in Arrays(K + 1, Seq(D))
  <2>1. g = [k \in 1..(K + 1) |-> g[k]]
    BY <1>0, <1>2, <1>3, <1>4 DEF Gaps
  <2>2. QED
    BY <1>5, <2>1 DEF Arrays
<1>7. Len(g) = K + 1
  BY <1>6, ArrayIsSeq
<1>8. QED
  BY <1>4, <1>5, <1>6, <1>7 DEF Parts

LEMMA PassExists ==
  ASSUME NEW D, NEW t \in Seq(D), NEW spans, Apart(spans, Len(t)),
         NEW x, \A k \in 1..Len(spans) : x[k] \in D,
         NEW new, new = Singles(x, Len(spans))
  PROVE  \E u : /\ PassOver(u, t, spans, x, D)
                /\ Substitute(t, spans, new) = u[Len(spans) + 1]
<1>0. PICK n \in Nat : n = Len(t)
  BY LenProperties
<1>1. /\ Len(spans) \in Nat
      /\ \A k \in 1..(Len(spans) + 1) : Upto(spans, n, k) \in 0..n
      /\ \A k \in 1..Len(spans) :
           spans[k][1] \in 1..n /\ spans[k][2] \in 1..n
  BY <1>0, SpansInOrder
<1>2. PICK K \in Nat : K = Len(spans)
  BY <1>1
<1>3. PICK g : g = Gaps(t, spans)
  OBVIOUS
<1>4. /\ g \in Arrays(K + 1, Seq(D)) /\ Len(g) = K + 1 /\ DOMAIN g = 1..(K + 1)
      /\ g[1] = SubSeq(t, 1, Upto(spans, n, 1))
      /\ \A k \in 1..K : g[k + 1] = SubSeq(t, spans[k][2] + 1, Upto(spans, n, k + 1))
      /\ \A k \in 1..(K + 1) : g[k] \in Seq(D)
  <2>1. Parts(g, t, spans, n, K, D)
    BY <1>0, <1>2, <1>3, GapsFacts
  <2>2. QED
    BY <2>1 DEF Parts
<1>5. \A k \in 1..(K + 1) : g[k] \in Seq(D)
  BY <1>4
<1>6. g \in Arrays(K + 1, Seq(D))
  BY <1>4
<1>7. Len(g) = K + 1
  BY <1>4
<1>8. PICK p : p = [k \in 1..(K + 1) |-> IF k = 1 THEN g[1] ELSE <<x[k - 1]>> \o g[k]]
  OBVIOUS
<1>9. Substitute(t, spans, new) = FlattenSeq(p)
  <2>1. \A k \in 1..(K + 1) : k # 1 => new[k - 1] = <<x[k - 1]>>
    BY <1>2 DEF Singles
  <2>2. p = [k \in 1..(K + 1) |-> IF k = 1 THEN g[1] ELSE new[k - 1] \o g[k]]
    BY <1>8, <2>1
  <2>3. Substitute(t, spans, new)
          = FlattenSeq([k \in 1..(K + 1) |-> IF k = 1 THEN g[1] ELSE new[k - 1] \o g[k]])
    BY <1>3, <1>7 DEF Substitute
  <2>4. QED
    BY <2>2, <2>3
<1>10. /\ p[1] = g[1]
       /\ \A k \in 1..K : p[k + 1] = <<x[k]>> \o g[k + 1]
  <2>1. ASSUME NEW k \in 1..K
        PROVE  k + 1 \in 1..(K + 1) /\ k + 1 # 1 /\ (k + 1) - 1 = k
    OBVIOUS
  <2>2. ASSUME NEW k \in 1..K PROVE p[k + 1] = <<x[k]>> \o g[k + 1]
    BY <1>8, <2>1
  <2>3. p[1] = g[1]
    BY <1>8
  <2>4. QED
    BY <2>2, <2>3
<1>11. \A k \in 1..(K + 1) : p[k] \in Seq(D)
  <2>1. ASSUME NEW k \in 1..K PROVE p[k + 1] \in Seq(D)
    <3>1. <<x[k]>> \in Seq(D) /\ g[k + 1] \in Seq(D)
      BY <1>2, <1>5
    <3>2. QED
      BY <1>10, <3>1, ConcatProperties
  <2>2. p[1] \in Seq(D)
    BY <1>5, <1>10
  <2>3. ASSUME NEW k \in 1..(K + 1) PROVE k = 1 \/ (k - 1 \in 1..K /\ k = (k - 1) + 1)
    OBVIOUS
  <2>4. QED
    BY <2>1, <2>2, <2>3
<1>12. p \in Arrays(K + 1, Seq(D))
  <2>1. p = [k \in 1..(K + 1) |-> p[k]]
    BY <1>8
  <2>2. QED
    BY <1>11, <2>1 DEF Arrays
<1>13. p \in Seq(Seq(D)) /\ Len(p) = K + 1
  BY <1>12, ArrayIsSeq
<1>14. PICK u : u = [k \in 1..(K + 1) |-> FlattenSeq(SubSeq(p, 1, k))]
  OBVIOUS
<1>15. ASSUME NEW k \in 0..K
       PROVE  /\ SubSeq(p, 1, k) \in Seq(Seq(D))
              /\ FlattenSeq(SubSeq(p, 1, k + 1)) = FlattenSeq(SubSeq(p, 1, k)) \o p[k + 1]
  <2>1. k \in Nat /\ k < Len(p)
    BY <1>13
  <2>2. QED
    BY <1>13, <2>1, FlattenPrefix
<1>16. \A k \in 1..(K + 1) : u[k] \in Seq(D)
  <2>1. ASSUME NEW k \in 1..(K + 1) PROVE FlattenSeq(SubSeq(p, 1, k)) \in Seq(D)
    <3>1. \A i \in 1..k : p[i] \in Seq(D)
      BY <1>11
    <3>2. SubSeq(p, 1, k) \in Seq(Seq(D))
      BY <3>1, SubSeqProperties
    <3>3. QED
      BY <3>2, FlattenFacts
  <2>2. QED
    BY <1>14, <2>1
<1>17. u[1] = g[1]
  <2>1. SubSeq(p, 1, 0) = <<>> /\ FlattenSeq(<<>>) = <<>>
    BY SubSeqEmpty DEF FlattenSeq
  <2>2. 0 \in 0..K /\ 0 + 1 = 1
    OBVIOUS
  <2>3. FlattenSeq(SubSeq(p, 1, 1)) = <<>> \o p[1]
    BY <1>15, <2>1, <2>2
  <2>4. <<>> \o p[1] = p[1]
    BY <1>11, ConcatEmptySeq
  <2>5. QED
    BY <1>10, <1>14, <2>3, <2>4
<1>18. ASSUME NEW k \in 1..K PROVE u[k + 1] = u[k] \o (<<x[k]>> \o g[k + 1])
  <2>1. k \in 0..K /\ k \in 1..(K + 1) /\ k + 1 \in 1..(K + 1)
    OBVIOUS
  <2>2. QED
    BY <1>10, <1>14, <1>15, <2>1
<1>19. PassOver(u, t, spans, x, D)
  BY <1>0, <1>2, <1>4, <1>16, <1>17, <1>18 DEF PassOver
<1>20. u[Len(spans) + 1] = FlattenSeq(p)
  <2>1. K + 1 \in 1..(K + 1)
    OBVIOUS
  <2>2. SubSeq(p, 1, K + 1) = p
    BY <1>13, SubSeqFull
  <2>3. QED
    BY <1>2, <1>14, <2>1, <2>2
<1>21. QED
  BY <1>9, <1>19, <1>20

\* A run of u without placeholders stands in t outside the spans, and ends there
\* at h or before.
Clear(u, t, h, spans) ==
  \A i, j \in 1..Len(u) :
    i <= j /\ (\A y \in i..j : u[y][2] = 0) =>
      \E d \in Int :
        /\ i + d >= 1 /\ j + d <= h
        /\ \A y \in i..j : t[y + d] = u[y]
        /\ \A k \in 1..Len(spans) : spans[k][2] < i + d \/ j + d < spans[k][1]

LEMMA GapIsClear ==
  ASSUME NEW n \in Nat, NEW spans, Apart(spans, n), NEW k \in 0..Len(spans),
         NEW i \in Int, NEW j \in Int,
         k # 0 => spans[k][2] < i, j <= Upto(spans, n, k + 1)
  PROVE  \A l \in 1..Len(spans) : spans[l][2] < i \/ j < spans[l][1]
<1>. SUFFICES ASSUME NEW l \in 1..Len(spans)
              PROVE  spans[l][2] < i \/ j < spans[l][1]
  OBVIOUS
<1>1. /\ Len(spans) \in Nat
      /\ \A m \in 1..Len(spans) :
           /\ spans[m][1] \in 1..n /\ spans[m][2] \in 1..n
           /\ Upto(spans, n, m) = spans[m][1] - 1
           /\ spans[m][1] <= spans[m][2]
  BY SpansInOrder
<1>2. \A m, o \in 1..Len(spans) : m < o => spans[m][2] < spans[o][1]
  BY DEF Apart
<1>3. CASE l < k
  <2>1. k \in 1..Len(spans) /\ k # 0
    BY <1>1, <1>3
  <2>2. spans[l][2] < spans[k][1] /\ spans[k][1] <= spans[k][2]
    BY <1>1, <1>2, <1>3, <2>1
  <2>3. QED
    BY <1>1, <2>1, <2>2
<1>4. CASE l = k
  BY <1>1, <1>4
<1>5. CASE l > k
  <2>1. k + 1 \in 1..Len(spans)
    BY <1>1, <1>5
  <2>2. j < spans[k + 1][1]
    BY <1>1, <2>1
  <2>3. CASE l = k + 1
    BY <2>2, <2>3
  <2>4. CASE l # k + 1
    <3>1. k + 1 < l
      BY <1>1, <1>5, <2>4
    <3>2. spans[k + 1][2] < spans[l][1] /\ spans[k + 1][1] <= spans[k + 1][2]
      BY <1>1, <1>2, <2>1, <3>1
    <3>3. /\ j \in Int /\ spans[k + 1][1] \in Int /\ spans[k + 1][2] \in Int
          /\ spans[l][1] \in Int
      BY <1>1, <2>1
    <3>4. QED
      BY <2>2, <3>2, <3>3
  <2>5. QED
    BY <2>3, <2>4
<1>6. QED
  BY <1>1, <1>3, <1>4, <1>5

LEMMA ClearStarts ==
  ASSUME NEW D, NEW t \in Seq(D), NEW spans, Apart(spans, Len(t)),
         NEW h, h = Upto(spans, Len(t), 1)
  PROVE  Clear(SubSeq(t, 1, h), t, h, spans)
<1>0. Len(t) \in Nat
  BY LenProperties
<1>1. h \in 0..Len(t)
  <2>1. Len(spans) \in Nat
    BY <1>0, SpansInOrder
  <2>2. 1 \in 1..(Len(spans) + 1)
    BY <2>1
  <2>3. QED
    BY <1>0, <2>2, SpansInOrder
<1>2. PICK a : a = SubSeq(t, 1, h)
  OBVIOUS
<1>3. 1 \in 1..(Len(t) + 1) /\ (1 <= h => h - 1 + 1 = h) /\ (~ (1 <= h) => h = 0)
  BY <1>0, <1>1
<1>4. Len(a) = h /\ \A i \in 1..(h - 1 + 1) : a[i] = t[1 + i - 1]
  BY <1>1, <1>2, <1>3, SubSeqType
<1>5. ASSUME NEW i \in 1..Len(a), NEW j \in 1..Len(a), i <= j
      PROVE  /\ i + 0 >= 1 /\ j + 0 <= h
             /\ \A y \in i..j : t[y + 0] = a[y]
             /\ \A k \in 1..Len(spans) : spans[k][2] < i + 0 \/ j + 0 < spans[k][1]
  <2>1. i + 0 >= 1 /\ j + 0 <= h
    BY <1>1, <1>4
  <2>2. ASSUME NEW y \in i..j PROVE t[y + 0] = a[y]
    <3>1. y \in 1..(h - 1 + 1) /\ 1 + y - 1 = y /\ y + 0 = y
      BY <1>1, <1>4, <1>5
    <3>2. QED
      BY <1>4, <3>1
  <2>3. \A k \in 1..Len(spans) : spans[k][2] < i \/ j < spans[k][1]
    <3>1. 0 \in 0..Len(spans) /\ 0 + 1 = 1 /\ i \in Int /\ j \in Int /\ j <= h
      BY <1>0, <1>1, <1>4, SpansInOrder
    <3>2. QED
      BY <1>0, <3>1, GapIsClear
  <2>4. i + 0 = i /\ j + 0 = j
    BY <1>1, <1>4
  <2>5. QED
    BY <2>1, <2>2, <2>3, <2>4
<1>6. 0 \in Int
  OBVIOUS
<1>7. Clear(a, t, h, spans)
  BY <1>5, <1>6 DEF Clear
<1>8. QED
  BY <1>2, <1>7

\* c is at a..b what t is d places further.
Moved(c, t, a, b, d) == \A z \in a..b : c[z] = t[z + d]

LEMMA RunMoves ==
  \A p, q, lo, h, a, b, d, i, j \in Int :
    /\ a <= i /\ a = p + 2 /\ d = lo - p - 2 => i + d >= lo
    /\ j <= b /\ b = p + q + 1 /\ q = h - lo + 1 /\ d = lo - p - 2 => j + d <= h
OBVIOUS

\* No span is between lo and h.
Free(spans, lo, h) ==
  \A i, j \in Int : i >= lo /\ j <= h =>
    \A l \in 1..Len(spans) : spans[l][2] < i \/ j < spans[l][1]

IsMark(y) == y[2] # 0

LEMMA ClearJoin ==
  ASSUME NEW D, NEW t \in Seq(D), NEW spans, NEW a \in Seq(D), NEW y \in D, IsMark(y),
         NEW L \in Int, NEW H \in Int, NEW f \in Int,
         L \in 1..(Len(t) + 1), H \in 0..Len(t), L <= H + 1, f <= H,
         Clear(a, t, f, spans), Free(spans, L, H)
  PROVE  Clear(a \o (<<y>> \o SubSeq(t, L, H)), t, H, spans)
<1>11. PICK p \in Nat : p = Len(a)
  BY LenProperties
<1>12. PICK q \in Nat : q = H - L + 1
  OBVIOUS
<1>13. L \in Int /\ H \in Int /\ L >= 1
  OBVIOUS
<1>2. PICK g : g = SubSeq(t, L, H)
  OBVIOUS
<1>3. /\ g \in Seq(D) /\ Len(g) = H - L + 1
      /\ \A i \in 1..(H - L + 1) : g[i] = t[L + i - 1]
  <2>2. /\ g \in Seq(D) /\ Len(g) = IF L <= H THEN H - L + 1 ELSE 0
        /\ \A i \in 1..(H - L + 1) : g[i] = t[L + i - 1]
    BY <1>2, SubSeqType
  <2>3. QED
    BY <2>2
<1>4. PICK b : b = <<y>> \o g
  OBVIOUS
<1>5. /\ b \in Seq(D) /\ Len(b) = q + 1 /\ b[1] = y
      /\ \A i \in 2..(q + 1) : b[i] = g[i - 1]
  <2>1. PICK o : o = <<y>>
    OBVIOUS
  <2>2. o \in Seq(D) /\ Len(o) = 1 /\ o[1] = y
    BY <2>1
  <2>3. /\ b \in Seq(D) /\ Len(b) = Len(o) + Len(g)
        /\ \A i \in 1..(Len(o) + Len(g)) : b[i] = IF i <= Len(o) THEN o[i] ELSE g[i - Len(o)]
    <3>1. Joins(b, o, g, D)
      BY <1>3, <1>4, <2>1, <2>2, Joining
    <3>2. QED
      BY <3>1 DEF Joins
  <2>4. /\ b \in Seq(D) /\ Len(b) = 1 + q
        /\ \A i \in 1..(1 + q) : b[i] = IF i <= 1 THEN o[i] ELSE g[i - 1]
    BY <1>3, <1>12, <2>2, <2>3
  <2>5. QED
    BY <2>2, <2>4
<1>6. PICK c : c = a \o b
  OBVIOUS
<1>7. /\ Len(c) = p + q + 1
      /\ \A i \in 1..p : c[i] = a[i]
      /\ c[p + 1] = y
      /\ \A i \in (p + 2)..(p + q + 1) : c[i] = t[i + (L - p - 2)]
  <2>1. /\ Len(c) = p + (q + 1)
        /\ \A i \in 1..(p + (q + 1)) : c[i] = IF i <= p THEN a[i] ELSE b[i - p]
    <3>1. /\ Len(c) = Len(a) + Len(b)
          /\ \A i \in 1..(Len(a) + Len(b)) :
               c[i] = IF i <= Len(a) THEN a[i] ELSE b[i - Len(a)]
      BY <1>5, <1>6, ConcatProperties
    <3>2. QED
      BY <1>5, <1>11, <3>1
  <2>2. \A i \in 1..p : c[i] = a[i]
    BY <2>1
  <2>3. c[p + 1] = y
    <3>1. p + 1 \in 1..(p + (q + 1)) /\ ~ (p + 1 <= p) /\ (p + 1) - p = 1
      OBVIOUS
    <3>2. c[p + 1] = b[(p + 1) - p]
      BY <2>1, <3>1
    <3>3. QED
      BY <1>5, <3>1, <3>2
  <2>4. ASSUME NEW i \in (p + 2)..(p + q + 1) PROVE c[i] = t[i + (L - p - 2)]
    <3>1. /\ i \in 1..(p + (q + 1)) /\ ~ (i <= p)
          /\ i - p \in 2..(q + 1)
          /\ (i - p) - 1 \in 1..q
          /\ L + ((i - p) - 1) - 1 = i + (L - p - 2)
      BY <1>13
    <3>2. c[i] = b[i - p]
      BY <2>1, <3>1
    <3>3. b[i - p] = g[(i - p) - 1]
      BY <1>5, <3>1
    <3>4. g[(i - p) - 1] = t[L + ((i - p) - 1) - 1]
      BY <1>3, <1>12, <3>1
    <3>5. QED
      BY <3>1, <3>2, <3>3, <3>4
  <2>5. QED
    BY <2>1, <2>2, <2>3, <2>4
<1>8. ASSUME NEW i \in 1..Len(c), NEW j \in 1..Len(c), i <= j,
             \A z \in i..j : c[z][2] = 0
      PROVE  \E d \in Int :
               /\ i + d >= 1 /\ j + d <= H
               /\ \A z \in i..j : t[z + d] = c[z]
               /\ \A l \in 1..Len(spans) : spans[l][2] < i + d \/ j + d < spans[l][1]
  <2>1. ~ (p + 1 \in i..j)
    BY <1>7, <1>8 DEF IsMark
  <2>2. CASE j <= p
    <3>1. i \in 1..p /\ j \in 1..p /\ p = Len(a)
      BY <1>7, <1>8, <1>11, <2>2
    <3>2. \A z \in i..j : c[z] = a[z]
      BY <1>7, <3>1
    <3>3. \A z \in i..j : a[z][2] = 0
      BY <1>8, <3>2
    <3>4. PICK d \in Int :
            /\ i + d >= 1 /\ j + d <= f
            /\ \A z \in i..j : t[z + d] = a[z]
            /\ \A l \in 1..Len(spans) : spans[l][2] < i + d \/ j + d < spans[l][1]
      BY <1>8, <3>1, <3>3 DEF Clear
    <3>5. j + d <= H
      <4>1. i + d \in Int /\ j + d \in Int /\ j + d <= f
        BY <1>7, <3>4
      <4>2. QED
        BY <4>1
    <3>6. \A z \in i..j : t[z + d] = c[z]
      BY <3>2, <3>4
    <3>7. QED
      BY <3>4, <3>5, <3>6
  <2>3. CASE i >= p + 2
    <3>1. PICK b1 \in Int, b2 \in Int, d \in Int : b1 = p + 2 /\ b2 = p + q + 1 /\ d = L - p - 2
      OBVIOUS
    <3>3. i \in Int /\ j \in Int /\ b1 <= i /\ j <= b2
      BY <1>7, <2>3, <3>1
    <3>2. /\ i + d >= L /\ i + d >= 1 /\ j + d <= H /\ i + d \in Int /\ j + d \in Int
          /\ \A z \in i..j : t[z + d] = c[z]
      <4>1. Moved(c, t, b1, b2, d)
        BY <1>7, <3>1 DEF Moved
      <4>2. QED
        <5>1. ASSUME NEW z \in i..j PROVE t[z + d] = c[z]
          <6>1. z \in b1..b2
            BY <3>3
          <6>2. QED
            BY <4>1, <6>1 DEF Moved
        <5>2. i + d \in Int /\ j + d \in Int
          BY <3>3
        <5>3. i + d >= L
          BY <3>1, <3>3, RunMoves
        <5>5. j + d <= H
          BY <1>12, <3>1, <3>3, RunMoves
        <5>6. i + d >= 1
          BY <1>13, <3>3, <5>3
        <5>7. QED
          BY <5>1, <5>2, <5>3, <5>5, <5>6
    <3>4. \A l \in 1..Len(spans) : spans[l][2] < i + d \/ j + d < spans[l][1]
      BY <3>2 DEF Free
    <3>5. QED
      BY <3>2, <3>4
  <2>4. j <= p \/ i >= p + 2
    <3>1. i \in Int /\ j \in Int
      BY <1>7
    <3>2. QED
      BY <1>8, <2>1, <3>1
  <2>5. QED
    BY <2>2, <2>3, <2>4
<1>9. Clear(c, t, H, spans)
  BY <1>8, Zenon DEF Clear
<1>10. QED
  BY <1>2, <1>4, <1>6, <1>9

LEMMA ClearGoesOn ==
  ASSUME NEW D, NEW t \in Seq(D), NEW spans, Apart(spans, Len(t)),
         NEW k \in 1..Len(spans), NEW a \in Seq(D), NEW y \in D, IsMark(y),
         Clear(a, t, Upto(spans, Len(t), k), spans)
  PROVE  Clear(a \o (<<y>> \o SubSeq(t, spans[k][2] + 1, Upto(spans, Len(t), k + 1))),
               t, Upto(spans, Len(t), k + 1), spans)
<1>0. Len(t) \in Nat /\ Len(spans) \in Nat
  BY LenProperties, SpansInOrder
<1>1. \A m \in 1..(Len(spans) + 1) : Upto(spans, Len(t), m) \in 0..Len(t)
  BY <1>0, SpansInOrder
<1>2. /\ spans[k][1] \in 1..Len(t) /\ spans[k][2] \in 1..Len(t)
      /\ Upto(spans, Len(t), k) = spans[k][1] - 1
      /\ spans[k][1] <= spans[k][2]
      /\ spans[k][2] <= Upto(spans, Len(t), k + 1)
  BY <1>0, SpansInOrder
<1>3. PICK L, H, f : /\ L = spans[k][2] + 1 /\ H = Upto(spans, Len(t), k + 1)
                     /\ f = Upto(spans, Len(t), k)
  OBVIOUS
<1>4. /\ L \in Int /\ H \in Int /\ f \in Int
      /\ L \in 1..(Len(t) + 1) /\ H \in 0..Len(t) /\ L <= H + 1 /\ f <= H
  <2>1. k + 1 \in 1..(Len(spans) + 1) /\ k \in 1..(Len(spans) + 1)
    BY <1>0
  <2>2. H \in 0..Len(t) /\ f \in 0..Len(t)
    BY <1>1, <1>3, <2>1
  <2>3. f = spans[k][1] - 1 /\ spans[k][2] <= H
    BY <1>2, <1>3
  <2>4. PICK m, o : m = spans[k][1] /\ o = spans[k][2]
    OBVIOUS
  <2>5. m \in 1..Len(t) /\ o \in 1..Len(t) /\ m <= o /\ L = o + 1 /\ f = m - 1 /\ o <= H
    BY <1>2, <1>3, <2>3, <2>4
  <2>6. QED
    BY <1>0, <2>2, <2>5
<1>5. Free(spans, L, H)
  <2>1. SUFFICES ASSUME NEW i \in Int, NEW j \in Int, i >= L, j <= H
                 PROVE  \A l \in 1..Len(spans) : spans[l][2] < i \/ j < spans[l][1]
    BY DEF Free
  <2>2. k \in 0..Len(spans) /\ spans[k][2] < i
    BY <1>0, <1>2, <1>3, <2>1
  <2>3. QED
    BY <1>0, <1>3, <2>1, <2>2, GapIsClear
<1>6. Clear(a, t, f, spans)
  BY <1>3
<1>7. Clear(a \o (<<y>> \o SubSeq(t, L, H)), t, H, spans)
  BY <1>4, <1>5, <1>6, ClearJoin
<1>8. QED
  BY <1>3, <1>7

LEMMA PassClears ==
  ASSUME NEW D, NEW t \in Seq(D), NEW spans, Apart(spans, Len(t)),
         NEW x, \A k \in 1..Len(spans) : x[k] \in D /\ IsMark(x[k]),
         NEW u, PassOver(u, t, spans, x, D)
  PROVE  Clear(u[Len(spans) + 1], t, Len(t), spans)
<1>0. Len(t) \in Nat /\ Len(spans) \in Nat
  BY LenProperties, SpansInOrder
<1>. DEFINE P(k) == Clear(u[k + 1], t, Upto(spans, Len(t), k + 1), spans)
            T == {k \in Nat : k <= Len(spans) => P(k)}
<1>1. 0 \in T
  <2>1. u[0 + 1] = SubSeq(t, 1, Upto(spans, Len(t), 1)) /\ 0 + 1 = 1
    BY DEF PassOver
  <2>2. P(0)
    BY <2>1, ClearStarts
  <2>. HIDE DEF P
  <2>3. QED
    BY <2>2
<1>2. ASSUME NEW k \in Nat, k \in T PROVE k + 1 \in T
  <2>1. SUFFICES ASSUME k + 1 <= Len(spans) PROVE P(k + 1)
    OBVIOUS
  <2>2. P(k)
    <3>. HIDE DEF P
    <3>1. k <= Len(spans)
      BY <1>0, <2>1
    <3>2. QED
      BY <1>2, <3>1
  <2>3. PICK m \in 1..Len(spans) : m = k + 1
    BY <1>0, <2>1
  <2>4. m \in 1..(Len(spans) + 1)
    BY <1>0
  <2>5. /\ u[m] \in Seq(D)
        /\ u[m + 1] = u[m] \o (<<x[m]>> \o
             SubSeq(t, spans[m][2] + 1, Upto(spans, Len(t), m + 1)))
    BY <2>4 DEF PassOver
  <2>6. Clear(u[m], t, Upto(spans, Len(t), m), spans)
    BY <2>2, <2>3
  <2>7. x[m] \in D /\ IsMark(x[m])
    OBVIOUS
  <2>8. Clear(u[m] \o (<<x[m]>> \o SubSeq(t, spans[m][2] + 1, Upto(spans, Len(t), m + 1))),
              t, Upto(spans, Len(t), m + 1), spans)
    BY <2>5, <2>6, <2>7, ClearGoesOn
  <2>9. QED
    BY <2>3, <2>5, <2>8
<1>. HIDE DEF P, T
<1>3. Len(spans) \in T
  BY <1>0, <1>1, <1>2, Induction
<1>4. P(Len(spans))
  BY <1>0, <1>3 DEF T
<1>5. Upto(spans, Len(t), Len(spans) + 1) = Len(t)
  BY <1>0 DEF Upto
<1>6. QED
  BY <1>4, <1>5 DEF P

\* v gives back what the spans were, and w leaves the spans alone.
GivesBack(v, w, t, spans, x) ==
  /\ \A k \in 1..Len(spans) : v[x[k]] = SubSeq(t, spans[k][1], spans[k][2])
  /\ \A i \in 1..Len(t) : Alike(v, w, t[i])
  /\ \A k \in 1..Len(spans) : \A i \in spans[k][1]..spans[k][2] : Leaves(w, t[i])

LEMMA PartSpreadsAlike ==
  ASSUME NEW D, NEW t \in Seq(D), NEW v, NEW w, \A i \in 1..Len(t) : Alike(v, w, t[i]),
         NEW a \in 1..(Len(t) + 1), NEW b \in 0..Len(t)
  PROVE  Spread(SubSeq(t, a, b), v) = Spread(SubSeq(t, a, b), w)
<1>0. Len(t) \in Nat
  BY LenProperties
<1>1. PICK s : s = SubSeq(t, a, b)
  OBVIOUS
<1>2. /\ s \in Seq(D) /\ Len(s) = IF a <= b THEN b - a + 1 ELSE 0
      /\ \A i \in 1..(b - a + 1) : s[i] = t[a + i - 1]
  BY <1>1, SubSeqType
<1>3. ASSUME NEW i \in 1..Len(s) PROVE Alike(v, w, s[i])
  <2>1. i \in 1..(b - a + 1) /\ a + i - 1 \in 1..Len(t)
    BY <1>0, <1>2
  <2>2. QED
    BY <1>2, <2>1
<1>4. Spread(s, v) = Spread(s, w)
  BY <1>2, <1>3, SpreadSame
<1>5. QED
  BY <1>1, <1>4

LEMMA PartIsLeft ==
  ASSUME NEW D, NEW t \in Seq(D), NEW w, NEW a \in 1..Len(t), NEW b \in a..Len(t),
         \A i \in a..b : Leaves(w, t[i])
  PROVE  Spread(SubSeq(t, a, b), w) = SubSeq(t, a, b)
<1>0. Len(t) \in Nat /\ a \in 1..(Len(t) + 1) /\ b \in 0..Len(t)
  BY LenProperties
<1>1. PICK s : s = SubSeq(t, a, b)
  OBVIOUS
<1>2. /\ s \in Seq(D) /\ Len(s) = IF a <= b THEN b - a + 1 ELSE 0
      /\ \A i \in 1..(b - a + 1) : s[i] = t[a + i - 1]
  BY <1>0, <1>1, SubSeqType
<1>3. ASSUME NEW i \in 1..Len(s) PROVE Leaves(w, s[i])
  <2>1. i \in 1..(b - a + 1) /\ a + i - 1 \in a..b
    BY <1>0, <1>2
  <2>2. QED
    BY <1>2, <2>1
<1>4. Spread(s, w) = s
  BY <1>2, <1>3, SpreadNothing
<1>5. QED
  BY <1>1, <1>4

LEMMA PassRestores ==
  ASSUME NEW D, NEW t \in Seq(D), NEW spans, Apart(spans, Len(t)),
         NEW x, \A k \in 1..Len(spans) : x[k] \in D,
         NEW u, PassOver(u, t, spans, x, D),
         NEW v \in Replacements(D, D), NEW w \in Replacements(D, D),
         GivesBack(v, w, t, spans, x)
  PROVE  Spread(u[Len(spans) + 1], v) = Spread(t, w)
<1>0. Len(t) \in Nat /\ Len(spans) \in Nat
  BY LenProperties, SpansInOrder
<1>. DEFINE P(k) == Spread(u[k + 1], v) = Spread(SubSeq(t, 1, Upto(spans, Len(t), k + 1)), w)
            T == {k \in Nat : k <= Len(spans) => P(k)}
<1>3. \A m \in 1..(Len(spans) + 1) : Upto(spans, Len(t), m) \in 0..Len(t)
  BY <1>0, SpansInOrder
<1>4. \A i \in 1..Len(t) : Alike(v, w, t[i])
  BY DEF GivesBack
<1>1. 0 \in T
  <2>1. u[0 + 1] = SubSeq(t, 1, Upto(spans, Len(t), 1)) /\ 0 + 1 = 1
    BY DEF PassOver
  <2>2. Upto(spans, Len(t), 1) \in 0..Len(t) /\ 1 \in 1..(Len(t) + 1)
    BY <1>0, <1>3
  <2>3. P(0)
    BY <1>4, <2>1, <2>2, PartSpreadsAlike
  <2>. HIDE DEF P
  <2>4. QED
    BY <2>3
<1>2. ASSUME NEW k \in Nat, k \in T PROVE k + 1 \in T
  <2>1. SUFFICES ASSUME k + 1 <= Len(spans) PROVE P(k + 1)
    OBVIOUS
  <2>2. P(k)
    <3>. HIDE DEF P
    <3>1. k <= Len(spans)
      BY <1>0, <2>1
    <3>2. QED
      BY <1>2, <3>1
  <2>3. PICK m \in 1..Len(spans) : m = k + 1
    BY <1>0, <2>1
  <2>4. m \in 1..(Len(spans) + 1) /\ m + 1 \in 1..(Len(spans) + 1)
    BY <1>0
  <2>5. PICK o, p, h, f, y : /\ o = spans[m][1] /\ p = spans[m][2]
                             /\ h = Upto(spans, Len(t), m + 1)
                             /\ f = Upto(spans, Len(t), m) /\ y = x[m]
    OBVIOUS
  <2>6. o \in 1..Len(t) /\ p \in 1..Len(t) /\ o <= p /\ f = o - 1 /\ p <= h
    BY <1>0, <2>5, SpansInOrder
  <2>7. h \in 0..Len(t) /\ f \in 0..Len(t)
    BY <1>3, <2>4, <2>5
  <2>8. PICK a, g, s0, s1 : /\ a = u[m] /\ g = SubSeq(t, p + 1, h)
                            /\ s0 = SubSeq(t, 1, f) /\ s1 = SubSeq(t, o, p)
    OBVIOUS
  <2>9. p + 1 \in 1..(Len(t) + 1) /\ 1 \in 1..(Len(t) + 1) /\ o \in 1..(Len(t) + 1)
        /\ p \in 0..Len(t) /\ p \in o..Len(t)
    BY <1>0, <2>6
  <2>10. a \in Seq(D) /\ g \in Seq(D) /\ s0 \in Seq(D) /\ s1 \in Seq(D) /\ y \in D
    <3>1. a \in Seq(D)
      BY <2>4, <2>8 DEF PassOver
    <3>2. y \in D
      BY <2>5
    <3>3. QED
      BY <2>6, <2>7, <2>8, <2>9, <3>1, <3>2, SubSeqType
  <2>11. u[m + 1] = a \o (<<y>> \o g)
    BY <2>5, <2>8 DEF PassOver
  <2>12. Spread(a, v) = Spread(s0, w)
    BY <2>2, <2>3, <2>5, <2>8
  <2>13. Spread(g, v) = Spread(g, w)
    BY <1>4, <2>7, <2>8, <2>9, PartSpreadsAlike
  <2>14. Spread(s1, w) = s1
    <3>1. \A i \in o..p : Leaves(w, t[i])
      BY <2>5 DEF GivesBack
    <3>2. QED
      BY <2>6, <2>8, <2>9, <3>1, PartIsLeft
  <2>15. v[y] = s1
    BY <2>5, <2>8 DEF GivesBack
  <2>16. Spread(<<y>>, v) = s1
    BY <2>10, <2>15, SpreadOne
  <2>17. Spread(a \o (<<y>> \o g), v) = Spread(a, v) \o (s1 \o Spread(g, v))
    <3>1. PICK z : z = <<y>>
      OBVIOUS
    <3>2. z \in Seq(D)
      BY <2>10, <3>1
    <3>3. z \o g \in Seq(D)
      BY <2>10, <3>2, ConcatProperties
    <3>4. Spread(a \o (z \o g), v) = Spread(a, v) \o Spread(z \o g, v)
      BY <2>10, <3>3, SpreadJoin
    <3>5. Spread(z \o g, v) = Spread(z, v) \o Spread(g, v)
      BY <2>10, <3>2, SpreadJoin
    <3>6. QED
      BY <2>16, <3>1, <3>4, <3>5
  <2>18. SubSeq(t, 1, h) = s0 \o (s1 \o g)
    <3>1. o <= p + 1 /\ p <= h /\ o \in 1..(Len(t) + 1)
      BY <1>0, <2>6
    <3>2. s1 \o g = SubSeq(t, o, h)
      BY <2>7, <2>8, <2>9, <3>1, SubSeqJoin
    <3>3. 1 <= f + 1 /\ f <= h /\ f + 1 = o
      BY <1>0, <2>6, <2>7
    <3>4. SubSeq(t, 1, f) \o SubSeq(t, f + 1, h) = SubSeq(t, 1, h)
      BY <2>7, <2>9, <3>3, SubSeqJoin
    <3>5. QED
      BY <2>8, <3>2, <3>3, <3>4
  <2>19. Spread(s0 \o (s1 \o g), w) = Spread(s0, w) \o (Spread(s1, w) \o Spread(g, w))
    <3>1. s1 \o g \in Seq(D)
      BY <2>10, ConcatProperties
    <3>2. Spread(s0 \o (s1 \o g), w) = Spread(s0, w) \o Spread(s1 \o g, w)
      BY <2>10, <3>1, SpreadJoin
    <3>3. Spread(s1 \o g, w) = Spread(s1, w) \o Spread(g, w)
      BY <2>10, SpreadJoin
    <3>4. QED
      BY <3>2, <3>3
  <2>20. Spread(u[m + 1], v) = Spread(SubSeq(t, 1, h), w)
    BY <2>11, <2>12, <2>13, <2>14, <2>17, <2>18, <2>19
  <2>21. QED
    BY <2>3, <2>5, <2>20
<1>. HIDE DEF P, T
<1>5. Len(spans) \in T
  BY <1>0, <1>1, <1>2, Induction
<1>6. P(Len(spans))
  BY <1>0, <1>5 DEF T
<1>7. Upto(spans, Len(t), Len(spans) + 1) = Len(t)
  BY <1>0 DEF Upto
<1>8. SubSeq(t, 1, Len(t)) = t
  BY SubSeqFull
<1>9. QED
  BY <1>6, <1>7, <1>8 DEF P

-----------------------------------------------------------------------------
(* The passes of the masking. *)

\* Letters of A, and placeholders of these kinds.
Characters(A, done) == (A \X {0}) \cup (done \X (Nat \ {0}))

\* What each symbol of D is put back to.
Back(m, D) == [s \in D |-> IF s \in DOMAIN m.mapping THEN m.mapping[s] ELSE <<s>>]

\* m is a text of letters from A after the passes for these kinds.
Masked(m, A, done) ==
  /\ m.text \in Seq(Characters(A, done))
  /\ DOMAIN m.mapping \subseteq done \X (Nat \ {0})
  /\ \A s \in DOMAIN m.mapping : m.mapping[s] \in Seq(Characters(A, done))
  /\ \A kind \in done : Matches(m.text, kind) = <<>>

LEMMA BackGrows ==
  ASSUME NEW D, NEW E, D \subseteq E, NEW s \in Seq(D), NEW m
  PROVE  Spread(s, Back(m, D)) = Spread(s, Back(m, E))
<1>1. PICK v, w : v = Back(m, D) /\ w = Back(m, E)
  OBVIOUS
<1>2. ASSUME NEW i \in 1..Len(s) PROVE Alike(v, w, s[i])
  <2>1. s[i] \in D /\ s[i] \in E
    BY ElementOfSeq
  <2>2. QED
    BY <1>1, <2>1 DEF Back, Alike
<1>3. Spread(s, v) = Spread(s, w)
  BY <1>2, SpreadSame
<1>4. QED
  BY <1>1, <1>3

\* After a pass nothing of its kind, or of a kind before, is left.
LEMMA PassHides ==
  ASSUME NEW D, NEW t \in Seq(D), NEW u, Len(u) \in Nat, NEW kind \in Kinds, NEW spans,
         spans = Matches(t, kind), Clear(u, t, Len(t), spans),
         NEW other \in Kinds, other = kind \/ Matches(t, other) = <<>>
  PROVE  Matches(u, other) = <<>>
<1>0. Len(t) \in Nat
  BY LenProperties
<1>1. /\ Apart(spans, Len(t))
      /\ \A i \in 1..Len(t) : \A j \in i..Len(t) : Is(kind, t, i, j) =>
           \E k \in 1..Len(spans) : spans[k][1] <= i /\ i <= spans[k][2]
  BY <1>0, MatchesFacts
<1>2. ASSUME NEW i \in 1..Len(u), NEW j \in i..Len(u), Is(other, u, i, j) PROVE FALSE
  <2>1. i \in Int /\ j \in Int /\ i <= j /\ j \in 1..Len(u)
    OBVIOUS
  <2>2. \A x \in i..j : u[x][2] = 0
    BY <1>2, <2>1, MatchIsPlain
  <2>3. PICK d \in Int :
          /\ i + d >= 1 /\ j + d <= Len(t)
          /\ \A y \in i..j : t[y + d] = u[y]
          /\ \A k \in 1..Len(spans) : spans[k][2] < i + d \/ j + d < spans[k][1]
    BY <2>1, <2>2 DEF Clear
  <2>4. Is(other, t, i + d, j + d)
    BY <1>2, <2>1, <2>3, MatchMoves
  <2>5. PICK a, b : a = i + d /\ b = j + d
    OBVIOUS
  <2>6. a \in 1..Len(t) /\ b \in a..Len(t)
    BY <1>0, <2>1, <2>3, <2>5
  <2>7. CASE other = kind
    <3>1. PICK k \in 1..Len(spans) : spans[k][1] <= a /\ a <= spans[k][2]
      BY <1>1, <2>4, <2>5, <2>6, <2>7
    <3>2. spans[k][1] \in 1..Len(t) /\ spans[k][2] \in 1..Len(t)
      BY <1>0, <1>1, SpansInOrder
    <3>3. spans[k][2] < a \/ b < spans[k][1]
      BY <2>3, <2>5
    <3>4. PICK p, q : p = spans[k][1] /\ q = spans[k][2]
      OBVIOUS
    <3>5. p \in Int /\ q \in Int /\ p <= a /\ a <= q /\ (q < a \/ b < p) /\ a <= b
      BY <1>0, <2>6, <3>1, <3>2, <3>3, <3>4
    <3>6. QED
      BY <1>0, <2>6, <3>5
  <2>8. CASE Matches(t, other) = <<>>
    BY <1>0, <2>4, <2>5, <2>6, <2>8, NoMatches
  <2>9. QED
    BY <2>7, <2>8
<1>3. QED
  BY <1>2, NoMatches

\* The mapping after a pass.
LEMMA HideMapping ==
  ASSUME NEW m, NEW kind, NEW spans, spans = Matches(m.text, kind), Len(spans) \in Nat
  PROVE  LET f == Hide(m, kind).mapping IN
         /\ DOMAIN f = ({kind} \X (1..Len(spans))) \cup DOMAIN m.mapping
         /\ \A k \in 1..Len(spans) :
              f[<<kind, k>>] = SubSeq(m.text, spans[k][1], spans[k][2])
         /\ \A s \in DOMAIN m.mapping \ ({kind} \X (1..Len(spans))) : f[s] = m.mapping[s]
<1>1. PICK f : f = Hide(m, kind).mapping
  OBVIOUS
<1>2. PICK tokens : tokens = {kind} \X (1..Len(spans))
  OBVIOUS
<1>3. f = [s \in tokens \cup DOMAIN m.mapping |->
             IF s \in tokens THEN SubSeq(m.text, spans[s[2]][1], spans[s[2]][2])
             ELSE m.mapping[s]]
  <2>1. PICK g : g = [s \in tokens |-> SubSeq(m.text, spans[s[2]][1], spans[s[2]][2])]
    OBVIOUS
  <2>2. f = Mapped(g, m.mapping)
    BY <1>1, <1>2, <2>1 DEF Hide
  <2>3. QED
    BY <2>1, <2>2 DEF Mapped
<1>4. \A k \in 1..Len(spans) : <<kind, k>> \in tokens /\ <<kind, k>>[2] = k
  BY <1>2
<1>5. \A k \in 1..Len(spans) : f[<<kind, k>>] = SubSeq(m.text, spans[k][1], spans[k][2])
  BY <1>3, <1>4
<1>6. \A s \in DOMAIN m.mapping \ tokens : f[s] = m.mapping[s]
  BY <1>3
<1>7. DOMAIN f = tokens \cup DOMAIN m.mapping
  BY <1>3
<1>8. QED
  BY <1>1, <1>2, <1>5, <1>6, <1>7

LEMMA HideKeeps ==
  ASSUME NEW A, NEW done \in SUBSET Kinds, NEW kind \in Kinds, kind \notin done,
         NEW m, Masked(m, A, done),
         NEW after, after = done \cup {kind}
  PROVE  /\ Masked(Hide(m, kind), A, after)
         /\ Spread(Hide(m, kind).text, Back(Hide(m, kind), Characters(A, after)))
              = Spread(m.text, Back(m, Characters(A, done)))
<1>. DEFINE t == m.text
            D == Characters(A, done)
            E == Characters(A, after)
            r == Hide(m, kind)
<1>1. /\ t \in Seq(D) /\ DOMAIN m.mapping \subseteq done \X (Nat \ {0})
      /\ \A s \in DOMAIN m.mapping : m.mapping[s] \in Seq(D)
      /\ \A k \in done : Matches(t, k) = <<>>
  BY DEF Masked
<1>2. D \subseteq E
  BY DEF Characters
<1>3. t \in Seq(E) /\ \A s \in DOMAIN m.mapping : m.mapping[s] \in Seq(E)
  BY <1>1, <1>2, SeqMonotonic
<1>4. PICK spans : spans = Matches(t, kind)
  OBVIOUS
<1>5. Len(t) \in Nat
  BY <1>1, LenProperties
<1>6. /\ Apart(spans, Len(t))
      /\ \A k \in 1..Len(spans) : Is(kind, t, spans[k][1], spans[k][2])
  BY <1>4, <1>5, MatchesFacts
<1>7. /\ Len(spans) \in Nat
      /\ \A k \in 1..Len(spans) : /\ spans[k][1] \in 1..Len(t) /\ spans[k][2] \in 1..Len(t)
                                  /\ spans[k][1] <= spans[k][2]
  BY <1>5, <1>6, SpansInOrder
<1>8. PICK x : x = [k \in 1..Len(spans) |-> <<kind, k>>]
  OBVIOUS
<1>9. \A k \in 1..Len(spans) : x[k] \in E /\ IsMark(x[k])
  BY <1>7, <1>8 DEF Characters, IsMark
<1>10. PICK new : new = Singles(x, Len(spans))
  OBVIOUS
<1>11. r.text = Substitute(t, spans, new)
  <2>1. new = [k \in 1..Len(spans) |-> <<<<kind, k>>>>]
    BY <1>8, <1>10 DEF Singles
  <2>2. QED
    BY <1>4, <2>1 DEF Hide
<1>12. PICK u : PassOver(u, t, spans, x, E) /\ Substitute(t, spans, new) = u[Len(spans) + 1]
  <2>. HIDE DEF E, t
  <2>1. QED
    BY <1>3, <1>6, <1>9, <1>10, PassExists
<1>13. r.text = u[Len(spans) + 1] /\ r.text \in Seq(E) /\ Len(r.text) \in Nat
  <2>1. r.text = u[Len(spans) + 1]
    BY <1>11, <1>12
  <2>2. Len(spans) + 1 \in 1..(Len(spans) + 1)
    BY <1>7
  <2>3. u[Len(spans) + 1] \in Seq(E)
    BY <1>12, <2>2 DEF PassOver
  <2>4. QED
    BY <2>1, <2>3, LenProperties
<1>14. Clear(r.text, t, Len(t), spans)
  <2>. HIDE DEF E, t, r
  <2>1. QED
    BY <1>3, <1>6, <1>9, <1>12, <1>13, PassClears
<1>15. \A k \in after : Matches(r.text, k) = <<>>
  <2>1. SUFFICES ASSUME NEW k \in after PROVE Matches(r.text, k) = <<>>
    OBVIOUS
  <2>2. k \in Kinds /\ (k = kind \/ Matches(t, k) = <<>>)
    BY <1>1
  <2>. HIDE DEF E, t, r
  <2>3. QED
    BY <1>3, <1>4, <1>13, <1>14, <2>2, PassHides
<1>16. PICK f : f = r.mapping
  OBVIOUS
<1>17. \A s \in D : s \notin {kind} \X (1..Len(spans))
  BY <1>7 DEF Characters
<1>18. /\ DOMAIN f = ({kind} \X (1..Len(spans))) \cup DOMAIN m.mapping
       /\ \A k \in 1..Len(spans) : f[<<kind, k>>] = SubSeq(t, spans[k][1], spans[k][2])
       /\ \A s \in DOMAIN m.mapping \ ({kind} \X (1..Len(spans))) : f[s] = m.mapping[s]
  BY <1>4, <1>7, <1>16, HideMapping
<1>19. \A s \in DOMAIN m.mapping : s \notin {kind} \X (1..Len(spans)) /\ f[s] = m.mapping[s]
  <2>1. ASSUME NEW s \in DOMAIN m.mapping PROVE s \notin {kind} \X (1..Len(spans))
    BY <1>1
  <2>2. QED
    BY <1>18, <2>1
<1>20. ASSUME NEW s \in DOMAIN f PROVE s \in after \X (Nat \ {0}) /\ f[s] \in Seq(E)
  <2>1. CASE s \in DOMAIN m.mapping
    BY <1>1, <1>3, <1>19, <2>1
  <2>2. CASE s \in {kind} \X (1..Len(spans))
    <3>1. PICK k \in 1..Len(spans) : s = <<kind, k>>
      BY <2>2
    <3>2. f[s] = SubSeq(t, spans[k][1], spans[k][2])
      BY <1>18, <3>1
    <3>3. spans[k][1] \in 1..(Len(t) + 1) /\ spans[k][2] \in 0..Len(t)
      BY <1>5, <1>7
    <3>4. f[s] \in Seq(E)
      <4>. HIDE DEF E, t
      <4>1. QED
        BY <1>3, <3>2, <3>3, SubSeqType
    <3>5. s \in after \X (Nat \ {0})
      BY <1>7, <3>1
    <3>6. QED
      BY <3>4, <3>5
  <2>3. QED
    BY <1>18, <2>1, <2>2
<1>21. Masked(r, A, after)
  <2>1. \A s \in DOMAIN f : s \in after \X (Nat \ {0}) /\ f[s] \in Seq(E)
    BY <1>20
  <2>. HIDE DEF r
  <2>2. QED
    BY <1>13, <1>15, <1>16, <2>1 DEF Masked
<1>22. PICK v, w : v = Back(r, E) /\ w = Back(m, E)
  OBVIOUS
<1>23. /\ \A s \in E : v[s] = IF s \in DOMAIN f THEN f[s] ELSE <<s>>
       /\ \A s \in E : w[s] = IF s \in DOMAIN m.mapping THEN m.mapping[s] ELSE <<s>>
  <2>. HIDE DEF E, r
  <2>1. QED
    BY <1>16, <1>22 DEF Back
<1>24. v \in Replacements(E, E) /\ w \in Replacements(E, E)
  <2>1. \A s \in E : <<s>> \in Seq(E)
    OBVIOUS
  <2>2. \A s \in E : v[s] \in Seq(E) /\ w[s] \in Seq(E)
    BY <1>3, <1>20, <1>23, <2>1
  <2>3. v = [s \in E |-> v[s]] /\ w = [s \in E |-> w[s]]
    BY <1>22 DEF Back
  <2>. HIDE DEF E
  <2>4. QED
    BY <2>2, <2>3 DEF Replacements
<1>25. GivesBack(v, w, t, spans, x)
  <2>1. ASSUME NEW k \in 1..Len(spans)
        PROVE  v[x[k]] = SubSeq(t, spans[k][1], spans[k][2])
    <3>1. x[k] = <<kind, k>> /\ x[k] \in E
      BY <1>8, <1>9
    <3>2. x[k] \in DOMAIN f
      BY <1>18, <3>1
    <3>3. QED
      BY <1>18, <1>23, <3>1, <3>2
  <2>2. ASSUME NEW i \in 1..Len(t) PROVE Alike(v, w, t[i])
    <3>1. t[i] \in D /\ t[i] \in E
      BY <1>1, <1>3, ElementOfSeq
    <3>2. t[i] \in DOMAIN f <=> t[i] \in DOMAIN m.mapping
      BY <1>17, <1>18, <3>1
    <3>3. t[i] \in DOMAIN m.mapping => f[t[i]] = m.mapping[t[i]]
      BY <1>19
    <3>. HIDE DEF E, D, t
    <3>4. v[t[i]] = w[t[i]]
      <4>1. CASE t[i] \in DOMAIN m.mapping
        BY <1>23, <3>1, <3>2, <3>3, <4>1
      <4>2. CASE t[i] \notin DOMAIN m.mapping
        <5>1. PICK s : s = t[i]
          OBVIOUS
        <5>2. s \in E /\ s \notin DOMAIN f /\ s \notin DOMAIN m.mapping
          BY <3>1, <3>2, <4>2, <5>1
        <5>3. v[s] = <<s>>
          BY <1>23, <5>2
        <5>4. w[s] = <<s>>
          BY <1>23, <5>2
        <5>5. QED
          BY <5>1, <5>3, <5>4
      <4>3. QED
        BY <4>1, <4>2
    <3>5. QED
      BY <3>4 DEF Alike
  <2>3. ASSUME NEW k \in 1..Len(spans), NEW i \in spans[k][1]..spans[k][2]
        PROVE  Leaves(w, t[i])
    <3>1. i \in 1..Len(t)
      BY <1>5, <1>7
    <3>2. t[i] \in E
      BY <1>3, <3>1, ElementOfSeq
    <3>3. t[i][2] = 0
      <4>1. PICK a, b : a = spans[k][1] /\ b = spans[k][2]
        OBVIOUS
      <4>2. a \in Int /\ b \in Int /\ Is(kind, t, a, b) /\ i \in a..b
        BY <1>5, <1>6, <1>7, <4>1
      <4>. HIDE DEF t
      <4>3. QED
        BY <4>2, MatchIsPlain
    <3>4. t[i] \notin DOMAIN m.mapping
      BY <1>1, <3>3
    <3>. HIDE DEF E, D, t
    <3>5. QED
      BY <1>23, <3>2, <3>4 DEF Leaves
  <2>4. QED
    BY <2>1, <2>2, <2>3 DEF GivesBack
<1>26. Spread(r.text, v) = Spread(t, w)
  <2>1. \A k \in 1..Len(spans) : x[k] \in E
    BY <1>9
  <2>. HIDE DEF E, D, t, r
  <2>2. Spread(u[Len(spans) + 1], v) = Spread(t, w)
    BY <1>3, <1>6, <1>12, <1>24, <1>25, <2>1, PassRestores
  <2>3. QED
    BY <1>13, <2>2
<1>27. Spread(t, Back(m, D)) = Spread(t, Back(m, E))
  <2>. HIDE DEF E, D, t, r
  <2>2. QED
    BY <1>1, <1>2, BackGrows
<1>28. QED
  BY <1>21, <1>22, <1>26, <1>27

LEMMA HideNothing ==
  ASSUME NEW D, NEW m, m.text \in Seq(D), NEW kind, Matches(m.text, kind) = <<>>
  PROVE  Hide(m, kind).text = m.text
<1>1. PICK t, spans, x : t = m.text /\ spans = <<>> /\ x = <<>>
  OBVIOUS
<1>2. t \in Seq(D) /\ Len(t) \in Nat /\ Len(spans) = 0
  BY <1>1, LenProperties
<1>3. Apart(spans, Len(t))
  <2>1. spans \in Seq(Places(Len(t)))
    BY <1>1, EmptySeq
  <2>2. QED
    BY <1>2, <2>1 DEF Apart
<1>4. PICK new : new = Singles(x, Len(spans))
  OBVIOUS
<1>5. new = [k \in 1..Len(spans) |-> <<<<kind, k>>>>]
  <2>1. \A k \in 1..Len(spans) : FALSE
    BY <1>2
  <2>2. QED
    BY <1>4, <2>1 DEF Singles
<1>6. Hide(m, kind).text = Substitute(t, spans, new)
  BY <1>1, <1>5 DEF Hide
<1>7. \A k \in 1..Len(spans) : x[k] \in D
  BY <1>2
<1>8. PICK u : PassOver(u, t, spans, x, D) /\ Substitute(t, spans, new) = u[Len(spans) + 1]
  <2>1. t \in Seq(D)
    BY <1>2
  <2>2. QED
    BY <1>3, <1>4, <1>7, <2>1, PassExists
<1>9. u[1] = SubSeq(t, 1, Len(t))
  BY <1>2, <1>8 DEF PassOver, Upto
<1>10. Len(spans) + 1 = 1
  BY <1>2
<1>11. SubSeq(t, 1, Len(t)) = t
  BY <1>2, SubSeqFull
<1>12. QED
  BY <1>1, <1>6, <1>8, <1>9, <1>10, <1>11

-----------------------------------------------------------------------------
(* Replacements one after the other, and symbols that go. *)

LEMMA SpreadEmpty == \A v : Spread(<<>>, v) = <<>>
<1>. SUFFICES ASSUME NEW v PROVE Spread(<<>>, v) = <<>>
  OBVIOUS
<1>1. [i \in DOMAIN <<>> |-> v[<<>>[i]]] = <<>>
  OBVIOUS
<1>2. FlattenSeq(<<>>) = <<>>
  BY DEF FlattenSeq
<1>3. QED
  BY <1>1, <1>2 DEF Spread

LEMMA SpreadType ==
  ASSUME NEW S, NEW R, NEW v \in Replacements(S, R), NEW t \in Seq(S)
  PROVE  Spread(t, v) \in Seq(R)
BY SpreadConcat

\* z is v and then w.
InTurn(z, v, w, a) == z[a] = Spread(v[a], w)

LEMMA SpreadTwice ==
  ASSUME NEW A, NEW B, NEW C, NEW t \in Seq(A), NEW v \in Replacements(A, B),
         NEW w \in Replacements(B, C), NEW z \in Replacements(A, C),
         \A a \in A : InTurn(z, v, w, a)
  PROVE  Spread(Spread(t, v), w) = Spread(t, z)
<1>. DEFINE P(k) == Spread(Spread(SubSeq(t, 1, k), v), w) = Spread(SubSeq(t, 1, k), z)
            T    == {k \in Nat : k <= Len(t) => P(k)}
<1>0. Len(t) \in Nat /\ \A i \in 1..Len(t) : t[i] \in A
  BY LenProperties, ElementOfSeq
<1>1. 0 \in T
  <2>1. SubSeq(t, 1, 0) = <<>>
    BY SubSeqEmpty
  <2>2. P(0)
    BY <2>1, SpreadEmpty
  <2>. HIDE DEF P
  <2>3. QED
    BY <2>2
<1>2. ASSUME NEW k \in Nat, k \in T PROVE k + 1 \in T
  <2>1. SUFFICES ASSUME k + 1 <= Len(t) PROVE P(k + 1)
    BY DEF T
  <2>2. 1 \in 1..Len(t) /\ k + 1 \in 1..Len(t) /\ (k + 1) - 1 = k /\ k <= Len(t)
    BY <1>0, <2>1
  <2>3. P(k)
    <3>. HIDE DEF P
    <3>1. QED
      BY <1>2, <2>2
  <2>4. PICK p : p = SubSeq(t, 1, k)
    OBVIOUS
  <2>5. PICK a \in A : a = t[k + 1]
    BY <1>0, <2>2
  <2>6. p \in Seq(A) /\ <<a>> \in Seq(A)
    <3>1. \A i \in 1..k : t[i] \in A
      BY <1>0, <2>1
    <3>2. QED
      BY <2>4, <3>1, SubSeqProperties
  <2>7. PICK o : o = <<a>>
    OBVIOUS
  <2>8. SubSeq(t, 1, k + 1) = p \o o
    BY <2>2, <2>4, <2>5, <2>7, SubSeqRecursiveSecond
  <2>9. Spread(p \o o, v) = Spread(p, v) \o Spread(o, v)
    BY <2>6, <2>7, SpreadParts
  <2>10. Spread(p, v) \in Seq(B) /\ Spread(o, v) \in Seq(B)
    BY <2>6, <2>7, SpreadType
  <2>11. PICK x, y : x = Spread(p, v) /\ y = Spread(o, v)
    OBVIOUS
  <2>12. Spread(x \o y, w) = Spread(x, w) \o Spread(y, w)
    <3>1. x \in Seq(B) /\ y \in Seq(B)
      BY <2>10, <2>11
    <3>2. QED
      BY <3>1, SpreadParts
  <2>13. Spread(o, v) = v[a] /\ Spread(o, z) = z[a]
    BY <2>7, SpreadOne
  <2>14. Spread(y, w) = Spread(o, z)
    BY <2>11, <2>13 DEF InTurn
  <2>15. Spread(p \o o, z) = Spread(p, z) \o Spread(o, z)
    BY <2>6, <2>7, SpreadParts
  <2>16. Spread(x, w) = Spread(p, z)
    BY <2>3, <2>4, <2>11
  <2>17. QED
    BY <2>8, <2>9, <2>11, <2>12, <2>14, <2>15, <2>16
<1>. HIDE DEF T
<1>3. Len(t) \in T
  BY <1>0, <1>1, <1>2, Induction
<1>4. P(Len(t))
  BY <1>0, <1>3 DEF T
<1>5. QED
  BY <1>4, SubSeqFull

\* What becomes of a symbol when those of S are left out.
Dropping(D, S) == [s \in D |-> IF s \in S THEN <<>> ELSE <<s>>]

LEMMA WithoutSpreads ==
  ASSUME NEW D, NEW S, NEW t \in Seq(D)
  PROVE  /\ Dropping(D, S) \in Replacements(D, D \ S)
         /\ Dropping(D, S) \in Replacements(D, D)
         /\ Without(t, S) = Spread(t, Dropping(D, S))
<1>1. PICK v : v = Dropping(D, S)
  OBVIOUS
<1>2. \A s \in D : v[s] = IF s \in S THEN <<>> ELSE <<s>>
  BY <1>1 DEF Dropping
<1>3. v \in [D -> Seq(D \ S)] /\ v \in [D -> Seq(D)]
  <2>1. \A s \in D : v[s] \in Seq(D \ S) /\ v[s] \in Seq(D)
    <3>1. ASSUME NEW s \in D, s \in S PROVE v[s] \in Seq(D \ S) /\ v[s] \in Seq(D)
      <4>1. v[s] = <<>>
        BY <1>2, <3>1
      <4>2. <<>> \in Seq(D \ S) /\ <<>> \in Seq(D)
        BY EmptySeq
      <4>3. QED
        BY <4>1, <4>2
    <3>2. ASSUME NEW s \in D, s \notin S PROVE v[s] \in Seq(D \ S) /\ v[s] \in Seq(D)
      <4>1. v[s] = <<s>> /\ s \in D \ S
        BY <1>2, <3>2
      <4>2. <<s>> \in Seq(D \ S) /\ <<s>> \in Seq(D)
        BY <4>1
      <4>3. QED
        BY <4>1, <4>2
    <3>3. QED
      BY <3>1, <3>2
  <2>2. v = [s \in D |-> v[s]]
    BY <1>1 DEF Dropping
  <2>3. QED
    BY <2>1, <2>2
<1>4. \A i \in DOMAIN t : t[i] \in D
  BY LenProperties, ElementOfSeq
<1>5. [i \in DOMAIN t |-> IF t[i] \in S THEN <<>> ELSE <<t[i]>>]
        = [i \in DOMAIN t |-> v[t[i]]]
  BY <1>2, <1>4
<1>6. Without(t, S) = Spread(t, v)
  BY <1>5 DEF Without, Spread
<1>7. QED
  BY <1>1, <1>3, <1>6 DEF Replacements

-----------------------------------------------------------------------------
(* Parts of a text between the occurrences of a pattern. *)

Found(spans, t, pattern, l) ==
  \A k \in 1..Len(spans) : /\ OccursAt(t, pattern, spans[k][1])
                           /\ spans[k][2] = spans[k][1] + l - 1

LEMMA OccurrencesFacts ==
  ASSUME NEW t, NEW n \in Nat, n = Len(t), NEW pattern, NEW l \in Nat \ {0}, l = Len(pattern),
         NEW spans, spans = Occurrences(t, pattern)
  PROVE  Apart(spans, n) /\ Found(spans, t, pattern, l)
<1>1. PICK e : e = [i \in 1..n |-> IF OccursAt(t, pattern, i) THEN i + l - 1 ELSE 0]
  OBVIOUS
<1>2. ASSUME NEW i \in 1..n
      PROVE  /\ e[i] \in 0..n
             /\ e[i] # 0 => i <= e[i] /\ OccursAt(t, pattern, i) /\ e[i] = i + l - 1
  <2>1. CASE OccursAt(t, pattern, i)
    <3>1. i + l - 1 <= n
      BY <2>1 DEF OccursAt
    <3>2. e[i] = i + l - 1
      BY <1>1, <2>1
    <3>3. QED
      BY <2>1, <3>1, <3>2
  <2>2. CASE ~ OccursAt(t, pattern, i)
    BY <1>1, <2>2
  <2>3. QED
    BY <2>1, <2>2
<1>3. e \in Ends(n)
  <2>1. e = [i \in 1..n |-> e[i]]
    BY <1>1
  <2>2. e \in [1..n -> 0..n]
    BY <1>2, <2>1
  <2>3. QED
    BY <1>2, <2>2 DEF Ends
<1>4. spans = Spans(t, e)
  BY <1>1 DEF Occurrences
<1>5. SpansFrom(spans, e, 1, n)
  BY <1>3, <1>4, SpansFacts
<1>6. Apart(spans, n)
  BY <1>5 DEF Apart, SpansFrom
<1>7. ASSUME NEW k \in 1..Len(spans)
      PROVE  OccursAt(t, pattern, spans[k][1]) /\ spans[k][2] = spans[k][1] + l - 1
  <2>1. PICK a \in 1..n, b \in 1..n : a = spans[k][1] /\ b = spans[k][2] /\ a <= b
    BY <1>6, SpansInOrder
  <2>2. b = e[a]
    BY <1>5, <2>1 DEF SpansFrom
  <2>3. QED
    BY <1>2, <2>1, <2>2
<1>8. QED
  BY <1>6, <1>7 DEF Found

LEMMA SplitFacts ==
  ASSUME NEW D, NEW t \in Seq(D), NEW pattern, Len(pattern) \in Nat \ {0}
  PROVE  Split(t, pattern) \in Seq(Seq(D))
<1>1. PICK spans : spans = Occurrences(t, pattern)
  OBVIOUS
<1>2. PICK n \in Nat : n = Len(t)
  BY LenProperties
<1>3. Apart(spans, n)
  BY <1>1, <1>2, OccurrencesFacts
<1>4. PICK K \in Nat : K = Len(spans)
  BY <1>2, <1>3, SpansInOrder
<1>5. PICK g : g = Gaps(t, spans)
  OBVIOUS
<1>6. Parts(g, t, spans, n, K, D)
  BY <1>2, <1>3, <1>4, <1>5, GapsFacts
<1>7. g \in Arrays(K + 1, Seq(D)) /\ K + 1 \in Nat
  BY <1>6 DEF Parts
<1>8. g \in Seq(Seq(D))
  BY <1>7, ArrayIsSeq
<1>9. QED
  BY <1>1, <1>5, <1>8 DEF Split

\* v takes everything from s.
Empties(v, s) == Spread(s, v) = <<>>

\* z replaces a text by what v makes of it.
Whole(z, v, x) == z[x] = Spread(x, v)

\* When the spans go, the text is its parts.
LEMMA GapsSpread ==
  ASSUME NEW D, NEW R, NEW t \in Seq(D), NEW n, n = Len(t), NEW spans, Apart(spans, n),
         NEW K, K = Len(spans), NEW g, Parts(g, t, spans, n, K, D),
         NEW v \in Replacements(D, R), NEW z \in Replacements(Seq(D), R),
         \A x \in Seq(D) : Whole(z, v, x),
         \A k \in 1..K : Empties(v, SubSeq(t, spans[k][1], spans[k][2]))
  PROVE  Spread(t, v) = Spread(g, z)
<1>. DEFINE U(k) == Upto(spans, n, k)
            P(k) == Spread(SubSeq(t, 1, U(k + 1)), v) = Spread(SubSeq(g, 1, k + 1), z)
            T    == {k \in Nat : k <= K => P(k)}
<1>0. /\ n \in Nat /\ K \in Nat
      /\ \A k \in 1..(K + 1) : U(k) \in 0..n
      /\ \A k \in 1..K : /\ spans[k][1] \in 1..n /\ spans[k][2] \in 1..n
                         /\ U(k) = spans[k][1] - 1
                         /\ spans[k][1] <= spans[k][2] /\ spans[k][2] <= U(k + 1)
  <2>1. n \in Nat
    BY LenProperties
  <2>2. QED
    BY <2>1, SpansInOrder
<1>1. /\ Len(g) = K + 1 /\ g[1] = SubSeq(t, 1, U(1))
      /\ \A k \in 1..K : g[k + 1] = SubSeq(t, spans[k][2] + 1, U(k + 1))
      /\ \A k \in 1..(K + 1) : g[k] \in Seq(D)
  BY DEF Parts
<1>2. PICK V : V = Seq(D)
  OBVIOUS
<1>3. g \in Seq(V)
  <2>1. g \in Arrays(K + 1, V) /\ K + 1 \in Nat
    BY <1>0, <1>2 DEF Parts
  <2>2. QED
    BY <2>1, ArrayIsSeq
<1>4. z \in Replacements(V, R)
  BY <1>2
<1>. HIDE DEF U
<1>5. 0 \in T
  <2>1. 1 \in 1..Len(g) /\ 1 - 1 = 0 /\ g[1] \in V /\ g[1] \in Seq(D)
    BY <1>0, <1>1, <1>2
  <2>2. SubSeq(g, 1, 1) = <<g[1]>>
    <3>1. SubSeq(g, 1, 1) = SubSeq(g, 1, 0) \o <<g[1]>>
      BY <1>3, <2>1, SubSeqRecursiveSecond
    <3>2. SubSeq(g, 1, 0) = <<>> /\ <<g[1]>> \in Seq(V)
      BY <2>1, SubSeqEmpty
    <3>3. <<>> \o <<g[1]>> = <<g[1]>>
      BY <3>2, ConcatEmptySeq
    <3>4. QED
      BY <3>1, <3>2, <3>3
  <2>3. Spread(<<g[1]>>, z) = z[g[1]]
    BY <1>4, <2>1, SpreadOne
  <2>4. z[g[1]] = Spread(g[1], v)
    BY <2>1 DEF Whole
  <2>6. Spread(SubSeq(t, 1, U(1)), v) = Spread(SubSeq(g, 1, 1), z)
    BY <1>1, <2>2, <2>3, <2>4
  <2>7. 0 + 1 = 1
    OBVIOUS
  <2>8. P(0)
    BY <2>6, <2>7
  <2>. HIDE DEF P
  <2>5. QED
    BY <2>8
<1>6. ASSUME NEW k \in Nat, k \in T PROVE k + 1 \in T
  <2>1. SUFFICES ASSUME k + 1 <= K PROVE P(k + 1)
    BY DEF T
  <2>2. P(k)
    <3>. HIDE DEF P
    <3>1. QED
      BY <1>0, <1>6, <2>1
  <2>3. PICK m \in 1..K : m = k + 1
    BY <1>0, <2>1
  <2>4. PICK a, b, c : a = SubSeq(t, 1, U(m)) /\ b = SubSeq(t, spans[m][1], spans[m][2])
                       /\ c = SubSeq(t, spans[m][2] + 1, U(m + 1))
    OBVIOUS
  <2>5. PICK x \in 1..n, y \in 1..n, u \in 0..n :
          x = spans[m][1] /\ y = spans[m][2] /\ u = U(m + 1) /\ U(m) = x - 1 /\ x <= y /\ y <= u
    <3>1. m + 1 \in 1..(K + 1)
      BY <1>0
    <3>2. QED
      BY <1>0, <3>1
  <2>6. a \in Seq(D) /\ b \in Seq(D) /\ c \in Seq(D)
    <3>1. /\ 1 \in 1..(n + 1) /\ x \in 1..(n + 1) /\ y + 1 \in 1..(n + 1)
          /\ x - 1 \in 0..n /\ y \in 0..n
      <4>1. n \in Nat
        BY <1>0
      <4>2. x \in 1..n /\ y \in 1..n
        OBVIOUS
      <4>3. QED
        BY <4>1, <4>2
    <3>2. QED
      BY <2>4, <2>5, <3>1, SubSeqType
  <2>7. SubSeq(t, 1, u) = (a \o b) \o c
    <3>1. SubSeq(t, 1, y) = a \o b
      <4>1. /\ x - 1 \in 0..n /\ y \in 0..n /\ 1 \in 1..(n + 1) /\ 1 <= (x - 1) + 1
            /\ x - 1 <= y /\ (x - 1) + 1 = x
        BY <1>0, <2>5
      <4>2. SubSeq(t, 1, x - 1) \o SubSeq(t, (x - 1) + 1, y) = SubSeq(t, 1, y)
        BY <4>1, SubSeqJoin
      <4>3. QED
        BY <2>4, <2>5, <4>1, <4>2
    <3>2. SubSeq(t, 1, y) \o SubSeq(t, y + 1, u) = SubSeq(t, 1, u)
      <4>1. y \in 0..n /\ 1 \in 1..(n + 1) /\ 1 <= y + 1
        BY <1>0
      <4>2. QED
        BY <2>5, <4>1, SubSeqJoin
    <3>3. QED
      BY <2>4, <2>5, <3>1, <3>2
  <2>8. Spread(SubSeq(t, 1, u), v) = Spread(a, v) \o Spread(c, v)
    <3>1. a \o b \in Seq(D)
      BY <2>6, ConcatProperties
    <3>2. PICK d : d = a \o b
      OBVIOUS
    <3>3. Spread(d \o c, v) = Spread(d, v) \o Spread(c, v)
      BY <2>6, <3>1, <3>2, SpreadParts
    <3>4. Spread(a \o b, v) = Spread(a, v) \o Spread(b, v)
      BY <2>6, SpreadParts
    <3>5. Spread(b, v) = <<>>
      BY <2>4 DEF Empties
    <3>6. Spread(a, v) \in Seq(R)
      BY <2>6, SpreadType
    <3>7. Spread(a, v) \o <<>> = Spread(a, v)
      BY <3>6, ConcatEmptySeq
    <3>8. QED
      BY <2>7, <3>2, <3>3, <3>4, <3>5, <3>7
  <2>9. m + 1 \in 1..Len(g) /\ m \in 1..Len(g) /\ (m + 1) - 1 = m /\ 1 \in 1..Len(g)
    BY <1>0, <1>1
  <2>10. SubSeq(g, 1, m + 1) = SubSeq(g, 1, m) \o <<g[m + 1]>>
    BY <1>3, <2>9, SubSeqRecursiveSecond
  <2>11. g[m + 1] = c /\ c \in V
    BY <1>1, <1>2, <2>4, <2>6
  <2>12. PICK h : h = SubSeq(g, 1, m)
    OBVIOUS
  <2>13. h \in Seq(V)
    <3>1. \A i \in 1..m : g[i] \in V
      BY <1>0, <1>1, <1>2
    <3>2. QED
      BY <2>12, <3>1, SubSeqProperties
  <2>14. PICK o : o = <<c>>
    OBVIOUS
  <2>15. o \in Seq(V)
    BY <2>11, <2>14
  <2>16. Spread(h \o o, z) = Spread(h, z) \o Spread(o, z)
    BY <1>4, <2>13, <2>15, SpreadParts
  <2>17. Spread(o, z) = z[c]
    BY <1>4, <2>11, <2>14, SpreadOne
  <2>18. z[c] = Spread(c, v)
    BY <2>6 DEF Whole
  <2>19. Spread(a, v) = Spread(h, z)
    BY <2>2, <2>3, <2>4, <2>12
  <2>20. Spread(SubSeq(t, 1, U(m + 1)), v) = Spread(SubSeq(g, 1, m + 1), z)
    BY <2>5, <2>8, <2>10, <2>11, <2>12, <2>14, <2>16, <2>17, <2>18, <2>19
  <2>21. QED
    BY <2>3, <2>20
<1>. HIDE DEF T
<1>7. K \in T
  BY <1>0, <1>5, <1>6, Induction
<1>8. P(K)
  BY <1>0, <1>7 DEF T
<1>9. U(K + 1) = n
  BY <1>0 DEF U, Upto
<1>10. QED
  BY <1>1, <1>3, <1>8, <1>9, SubSeqFull

-----------------------------------------------------------------------------
(* Words: what is left of a text without its blanks. *)

\* The key of a text is what this makes of it.
KeyMap(D) == Dropping(D, Blank)

LEMMA KeySpreads ==
  ASSUME NEW D, NEW x \in Seq(D)
  PROVE  /\ KeyMap(D) \in Replacements(D, D)
         /\ KeyOf(x) = Spread(x, KeyMap(D)) /\ KeyOf(x) \in Seq(D)
<1>1. /\ KeyMap(D) \in Replacements(D, D)
      /\ KeyOf(x) = Spread(x, KeyMap(D))
  BY WithoutSpreads DEF KeyMap, KeyOf
<1>2. QED
  BY <1>1, SpreadType

LEMMA KeyConcat ==
  ASSUME NEW D, NEW x \in Seq(D), NEW y \in Seq(D)
  PROVE  KeyOf(x \o y) = KeyOf(x) \o KeyOf(y)
<1>1. x \o y \in Seq(D)
  BY ConcatProperties
<1>2. PICK z : z = x \o y
  OBVIOUS
<1>3. /\ KeyMap(D) \in Replacements(D, D)
      /\ KeyOf(x) = Spread(x, KeyMap(D)) /\ KeyOf(y) = Spread(y, KeyMap(D))
      /\ KeyOf(z) = Spread(z, KeyMap(D))
  BY <1>1, <1>2, KeySpreads
<1>4. Spread(x \o y, KeyMap(D)) = Spread(x, KeyMap(D)) \o Spread(y, KeyMap(D))
  BY <1>3, SpreadParts
<1>5. QED
  BY <1>2, <1>3, <1>4

LEMMA KeyOfBlanks ==
  ASSUME NEW x \in Seq(Blank)
  PROVE  KeyOf(x) = <<>>
<1>1. /\ Dropping(Blank, Blank) \in Replacements(Blank, Blank \ Blank)
      /\ KeyOf(x) = Spread(x, Dropping(Blank, Blank))
  BY WithoutSpreads DEF KeyOf
<1>2. PICK E : E = Blank \ Blank
  OBVIOUS
<1>3. KeyOf(x) \in Seq(E)
  BY <1>1, <1>2, SpreadType
<1>4. PICK k : k = KeyOf(x)
  OBVIOUS
<1>5. k \in Seq(E) /\ \A s : s \notin E
  BY <1>2, <1>3, <1>4
<1>6. k = <<>>
  <2>1. \A i \in 1..Len(k) : k[i] \in E
    BY <1>5, ElementOfSeq
  <2>2. Len(k) \in Nat
    BY <1>5, LenProperties
  <2>3. Len(k) = 0
    <3>1. 1 \notin 1..Len(k)
      BY <1>5, <2>1
    <3>2. QED
      BY <2>2, <3>1
  <2>4. QED
    BY <1>5, <2>3, EmptySeq
<1>7. QED
  BY <1>4, <1>6

\* A text that begins with another symbol than a blank has a word.
LEMMA KeyOfSolid ==
  ASSUME NEW D, NEW s \in D, s \notin Blank, NEW x \in Seq(D)
  PROVE  /\ KeyOf(<<s>>) = <<s>>
         /\ KeyOf(<<s>> \o x) = <<s>> \o KeyOf(x) /\ KeyOf(<<s>> \o x) # <<>>
<1>1. PICK o : o = <<s>>
  OBVIOUS
<1>2. o \in Seq(D)
  BY <1>1
<1>3. PICK v : v = KeyMap(D)
  OBVIOUS
<1>4. v \in Replacements(D, D) /\ KeyOf(o) = Spread(o, v)
  BY <1>2, <1>3, KeySpreads
<1>5. Spread(o, v) = v[s]
  BY <1>1, <1>4, SpreadOne
<1>6. v[s] = <<s>>
  BY <1>3 DEF KeyMap, Dropping
<1>7. KeyOf(o \o x) = o \o KeyOf(x)
  BY <1>1, <1>2, <1>4, <1>5, <1>6, KeyConcat
<1>8. KeyOf(x) \in Seq(D)
  BY KeySpreads
<1>9. PICK k : k = KeyOf(x)
  OBVIOUS
<1>10. o \o k # <<>>
  <2>1. Joins(o \o k, o, k, D)
    BY <1>2, <1>8, <1>9, Joining
  <2>2. Len(o) = 1 /\ Len(k) \in Nat
    BY <1>1, <1>8, <1>9, LenProperties
  <2>3. PICK c : c = o \o k
    OBVIOUS
  <2>4. Len(c) # 0
    BY <2>1, <2>2, <2>3 DEF Joins
  <2>5. c # <<>>
    BY <2>4
  <2>6. QED
    BY <2>3, <2>5
<1>11. QED
  BY <1>1, <1>4, <1>5, <1>6, <1>7, <1>9, <1>10

\* A stripped text has the words of the text; if it is not empty it has one.
LEMMA StripKeeps ==
  ASSUME NEW D, NEW x \in Seq(D)
  PROVE  /\ Strip(x) \in Seq(D) /\ KeyOf(Strip(x)) = KeyOf(x)
         /\ Strip(x) # <<>> => KeyOf(Strip(x)) # <<>>
<1>1. PICK n \in Nat : n = Len(x)
  BY LenProperties
<1>2. PICK A : A = {i \in 1..n : x[i] \notin Blank}
  OBVIOUS
<1>3. Strip(x) = IF A = {} THEN <<>> ELSE SubSeq(x, Min(A), Max(A))
  BY <1>1, <1>2 DEF Strip
<1>4. \A i \in 1..n : x[i] \in D
  BY <1>1, ElementOfSeq
<1>5. ASSUME NEW a \in 1..(n + 1), NEW b \in 0..n, \A i \in a..b : i \notin A
      PROVE  KeyOf(SubSeq(x, a, b)) = <<>>
  <2>1. PICK y : y = SubSeq(x, a, b)
    OBVIOUS
  <2>2. \A i \in a..b : x[i] \in Blank
    BY <1>2, <1>5
  <2>3. y \in Seq(Blank)
    <3>1. a \in Int /\ b \in Int
      OBVIOUS
    <3>2. QED
      BY <2>1, <2>2, <3>1, SubSeqProperties
  <2>4. QED
    BY <2>1, <2>3, KeyOfBlanks
<1>6. CASE A = {}
  <2>1. SubSeq(x, 1, n) = x
    BY <1>1, SubSeqFull
  <2>2. 1 \in 1..(n + 1) /\ n \in 0..n
    OBVIOUS
  <2>3. KeyOf(SubSeq(x, 1, n)) = <<>>
    BY <1>5, <1>6, <2>2
  <2>4. Strip(x) = <<>>
    BY <1>3, <1>6
  <2>5. <<>> \in Seq(D) /\ <<>> \in Seq(Blank)
    BY EmptySeq
  <2>6. KeyOf(<<>>) = <<>>
    BY <2>5, KeyOfBlanks
  <2>7. QED
    BY <2>1, <2>3, <2>4, <2>5, <2>6
<1>7. CASE A # {}
  <2>1. PICK a \in A, b \in A : /\ a = Min(A) /\ b = Max(A)
                                /\ \A i \in A : a <= i /\ i <= b
    <3>1. A \in SUBSET Nat /\ A \in SUBSET (0..n)
      BY <1>2
    <3>2. QED
      BY <1>7, <3>1, MinFacts, MaxFacts
  <2>2. /\ a \in 1..n /\ b \in 1..n /\ a <= b
        /\ a - 1 \in 0..n /\ b + 1 \in 1..(n + 1) /\ b \in 0..n /\ a \in 1..(n + 1)
        /\ 1 \in 1..(n + 1) /\ n \in 0..n /\ (a - 1) + 1 = a /\ a - 1 <= b
        /\ 1 <= (a - 1) + 1 /\ 1 <= b + 1 /\ b <= n
    BY <1>2, <2>1
  <2>3. PICK p, y, q : p = SubSeq(x, 1, a - 1) /\ y = SubSeq(x, a, b) /\ q = SubSeq(x, b + 1, n)
    OBVIOUS
  <2>4. p \in Seq(D) /\ y \in Seq(D) /\ q \in Seq(D)
    BY <1>1, <2>2, <2>3, SubSeqType
  <2>5. KeyOf(p) = <<>>
    <3>1. \A i \in 1..(a - 1) : i \notin A
      BY <2>1, <2>2
    <3>2. QED
      BY <1>5, <2>2, <2>3, <3>1
  <2>6. KeyOf(q) = <<>>
    <3>1. \A i \in (b + 1)..n : i \notin A
      BY <2>1, <2>2
    <3>2. QED
      BY <1>5, <2>2, <2>3, <3>1
  <2>7. x = (p \o y) \o q
    <3>1. SubSeq(x, 1, a - 1) \o SubSeq(x, (a - 1) + 1, b) = SubSeq(x, 1, b)
      BY <1>1, <2>2, SubSeqJoin
    <3>2. SubSeq(x, 1, b) \o SubSeq(x, b + 1, n) = SubSeq(x, 1, n)
      BY <1>1, <2>2, SubSeqJoin
    <3>3. SubSeq(x, 1, n) = x
      BY <1>1, SubSeqFull
    <3>4. QED
      BY <2>2, <2>3, <3>1, <3>2, <3>3
  <2>8. KeyOf(x) = KeyOf(y)
    <3>1. PICK d : d = p \o y
      OBVIOUS
    <3>2. d \in Seq(D)
      BY <2>4, <3>1, ConcatProperties
    <3>3. KeyOf(d \o q) = KeyOf(d) \o KeyOf(q)
      BY <2>4, <3>2, KeyConcat
    <3>4. KeyOf(p \o y) = KeyOf(p) \o KeyOf(y)
      BY <2>4, KeyConcat
    <3>5. KeyOf(y) \in Seq(D)
      BY <2>4, KeySpreads
    <3>6. <<>> \o KeyOf(y) = KeyOf(y) /\ KeyOf(y) \o <<>> = KeyOf(y)
      BY <3>5, ConcatEmptySeq
    <3>7. QED
      BY <2>5, <2>6, <2>7, <3>1, <3>3, <3>4, <3>6
  <2>9. KeyOf(y) # <<>>
    <3>1. PICK s \in D : s = x[a] /\ s \notin Blank
      BY <1>2, <1>4, <2>1, <2>2
    <3>2. PICK w : w = SubSeq(x, a + 1, b)
      OBVIOUS
    <3>3. SubSeq(x, a, a) \o SubSeq(x, a + 1, b) = SubSeq(x, a, b)
      <4>1. a \in 0..n /\ a <= a + 1 /\ a <= b
        BY <2>2
      <4>2. QED
        BY <1>1, <2>2, <4>1, SubSeqJoin
    <3>4. w \in Seq(D)
      <4>1. a + 1 \in 1..(n + 1)
        BY <2>2
      <4>2. QED
        BY <1>1, <2>2, <3>2, <4>1, SubSeqType
    <3>5. SubSeq(x, a, a) = <<s>>
      <4>1. PICK z : z = SubSeq(x, a, a)
        OBVIOUS
      <4>2. /\ z \in Seq(D) /\ Len(z) = 1 /\ z[1] = s
        <5>1. /\ z \in Seq(D) /\ Len(z) = IF a <= a THEN a - a + 1 ELSE 0
              /\ \A i \in 1..(a - a + 1) : z[i] = x[a + i - 1]
          <6>1. a \in 0..Len(x) /\ a \in 1..(Len(x) + 1)
            BY <1>1, <2>2
          <6>2. QED
            BY <4>1, <6>1, SubSeqType
        <5>2. 1 \in 1..(a - a + 1) /\ a - a + 1 = 1 /\ a + 1 - 1 = a /\ a <= a
          BY <2>2
        <5>3. QED
          BY <3>1, <5>1, <5>2
      <4>3. <<s>> \in Seq(D) /\ Len(<<s>>) = 1 /\ <<s>>[1] = s
        OBVIOUS
      <4>4. PICK o : o = <<s>>
        OBVIOUS
      <4>5. z = o
        BY <4>2, <4>3, <4>4, SeqEqual
      <4>6. QED
        BY <4>1, <4>4, <4>5
    <3>6. y = <<s>> \o w
      BY <2>3, <3>2, <3>3, <3>5
    <3>7. QED
      BY <3>1, <3>4, <3>6, KeyOfSolid
  <2>10. Strip(x) = y
    BY <1>3, <1>7, <2>1, <2>3
  <2>11. QED
    BY <2>4, <2>8, <2>9, <2>10
<1>8. QED
  BY <1>6, <1>7

-----------------------------------------------------------------------------
(* Paragraphs and chunks. *)

\* The texts with a word in them.
Worded(D) == {x \in Seq(D) : KeyOf(x) # <<>>}

\* Between the words of a text and those of its paragraphs nothing is lost.
LEMMA ParagraphsFacts ==
  ASSUME NEW D, NEW t \in Seq(D)
  PROVE  /\ Paragraphs(t) \in Seq(Worded(D))
         /\ KeyOf(FlattenSeq(Paragraphs(t))) = KeyOf(t)
<1>1. PICK n \in Nat : n = Len(t)
  BY LenProperties
<1>2. PICK spans : spans = Occurrences(t, BlankLine)
  OBVIOUS
<1>3. Len(BlankLine) = 2 /\ BlankLine \in Seq(Blank)
  BY DEF BlankLine, Blank
<1>4. /\ Apart(spans, n)
      /\ \A k \in 1..Len(spans) : /\ OccursAt(t, BlankLine, spans[k][1])
                                  /\ spans[k][2] = spans[k][1] + 2 - 1
  <2>1. PICK l \in Nat \ {0} : l = Len(BlankLine) /\ l = 2
    BY <1>3
  <2>2. Apart(spans, n) /\ Found(spans, t, BlankLine, l)
    BY <1>1, <1>2, <2>1, OccurrencesFacts
  <2>3. QED
    BY <2>1, <2>2 DEF Found
<1>5. PICK K \in Nat : K = Len(spans)
  BY <1>1, <1>4, SpansInOrder
<1>6. PICK g : g = Gaps(t, spans)
  OBVIOUS
<1>7. Parts(g, t, spans, n, K, D)
  BY <1>1, <1>4, <1>5, <1>6, GapsFacts
<1>8. PICK V : V = Seq(D)
  OBVIOUS
<1>9. PICK v : v = KeyMap(D)
  OBVIOUS
<1>10. v \in Replacements(D, D) /\ \A x \in V : KeyOf(x) = Spread(x, v) /\ KeyOf(x) \in V
  BY <1>8, <1>9, KeySpreads
<1>11. PICK z : z = [x \in V |-> Spread(x, v)]
  OBVIOUS
<1>12. z \in Replacements(V, D) /\ \A x \in V : z[x] = KeyOf(x)
  BY <1>8, <1>10, <1>11 DEF Replacements
<1>13. Spread(t, v) = Spread(g, z)
  <2>1. \A x \in Seq(D) : Whole(z, v, x)
    BY <1>8, <1>11 DEF Whole
  <2>2. ASSUME NEW k \in 1..K PROVE Empties(v, SubSeq(t, spans[k][1], spans[k][2]))
    <3>1. PICK a \in 1..n, b \in 1..n : a = spans[k][1] /\ b = spans[k][2]
      BY <1>1, <1>4, <1>5, SpansInOrder
    <3>2. OccursAt(t, BlankLine, a) /\ b = a + 2 - 1
      BY <1>4, <1>5, <3>1
    <3>3. SubSeq(t, a, b) = BlankLine
      BY <1>3, <3>2 DEF OccursAt
    <3>4. KeyOf(BlankLine) = <<>>
      BY <1>3, KeyOfBlanks
    <3>5. SubSeq(t, a, b) \in V
      <4>1. a \in 1..(n + 1) /\ b \in 0..n
        OBVIOUS
      <4>2. QED
        BY <1>1, <1>8, <4>1, SubSeqType
    <3>6. Spread(SubSeq(t, a, b), v) = <<>>
      BY <1>10, <3>3, <3>4, <3>5
    <3>7. QED
      BY <3>1, <3>6 DEF Empties
  <2>3. z \in Replacements(Seq(D), D)
    BY <1>8, <1>12
  <2>4. QED
    BY <1>1, <1>4, <1>5, <1>7, <1>10, <2>1, <2>2, <2>3, GapsSpread
<1>14. /\ g \in Arrays(K + 1, V) /\ K + 1 \in Nat /\ Len(g) = K + 1 /\ DOMAIN g = 1..(K + 1)
       /\ \A k \in 1..(K + 1) : g[k] \in V
  BY <1>7, <1>8 DEF Parts
<1>15. PICK E : E = {y \in V : y # <<>> => KeyOf(y) # <<>>}
  OBVIOUS
<1>16. PICK s : s = [k \in DOMAIN g |-> Strip(g[k])]
  OBVIOUS
<1>17. ASSUME NEW k \in 1..(K + 1) PROVE s[k] \in E /\ z[s[k]] = z[g[k]]
  <2>1. PICK x \in V : x = g[k] /\ s[k] = Strip(x)
    BY <1>14, <1>16
  <2>2. Strip(x) \in V /\ KeyOf(Strip(x)) = KeyOf(x)
        /\ (Strip(x) # <<>> => KeyOf(Strip(x)) # <<>>)
    BY <1>8, StripKeeps
  <2>3. QED
    BY <1>12, <1>15, <2>1, <2>2
<1>18. s \in Seq(E) /\ DOMAIN s = 1..(K + 1)
  <2>1. s \in Arrays(K + 1, E)
    BY <1>14, <1>16, <1>17 DEF Arrays
  <2>2. s \in Seq(E)
    BY <1>14, <2>1, ArrayIsSeq
  <2>3. QED
    BY <1>14, <1>16, <2>2
<1>19. Spread(s, z) = Spread(g, z)
  <2>1. [i \in DOMAIN s |-> z[s[i]]] = [i \in DOMAIN g |-> z[g[i]]]
    BY <1>14, <1>17, <1>18
  <2>2. QED
    BY <2>1 DEF Spread
<1>20. PICK ps : ps = Paragraphs(t)
  OBVIOUS
<1>21. ps = Without(s, {<<>>})
  <2>1. Split(t, BlankLine) = g
    BY <1>2, <1>6 DEF Split
  <2>2. QED
    BY <1>16, <1>20, <2>1 DEF Paragraphs
<1>22. PICK d : d = Dropping(E, {<<>>})
  OBVIOUS
<1>23. /\ d \in Replacements(E, E \ {<<>>}) /\ d \in Replacements(E, E)
       /\ ps = Spread(s, d)
  BY <1>18, <1>21, <1>22, WithoutSpreads
<1>24. ps \in Seq(E \ {<<>>}) /\ ps \in Seq(E)
  BY <1>18, <1>23, SpreadType
<1>25. E \ {<<>>} \subseteq Worded(D) /\ E \subseteq V
  BY <1>8, <1>15 DEF Worded
<1>26. ps \in Seq(Worded(D)) /\ ps \in Seq(V) /\ s \in Seq(V)
  BY <1>18, <1>24, <1>25, SeqMonotonic
<1>27. PICK ze : ze = [x \in E |-> Spread(x, v)]
  OBVIOUS
<1>28. /\ ze \in Replacements(E, D)
       /\ \A x \in E : ze[x] = Spread(x, v) /\ ze[x] = z[x]
  BY <1>10, <1>11, <1>25, <1>27, <1>12 DEF Replacements
<1>29. PICK id : id = [x \in E |-> x]
  OBVIOUS
<1>30. id \in Replacements(E, D) /\ \A x \in E : id[x] = x
  BY <1>8, <1>25, <1>29 DEF Replacements
<1>31. FlattenSeq(ps) = Spread(ps, id)
  <2>1. DOMAIN ps = 1..Len(ps) /\ \A i \in 1..Len(ps) : ps[i] \in E
    BY <1>24, LenProperties, ElementOfSeq
  <2>2. ps = [i \in 1..Len(ps) |-> ps[i]]
    BY <1>24
  <2>3. [i \in DOMAIN ps |-> id[ps[i]]] = ps
    BY <1>30, <2>1, <2>2
  <2>4. QED
    BY <2>3 DEF Spread
<1>32. Spread(Spread(ps, id), v) = Spread(ps, ze)
  <2>1. \A a \in E : InTurn(ze, id, v, a)
    BY <1>28, <1>30 DEF InTurn
  <2>2. QED
    BY <1>10, <1>24, <1>28, <1>30, <2>1, SpreadTwice
<1>33. Spread(Spread(s, d), ze) = Spread(s, ze)
  <2>1. ASSUME NEW a \in E PROVE InTurn(ze, d, ze, a)
    <3>1. CASE a = <<>>
      <4>1. d[a] = <<>>
        BY <1>22, <3>1 DEF Dropping
      <4>2. ze[a] = <<>>
        BY <1>28, <3>1, SpreadEmpty
      <4>3. QED
        BY <4>1, <4>2, SpreadEmpty DEF InTurn
    <3>2. CASE a # <<>>
      <4>1. d[a] = <<a>>
        BY <1>22, <3>2 DEF Dropping
      <4>2. Spread(<<a>>, ze) = ze[a]
        BY <1>28, SpreadOne
      <4>3. QED
        BY <4>1, <4>2 DEF InTurn
    <3>3. QED
      BY <3>1, <3>2
  <2>2. QED
    BY <1>18, <1>23, <1>28, <2>1, SpreadTwice
<1>34. Spread(s, ze) = Spread(s, z)
  <2>1. \A i \in 1..Len(s) : Alike(ze, z, s[i])
    BY <1>18, <1>28, ElementOfSeq DEF Alike
  <2>2. QED
    BY <1>18, <2>1, SpreadSame
<1>35. FlattenSeq(ps) \in V
  BY <1>8, <1>26, FlattenFacts
<1>36. KeyOf(FlattenSeq(ps)) = Spread(FlattenSeq(ps), v)
  BY <1>10, <1>35
<1>37. KeyOf(t) = Spread(t, v)
  BY <1>8, <1>10
<1>38. KeyOf(FlattenSeq(ps)) = KeyOf(t)
  BY <1>13, <1>19, <1>23, <1>31, <1>32, <1>33, <1>34, <1>36, <1>37
<1>39. QED
  BY <1>20, <1>26, <1>38

\* A chunk with the summary in front.
LEMMA SummaryInFront ==
  ASSUME NEW D, {"S", "sp", "nl"} \subseteq D, NEW x \in Seq(D)
  PROVE  /\ (<<"S">> \o BlankLine) \o x \in Seq(D)
         /\ KeyOf((<<"S">> \o BlankLine) \o x) = <<"S">> \o KeyOf(x)
         /\ KeyOf((<<"S">> \o BlankLine) \o x) # <<>>
<1>1. PICK o, b : o = <<"S">> /\ b = BlankLine
  OBVIOUS
<1>2. o \in Seq(D) /\ b \in Seq(D) /\ b \in Seq(Blank)
  BY <1>1 DEF BlankLine, Blank
<1>3. "S" \in D /\ "S" \notin Blank
  BY DEF Blank
<1>4. (o \o b) \o x = o \o (b \o x)
  BY <1>2, Associative
<1>5. b \o x \in Seq(D) /\ o \o b \in Seq(D)
  BY <1>2, ConcatProperties
<1>6. (o \o b) \o x \in Seq(D)
  <2>1. PICK c : c = o \o b
    OBVIOUS
  <2>2. QED
    BY <1>5, <2>1, ConcatProperties
<1>7. KeyOf(b \o x) = KeyOf(x)
  <2>1. KeyOf(b \o x) = KeyOf(b) \o KeyOf(x)
    BY <1>2, KeyConcat
  <2>2. KeyOf(b) = <<>>
    BY <1>2, KeyOfBlanks
  <2>3. KeyOf(x) \in Seq(D)
    BY KeySpreads
  <2>4. QED
    BY <2>1, <2>2, <2>3, ConcatEmptySeq
<1>8. PICK y : y = b \o x
  OBVIOUS
<1>9. KeyOf(<<"S">> \o y) = <<"S">> \o KeyOf(y) /\ KeyOf(<<"S">> \o y) # <<>>
  BY <1>3, <1>5, <1>8, KeyOfSolid
<1>10. QED
  BY <1>1, <1>4, <1>6, <1>7, <1>8, <1>9

LEMMA FlattenFirst ==
  ASSUME NEW S, NEW x \in Seq(S), NEW s \in Seq(Seq(S))
  PROVE  FlattenSeq(<<x>> \o s) = x \o FlattenSeq(s)
<1>1. <<x>> \in Seq(Seq(S))
  OBVIOUS
<1>2. PICK o : o = <<x>>
  OBVIOUS
<1>3. FlattenSeq(o \o s) = FlattenSeq(o) \o FlattenSeq(s)
  BY <1>1, <1>2, FlattenConcat
<1>4. <<>> \in Seq(Seq(S)) /\ Append(<<>>, x) = <<x>>
  BY EmptySeq
<1>5. FlattenSeq(Append(<<>>, x)) = FlattenSeq(<<>>) \o x /\ FlattenSeq(<<>>) = <<>>
  BY <1>4, FlattenFacts
<1>6. <<>> \o x = x
  BY ConcatEmptySeq
<1>7. QED
  BY <1>2, <1>3, <1>4, <1>5, <1>6

LEMMA JoinThree ==
  \A S : \A a, b, d \in Seq(S) : (a \o b) \o d = a \o (b \o d)
<1>1. ASSUME NEW S, NEW a \in Seq(S), NEW b \in Seq(S), NEW d \in Seq(S)
      PROVE  (a \o b) \o d = a \o (b \o d)
  BY ConcatAssociative
<1>2. QED
  BY <1>1

Rejoins(a, b, d) == (a \o b) \o d = a \o (b \o d)

LEMMA Rejoining ==
  ASSUME NEW S
  PROVE  \A a, b, d \in Seq(S) : Rejoins(a, b, d)
BY JoinThree DEF Rejoins

ChunksHold(c, t) ==
  /\ KeyOf(FlattenSeq(c)) = <<"S">> \o KeyOf(t)
  /\ \A k \in DOMAIN c : KeyOf(c[k]) # <<>>

LEMMA ChunksFacts ==
  ASSUME NEW D, {"S", "sp", "nl"} \subseteq D, NEW t \in Seq(D), NEW limit
  PROVE  ChunksHold(BuildChunks(<<"S">>, t, limit), t)
<1>0. \A a, b, d \in Seq(D) : Rejoins(a, b, d)
  BY Rejoining
<1>1. PICK c, ps, sb : /\ c = BuildChunks(<<"S">>, t, limit) /\ ps = Paragraphs(t)
                       /\ sb = <<"S">> \o BlankLine
  OBVIOUS
<1>2. \A x \in Seq(D) : /\ sb \o x \in Seq(D)
                         /\ KeyOf(sb \o x) = <<"S">> \o KeyOf(x) /\ KeyOf(sb \o x) # <<>>
  <2>1. ASSUME NEW x \in Seq(D)
        PROVE  /\ sb \o x \in Seq(D)
               /\ KeyOf(sb \o x) = <<"S">> \o KeyOf(x) /\ KeyOf(sb \o x) # <<>>
    BY <1>1, SummaryInFront
  <2>2. QED
    BY <2>1
<1>3. CASE Len(t) <= limit \/ ps = <<>>
  <2>1. PICK x : x = sb \o t
    OBVIOUS
  <2>2. c = <<x>>
    BY <1>1, <1>3, <2>1 DEF BuildChunks
  <2>3. x \in Seq(D) /\ KeyOf(x) = <<"S">> \o KeyOf(t) /\ KeyOf(x) # <<>>
    BY <1>2, <2>1
  <2>4. FlattenSeq(c) = x
    <3>1. <<>> \in Seq(Seq(D)) /\ <<x>> \in Seq(Seq(D))
      BY <2>3, EmptySeq
    <3>2. FlattenSeq(<<x>> \o <<>>) = x \o FlattenSeq(<<>>) /\ FlattenSeq(<<>>) = <<>>
      BY <2>3, <3>1, FlattenFirst, FlattenFacts
    <3>3. PICK o : o = <<x>>
      OBVIOUS
    <3>4. o \o <<>> = o /\ x \o <<>> = x
      BY <2>3, <3>1, <3>3, ConcatEmptySeq
    <3>5. QED
      BY <2>2, <3>2, <3>3, <3>4
  <2>5. \A k \in DOMAIN c : c[k] = x
    BY <2>2
  <2>6. QED
    BY <1>1, <2>3, <2>4, <2>5 DEF ChunksHold
<1>4. CASE ~ (Len(t) <= limit \/ ps = <<>>)
  <2>1. PICK W : W = Worded(D)
    OBVIOUS
  <2>2. /\ ps \in Seq(W) /\ ps # <<>> /\ KeyOf(FlattenSeq(ps)) = KeyOf(t)
    BY <1>1, <1>4, <2>1, ParagraphsFacts
  <2>3. W \subseteq Seq(D) /\ \A y \in W : KeyOf(y) # <<>>
    BY <2>1 DEF Worded
  <2>4. PICK r : r = Tail(ps)
    OBVIOUS
  <2>5. Len(ps) \in Nat /\ Len(ps) # 0 /\ 1 \in 1..Len(ps) /\ Len(ps) \in 1..Len(ps)
    <3>1. Len(ps) \in Nat /\ Len(ps) # 0
      BY <2>2, LenProperties, EmptySeq
    <3>2. QED
      BY <3>1
  <2>6. r \in Seq(W) /\ r = SubSeq(ps, 2, Len(ps))
    BY <2>2, <2>4, HeadTailProperties, TailIsSubSeq
  <2>7. PICK p \in W : p = ps[1]
    BY <2>2, <2>5, ElementOfSeq
  <2>8. ps = <<p>> \o r
    <3>1. SubSeq(ps, 1, Len(ps)) = <<ps[1]>> \o SubSeq(ps, 1 + 1, Len(ps))
      BY <2>2, <2>5, SubSeqRecursiveFirst
    <3>2. SubSeq(ps, 1, Len(ps)) = ps
      BY <2>2, SubSeqFull
    <3>3. QED
      BY <2>6, <2>7, <3>1, <3>2
  <2>9. PICK x \in Seq(D) : x = sb \o p
    BY <1>2, <2>3
  <2>10. c = <<x>> \o r
    BY <1>1, <1>4, <2>4, <2>7, <2>9 DEF BuildChunks
  <2>11. r \in Seq(Seq(D)) /\ p \in Seq(D)
    BY <2>3, <2>6, SeqMonotonic
  <2>12. PICK f \in Seq(D) : f = FlattenSeq(r)
    BY <2>11, FlattenFacts
  <2>13. FlattenSeq(ps) = p \o f /\ FlattenSeq(c) = x \o f
    BY <2>8, <2>10, <2>11, <2>12, FlattenFirst
  <2>14. KeyOf(p \o f) = KeyOf(p) \o KeyOf(f) /\ KeyOf(x \o f) = KeyOf(x) \o KeyOf(f)
    BY <2>11, KeyConcat
  <2>15. KeyOf(x) = <<"S">> \o KeyOf(p) /\ KeyOf(x) # <<>>
    BY <1>2, <2>9, <2>11
  <2>16. PICK o \in Seq(D), kp \in Seq(D), kf \in Seq(D) :
           o = <<"S">> /\ kp = KeyOf(p) /\ kf = KeyOf(f)
    <3>1. <<"S">> \in Seq(D)
      OBVIOUS
    <3>2. KeyOf(p) \in Seq(D) /\ KeyOf(f) \in Seq(D)
      BY <2>11, KeySpreads
    <3>3. QED
      BY <3>1, <3>2
  <2>17. (o \o kp) \o kf = o \o (kp \o kf)
    <3>1. Rejoins(o, kp, kf)
      BY <1>0
    <3>2. QED
      BY <3>1 DEF Rejoins
  <2>18. KeyOf(FlattenSeq(c)) = <<"S">> \o KeyOf(t)
    BY <2>2, <2>13, <2>14, <2>15, <2>16, <2>17
  <2>19. ASSUME NEW k \in DOMAIN c PROVE KeyOf(c[k]) # <<>>
    <3>1. PICK X : X = Seq(D)
      OBVIOUS
    <3>2. PICK h : h = <<x>>
      OBVIOUS
    <3>3. h \in Seq(X) /\ Len(h) = 1 /\ h[1] = x /\ r \in Seq(X)
      BY <2>11, <3>1, <3>2
    <3>4. Joins(c, h, r, X)
      BY <2>10, <3>2, <3>3, Joining
    <3>5. Len(r) \in Nat /\ DOMAIN c = 1..Len(c) /\ Len(c) = 1 + Len(r)
      BY <3>3, <3>4, LenProperties DEF Joins
    <3>6. k \in 1..(1 + Len(r)) /\ c[k] = IF k <= 1 THEN h[k] ELSE r[k - 1]
      BY <3>3, <3>4, <3>5 DEF Joins
    <3>7. CASE k = 1
      BY <2>15, <3>3, <3>6, <3>7
    <3>8. CASE k # 1
      <4>1. k - 1 \in 1..Len(r) /\ ~ (k <= 1)
        BY <3>5, <3>6, <3>8
      <4>2. r[k - 1] \in W
        BY <2>6, <4>1, ElementOfSeq
      <4>3. QED
        BY <2>3, <3>6, <4>1, <4>2
    <3>9. QED
      BY <3>7, <3>8
  <2>20. QED
    BY <1>1, <2>18, <2>19 DEF ChunksHold
<1>5. QED
  BY <1>3, <1>4

-----------------------------------------------------------------------------
(***************************************************************************)
(* Fragments of a masked text in their order.  Taking each at its first    *)
(* place is no restriction: what is found early leaves more room for the   *)
(* rest.                                                                   *)
(***************************************************************************)

LEMMA BehindType ==
  ASSUME NEW D, NEW w \in Seq(D)
  PROVE  Behind(w) \in Seq(D)
<1>1. PICK n \in Nat : n = Len(w)
  BY LenProperties
<1>2. PICK A : A = {i \in 1..n : w[i] = "]"}
  OBVIOUS
<1>3. CASE A = {}
  BY <1>1, <1>2, <1>3 DEF Behind
<1>4. CASE A # {}
  <2>1. Min(A) \in A
    BY <1>2, <1>4, MinFacts
  <2>2. PICK m \in 1..n : m = Min(A)
    BY <1>2, <2>1
  <2>3. SubSeq(w, m + 1, n) \in Seq(D)
    BY <1>1, <2>2, SubSeqProperties
  <2>4. QED
    BY <1>1, <1>2, <1>4, <2>2, <2>3 DEF Behind
<1>5. QED
  BY <1>3, <1>4

LEMMA FragmentsFacts ==
  ASSUME NEW D, NEW t \in Seq(D)
  PROVE  Fragments(t) \in Seq(Seq(D) \ {<<>>})
<1>1. PICK V, p, c, s : /\ V = Seq(D) /\ p = <<"[">> /\ c = Split(t, p)
                         /\ s = [k \in DOMAIN c |-> Behind(c[k])]
  OBVIOUS
<1>2. Len(p) \in Nat \ {0}
  BY <1>1
<1>3. c \in Seq(V)
  BY <1>1, <1>2, SplitFacts
<1>4. s \in Seq(V)
  <2>1. PICK n \in Nat : n = Len(c) /\ DOMAIN c = 1..n
    BY <1>3, LenProperties
  <2>2. \A k \in 1..n : Behind(c[k]) \in V
    BY <1>1, <1>3, <2>1, BehindType
  <2>3. QED
    BY <1>1, <2>1, <2>2, IsASeq
<1>5. Without(s, {<<>>}) \in Seq(V \ {<<>>})
  <2>1. PICK E, W : E = {<<>>} /\ W = V \ E
    OBVIOUS
  <2>2. PICK d : d = Dropping(V, E)
    OBVIOUS
  <2>3. s \in Seq(V)
    BY <1>3, <1>4
  <2>4. d \in Replacements(V, W) /\ Without(s, E) = Spread(s, d)
    BY <2>1, <2>2, <2>3, WithoutSpreads
  <2>5. Spread(s, d) \in Seq(W)
    BY <2>3, <2>4, SpreadType
  <2>6. QED
    BY <2>1, <2>4, <2>5
<1>6. QED
  BY <1>1, <1>4, <1>5 DEF Fragments

\* Where f is found in o from s on: at its first place, or behind the end.
FoundAt(F, o, f, s) ==
  \/ /\ F \in Nat /\ s <= F /\ F <= Len(o) /\ OccursAt(o, f, F)
     /\ \A i \in s..Len(o) : OccursAt(o, f, i) => F <= i
  \/ F = Len(o) + 1 /\ \A i \in s..Len(o) : ~ OccursAt(o, f, i)

LEMMA FindFacts ==
  ASSUME NEW o, Len(o) \in Nat, NEW f, NEW s \in Nat
  PROVE  FoundAt(Find(o, f, s), o, f, s)
<1>1. PICK n \in Nat : n = Len(o)
  OBVIOUS
<1>2. PICK A : A = {i \in s..n : OccursAt(o, f, i)}
  OBVIOUS
<1>3. PICK B : B = A \cup {n + 1}
  OBVIOUS
<1>4. B \in SUBSET Nat /\ B # {}
  BY <1>2, <1>3
<1>5. PICK F \in B : F = Min(B) /\ \A x \in B : F <= x
  BY <1>4, MinFacts
<1>6. Find(o, f, s) = F
  BY <1>1, <1>2, <1>3, <1>5 DEF Find
<1>7. CASE A = {}
  <2>1. F = n + 1
    BY <1>3, <1>5, <1>7
  <2>2. \A i \in s..n : ~ OccursAt(o, f, i)
    BY <1>2, <1>7
  <2>3. QED
    BY <1>1, <1>6, <2>1, <2>2 DEF FoundAt
<1>8. CASE A # {}
  <2>1. PICK a \in A : a \in s..n
    BY <1>2, <1>8
  <2>2. F <= a /\ F # n + 1
    <3>1. F \in Nat /\ a \in Nat /\ a <= n
      BY <1>4, <2>1
    <3>2. F <= a
      BY <1>3, <1>5
    <3>3. QED
      BY <3>1, <3>2
  <2>3. F \in A
    BY <1>3, <1>5, <2>2
  <2>4. F \in Nat /\ s <= F /\ F <= n /\ OccursAt(o, f, F)
    BY <1>2, <2>3
  <2>5. \A i \in s..n : OccursAt(o, f, i) => F <= i
    BY <1>2, <1>3, <1>5
  <2>6. QED
    BY <1>1, <1>6, <2>4, <2>5 DEF FoundAt
<1>9. QED
  BY <1>7, <1>8

\* Each fragment at its first place after the one before.
Greedy(pos, fs, o, n) ==
  pos = [k \in 0..n |-> IF k = 0 THEN 1 ELSE Find(o, fs[k], pos[k - 1]) + Len(fs[k])]

LEMMA GreedyExists ==
  ASSUME NEW fs, NEW o, NEW n \in Nat
  PROVE  \E pos : Greedy(pos, fs, o, n)
<1>. DEFINE T == {m \in Nat : \E pos : Greedy(pos, fs, o, m)}
<1>1. 0 \in T
  <2>. DEFINE f == [k \in 0..0 |-> 1]
  <2>1. f = [k \in 0..0 |-> IF k = 0 THEN 1 ELSE Find(o, fs[k], f[k - 1]) + Len(fs[k])]
    OBVIOUS
  <2>2. QED
    BY <2>1 DEF Greedy
<1>2. ASSUME NEW m \in Nat, m \in T PROVE m + 1 \in T
  <2>1. PICK f : Greedy(f, fs, o, m)
    BY <1>2
  <2>2. PICK g : g = [k \in 0..(m + 1) |-> IF k = m + 1
                        THEN Find(o, fs[m + 1], f[m]) + Len(fs[m + 1]) ELSE f[k]]
    OBVIOUS
  <2>3. PICK G : G = [k \in 0..(m + 1) |->
                        IF k = 0 THEN 1 ELSE Find(o, fs[k], g[k - 1]) + Len(fs[k])]
    OBVIOUS
  <2>4. ASSUME NEW k \in 0..(m + 1) PROVE g[k] = G[k]
    <3>1. CASE k = m + 1
      <4>1. k # 0 /\ k - 1 = m /\ m \in 0..(m + 1) /\ m # m + 1
        BY <3>1
      <4>2. g[k - 1] = f[m]
        BY <2>2, <4>1
      <4>3. G[k] = Find(o, fs[k], g[k - 1]) + Len(fs[k])
        BY <2>3, <4>1
      <4>4. g[k] = Find(o, fs[m + 1], f[m]) + Len(fs[m + 1])
        BY <2>2, <3>1
      <4>5. QED
        BY <3>1, <4>2, <4>3, <4>4
    <3>2. CASE k # m + 1 /\ k # 0
      <4>1. k \in 0..m /\ k - 1 \in 0..(m + 1) /\ k - 1 # m + 1
        BY <3>2
      <4>2. g[k - 1] = f[k - 1] /\ g[k] = f[k]
        BY <2>2, <3>2, <4>1
      <4>3. f[k] = Find(o, fs[k], f[k - 1]) + Len(fs[k])
        BY <2>1, <3>2, <4>1 DEF Greedy
      <4>4. G[k] = Find(o, fs[k], g[k - 1]) + Len(fs[k])
        BY <2>3, <3>2
      <4>5. QED
        BY <4>2, <4>3, <4>4
    <3>3. CASE k = 0
      <4>1. 0 \in 0..m /\ 0 # m + 1
        OBVIOUS
      <4>2. f[0] = 1
        BY <2>1, <4>1 DEF Greedy
      <4>3. QED
        BY <2>2, <2>3, <3>3, <4>1, <4>2
    <3>4. QED
      BY <3>1, <3>2, <3>3
  <2>5. g = G
    BY <2>2, <2>3, <2>4
  <2>6. Greedy(g, fs, o, m + 1)
    BY <2>3, <2>5 DEF Greedy
  <2>7. QED
    BY <2>6
<1>. HIDE DEF T
<1>3. n \in T
  BY <1>1, <1>2, Induction
<1>4. QED
  BY <1>3 DEF T

\* last[k] is where the k-th fragment ends in o.
EndsAt(last, fs, o, n) ==
  /\ last \in [0..n -> 0..Len(o)] /\ last[0] = 0
  /\ \A k \in 1..n : /\ last[k] - Len(fs[k]) + 1 > last[k - 1]
                     /\ OccursAt(o, fs[k], last[k] - Len(fs[k]) + 1)

LEMMA GreedyFinds ==
  ASSUME NEW fs, NEW n \in Nat, NEW o, NEW L \in Nat, L = Len(o),
         \A k \in 1..n : Len(fs[k]) \in Nat \ {0},
         NEW pos, Greedy(pos, fs, o, n)
  PROVE  pos[n] <= L + 1 <=> \E last : EndsAt(last, fs, o, n)
<1>1. /\ pos[0] = 1
      /\ \A k \in 1..n : pos[k] = Find(o, fs[k], pos[k - 1]) + Len(fs[k])
  <2>1. 0 \in 0..n /\ \A k \in 1..n : k \in 0..n /\ k # 0
    OBVIOUS
  <2>2. QED
    BY <2>1 DEF Greedy
<1>2. ASSUME NEW k \in 1..n, pos[k - 1] \in Nat
      PROVE  \E F \in Nat : /\ pos[k] = F + Len(fs[k]) /\ pos[k] \in Nat
                            /\ FoundAt(F, o, fs[k], pos[k - 1])
  <2>1. PICK F : F = Find(o, fs[k], pos[k - 1])
    OBVIOUS
  <2>2. FoundAt(F, o, fs[k], pos[k - 1])
    BY <1>2, <2>1, FindFacts
  <2>3. F \in Nat
    BY <2>2 DEF FoundAt
  <2>4. pos[k] = F + Len(fs[k])
    BY <1>1, <2>1
  <2>5. QED
    BY <2>2, <2>3, <2>4
\* The steps of the search.
<1>. DEFINE Good(j) == /\ pos[j] \in 1..(L + 1)
                       /\ pos[j] - Len(fs[j]) >= pos[j - 1]
                       /\ OccursAt(o, fs[j], pos[j] - Len(fs[j]))
            T == {k \in Nat : k <= n => /\ pos[k] \in Nat
                                        /\ pos[k] <= L + 1 => \A j \in 1..k : Good(j)}
<1>3. 0 \in T
  BY <1>1
<1>4. ASSUME NEW k \in Nat, k \in T PROVE k + 1 \in T
  <2>1. SUFFICES ASSUME k + 1 <= n
                 PROVE  /\ pos[k + 1] \in Nat
                        /\ pos[k + 1] <= L + 1 => \A j \in 1..(k + 1) : Good(j)
    BY DEF T
  <2>2. k <= n /\ k + 1 \in 1..n /\ (k + 1) - 1 = k
    BY <2>1
  <2>3. pos[k] \in Nat /\ (pos[k] <= L + 1 => \A j \in 1..k : Good(j))
    <3>. HIDE DEF Good
    <3>1. QED
      BY <1>4, <2>2
  <2>4. PICK F \in Nat : /\ pos[k + 1] = F + Len(fs[k + 1]) /\ pos[k + 1] \in Nat
                         /\ FoundAt(F, o, fs[k + 1], pos[k])
    BY <1>2, <2>2, <2>3
  <2>5. ASSUME pos[k + 1] <= L + 1, NEW j \in 1..(k + 1) PROVE Good(j)
    <3>1. PICK l \in Nat \ {0} : l = Len(fs[k + 1])
      BY <2>2
    <3>2. PICK q \in Nat, s \in Nat : q = pos[k + 1] /\ s = pos[k]
      BY <2>3, <2>4
    <3>3. q = F + l /\ q <= L + 1 /\ F # L + 1
      BY <2>4, <2>5, <3>1, <3>2
    <3>4. s <= F /\ F <= L /\ OccursAt(o, fs[k + 1], F)
      BY <2>4, <3>2, <3>3 DEF FoundAt
    <3>5. CASE j = k + 1
      <4>1. q \in 1..(L + 1) /\ q - l = F /\ j - 1 = k
        BY <3>3, <3>5
      <4>2. QED
        BY <3>1, <3>2, <3>4, <3>5, <4>1
    <3>6. CASE j # k + 1
      <4>1. j \in 1..k
        BY <3>6
      <4>2. s <= L + 1
        BY <3>4
      <4>. HIDE DEF Good
      <4>3. QED
        BY <2>3, <3>2, <4>1, <4>2
    <3>7. QED
      BY <3>5, <3>6
  <2>. HIDE DEF Good
  <2>6. QED
    BY <2>4, <2>5
<1>5. n \in T
  <2>. HIDE DEF T
  <2>1. QED
    BY <1>3, <1>4, Induction
<1>6. ASSUME pos[n] <= L + 1 PROVE \E last : EndsAt(last, fs, o, n)
  <2>1. \A j \in 1..n : Good(j)
    <3>. HIDE DEF Good
    <3>1. QED
      BY <1>5, <1>6
  <2>2. PICK last : last = [k \in 0..n |-> pos[k] - 1]
    OBVIOUS
  <2>3. \A k \in 0..n : pos[k] \in 1..(L + 1)
    <3>1. ASSUME NEW k \in 0..n PROVE pos[k] \in 1..(L + 1)
      <4>1. k = 0 \/ k \in 1..n
        OBVIOUS
      <4>2. QED
        BY <1>1, <2>1, <4>1
    <3>2. QED
      BY <3>1
  <2>4. last \in [0..n -> 0..L] /\ last[0] = 0
    BY <1>1, <2>2, <2>3
  <2>5. ASSUME NEW k \in 1..n
        PROVE  /\ last[k] - Len(fs[k]) + 1 > last[k - 1]
               /\ OccursAt(o, fs[k], last[k] - Len(fs[k]) + 1)
    <3>1. k \in 0..n /\ k - 1 \in 0..n
      OBVIOUS
    <3>2. PICK q \in 1..(L + 1), s \in 1..(L + 1), l \in Nat :
            q = pos[k] /\ s = pos[k - 1] /\ l = Len(fs[k])
      BY <2>3, <3>1
    <3>3. last[k] = q - 1 /\ last[k - 1] = s - 1
      BY <2>2, <3>1, <3>2
    <3>4. q - l >= s /\ OccursAt(o, fs[k], q - l)
      BY <2>1, <3>2
    <3>5. (q - 1) - l + 1 = q - l /\ q - l > s - 1
      BY <3>4
    <3>6. QED
      BY <3>2, <3>3, <3>4, <3>5
  <2>6. QED
    BY <2>4, <2>5 DEF EndsAt
<1>7. ASSUME NEW last, EndsAt(last, fs, o, n) PROVE pos[n] <= L + 1
  <2>. DEFINE U == {k \in Nat : k <= n => pos[k] \in Nat /\ pos[k] <= last[k] + 1}
  <2>1. \A k \in 0..n : last[k] \in 0..L
    BY <1>7 DEF EndsAt
  <2>2. 0 \in U
    BY <1>1, <1>7 DEF EndsAt
  <2>3. ASSUME NEW k \in Nat, k \in U PROVE k + 1 \in U
    <3>1. SUFFICES ASSUME k + 1 <= n
                   PROVE  pos[k + 1] \in Nat /\ pos[k + 1] <= last[k + 1] + 1
      OBVIOUS
    <3>2. k <= n /\ k + 1 \in 1..n /\ (k + 1) - 1 = k /\ k \in 0..n /\ k + 1 \in 0..n
      BY <3>1
    <3>3. pos[k] \in Nat /\ pos[k] <= last[k] + 1
      BY <2>3, <3>2
    <3>4. PICK F \in Nat : /\ pos[k + 1] = F + Len(fs[k + 1]) /\ pos[k + 1] \in Nat
                           /\ FoundAt(F, o, fs[k + 1], pos[k])
      BY <1>2, <3>2, <3>3
    <3>5. PICK l \in Nat \ {0}, a \in 0..L, b \in 0..L, s \in Nat :
            l = Len(fs[k + 1]) /\ a = last[k] /\ b = last[k + 1] /\ s = pos[k]
      BY <2>1, <3>2, <3>3
    <3>6. PICK c : c = b - l + 1
      OBVIOUS
    <3>7. c > a /\ OccursAt(o, fs[k + 1], c)
      BY <1>7, <3>2, <3>5, <3>6 DEF EndsAt
    <3>8. c \in Nat /\ c <= L /\ s <= c
      <4>1. s <= a + 1
        BY <3>3, <3>5
      <4>2. c > a
        BY <3>7
      <4>3. QED
        BY <3>6, <4>1, <4>2
    <3>9. F <= c
      <4>1. c \in s..L
        BY <3>8
      <4>2. QED
        BY <3>4, <3>5, <3>7, <4>1 DEF FoundAt
    <3>10. QED
      BY <3>4, <3>5, <3>6, <3>8, <3>9
  <2>. HIDE DEF U
  <2>4. n \in U
    BY <2>2, <2>3, Induction
  <2>5. pos[n] \in Nat /\ pos[n] <= last[n] + 1 /\ last[n] \in 0..L
    BY <2>1, <2>4 DEF U
  <2>6. QED
    BY <2>5
<1>8. QED
  BY <1>6, <1>7

=============================================================================
