-------------------------- MODULE TextCasesProofs ---------------------------
(* Proofs about the rules for texts: TextCases, for texts of every length. *)
EXTENDS TextCases, TextLemmas, FiniteSetTheorems

-----------------------------------------------------------------------------
(* Texts. *)

\* The symbols that the texts of a rule are written with.
Symbols(r) == UNION {Range(p) : p \in PiecesOf[r]}

Written == rule \in Rules /\ pieces \in Seq(PiecesOf[rule])

LEMMA WrittenInit == Init => Written
<1>1. ASSUME NEW A PROVE <<>> \in Seq(A)
  BY EmptySeq
<1>2. QED
  BY <1>1 DEF Init, Written

LEMMA WrittenStep == Written /\ [Extend]_vars => Written'
<1>. SUFFICES ASSUME Written, [Extend]_vars PROVE Written'
  OBVIOUS
<1>1. CASE Extend
  <2>1. PICK p \in PiecesOf[rule] : pieces' = Append(pieces, p)
    BY <1>1 DEF Extend
  <2>2. pieces' \in Seq(PiecesOf[rule])
    BY <2>1, AppendProperties DEF Written
  <2>3. QED
    BY <1>1, <2>2 DEF Extend, Written
<1>2. CASE UNCHANGED vars
  BY <1>2 DEF vars, Written
<1>3. QED
  BY <1>1, <1>2

THEOREM WrittenHolds == Spec => []Written
BY WrittenInit, WrittenStep, PTL DEF Spec

LEMMA TextType ==
  ASSUME Written
  PROVE  pieces \in Seq(Seq(Symbols(rule))) /\ text \in Seq(Symbols(rule))
<1>1. ASSUME NEW p \in PiecesOf[rule] PROVE p \in Seq(Symbols(rule))
  <2>1. p \in Seq(Range(p))
    BY TextAssumption DEF Written, IsText
  <2>2. Range(p) \subseteq Symbols(rule)
    BY DEF Symbols
  <2>3. QED
    BY <2>1, <2>2, SeqMonotonic
<1>2. PiecesOf[rule] \subseteq Seq(Symbols(rule))
  BY <1>1
<1>3. pieces \in Seq(Seq(Symbols(rule)))
  BY <1>2, SeqMonotonic DEF Written
<1>4. QED
  BY <1>3, FlattenFacts DEF text

-----------------------------------------------------------------------------
(* Citations. *)

CitationEnds(t) ==
  [i \in 1..Len(t) |-> Max({j \in i..Len(t) : IsCitation(t, i, j)} \cup {0})]

\* A citation ends at one place only.
LEMMA CitationEndsWhere ==
  ASSUME NEW t, Len(t) \in Nat
  PROVE  /\ CitationEnds(t) \in Ends(Len(t))
         /\ \A i, j \in 1..Len(t) : CitationEnds(t)[i] = j <=> IsCitation(t, i, j)
<1>. DEFINE n    == Len(t)
            A(i) == {j \in i..n : IsCitation(t, i, j)} \cup {0}
            e    == CitationEnds(t)
<1>1. ASSUME NEW i \in 1..n
      PROVE  /\ e[i] \in 0..n
             /\ e[i] # 0 => e[i] \in i..n /\ IsCitation(t, i, e[i])
             /\ \A j \in 1..n : IsCitation(t, i, j) => j <= e[i] /\ e[i] # 0
  <2>1. A(i) \in SUBSET (0..n) /\ A(i) # {} /\ n \in Nat
    OBVIOUS
  <2>2. e[i] = Max(A(i))
    BY DEF CitationEnds
  <2>3. Max(A(i)) \in A(i) /\ \A j \in A(i) : j <= Max(A(i))
    BY <2>1, MaxFacts
  <2>4. ASSUME NEW j \in 1..n, IsCitation(t, i, j) PROVE j \in A(i)
    BY <2>4 DEF IsCitation
  <2>. HIDE DEF e
  <2>5. e[i] \in A(i) /\ \A j \in A(i) : j <= e[i]
    BY <2>2, <2>3
  <2>6. QED
    BY <2>4, <2>5
<1>2. ASSUME NEW i \in 1..n, NEW j \in 1..n, NEW k \in 1..n,
             IsCitation(t, i, j), IsCitation(t, i, k), j < k
      PROVE  FALSE
  <2>1. j \in (i + 1)..(k - 1) /\ t[j] = "]"
    BY <1>2 DEF IsCitation
  <2>2. t[j] \in CiteDigits
    BY <1>2, <2>1 DEF IsCitation
  <2>3. QED
    BY <2>1, <2>2 DEF CiteDigits
<1>3. e \in [1..n -> 0..n]
  <2>1. \A i \in 1..n : e[i] \in 0..n
    BY <1>1
  <2>2. QED
    BY <2>1 DEF CitationEnds
<1>. HIDE DEF e
<1>4. e \in Ends(n)
  BY <1>1, <1>3 DEF Ends
<1>5. ASSUME NEW i \in 1..n, NEW j \in 1..n PROVE e[i] = j <=> IsCitation(t, i, j)
  <2>1. ASSUME e[i] = j PROVE IsCitation(t, i, j)
    BY <1>1, <2>1
  <2>2. ASSUME IsCitation(t, i, j) PROVE e[i] = j
    <3>1. e[i] \in 1..n /\ IsCitation(t, i, e[i]) /\ j <= e[i]
      BY <1>1, <2>2
    <3>2. ~ (j < e[i])
      BY <1>2, <2>2, <3>1
    <3>3. QED
      BY <3>1, <3>2
  <2>3. QED
    BY <2>1, <2>2
<1>6. QED
  BY <1>4, <1>5 DEF e

\* Taking the matches from the left misses no citation.
LEMMA ParsingFindsAll ==
  ASSUME NEW t, Len(t) \in Nat
  PROVE  ParseCitations(t) = Cites(t)
<1>. DEFINE n     == Len(t)
            e     == CitationEnds(t)
            spans == Spans(t, e)
            Id(b) == Number(SubSeq(t, b[1] + 1, b[2] - 1))
            C     == {c \in (1..n) \X (1..n) : IsCitation(t, c[1], c[2])}
<1>1. e \in Ends(n) /\ \A i, j \in 1..n : e[i] = j <=> IsCitation(t, i, j)
  BY CitationEndsWhere
<1>2. SpansFrom(spans, e, 1, n)
  BY <1>1, SpansFacts
<1>3. ParseCitations(t) = {Id(s) : s \in {spans[k] : k \in DOMAIN spans}}
  BY DEF ParseCitations, CitationEnds
<1>. HIDE DEF e, spans
<1>4. DOMAIN spans = 1..Len(spans) /\ \A k \in 1..Len(spans) : spans[k] \in Places(n)
  BY <1>2, LenProperties, ElementOfSeq DEF SpansFrom
<1>5. ASSUME NEW k \in 1..Len(spans) PROVE spans[k] \in C
  <2>1. spans[k] \in Places(n) /\ spans[k][2] = e[spans[k][1]]
    BY <1>2, <1>4 DEF SpansFrom
  <2>2. spans[k][1] \in 1..n /\ spans[k][2] \in 1..n
    BY <2>1 DEF Places
  <2>3. IsCitation(t, spans[k][1], spans[k][2])
    BY <1>1, <2>1, <2>2
  <2>4. QED
    BY <2>1, <2>3 DEF Places
<1>6. ASSUME NEW c \in C PROVE \E k \in 1..Len(spans) : c = spans[k]
  <2>1. PICK i \in 1..n, j \in 1..n : c = <<i, j>> /\ IsCitation(t, i, j)
    OBVIOUS
  <2>2. e[i] = j /\ e[i] # 0
    BY <1>1, <2>1
  <2>3. PICK k \in 1..Len(spans) : spans[k][1] <= i /\ i <= spans[k][2]
    BY <1>2, <2>2 DEF SpansFrom
  <2>4. PICK a \in 1..n, b \in 1..n : spans[k] = <<a, b>>
    BY <1>4 DEF Places
  <2>5. IsCitation(t, a, b)
    BY <1>5, <2>4
  <2>6. a = i
    <3>1. SUFFICES ASSUME a # i PROVE FALSE
      OBVIOUS
    <3>2. a <= i /\ i <= b
      BY <2>3, <2>4
    <3>3. i = b \/ i \in (a + 1)..(b - 1)
      BY <3>1, <3>2
    <3>4. t[i] = "]" \/ t[i] \in CiteDigits
      BY <2>5, <3>3 DEF IsCitation
    <3>5. t[i] = "[report:"
      BY <2>1 DEF IsCitation
    <3>6. QED
      BY <3>4, <3>5 DEF CiteDigits
  <2>7. b = j
    BY <1>1, <2>1, <2>2, <2>5, <2>6
  <2>8. QED
    BY <2>1, <2>4, <2>6, <2>7
<1>7. {spans[k] : k \in DOMAIN spans} = C
  <2>. HIDE DEF C
  <2>1. {spans[k] : k \in DOMAIN spans} \subseteq C
    BY <1>4, <1>5
  <2>2. C \subseteq {spans[k] : k \in DOMAIN spans}
    BY <1>4, <1>6
  <2>3. QED
    BY <2>1, <2>2
<1>8. Cites(t) = {Id(b) : b \in C}
  BY DEF Cites
<1>9. QED
  BY <1>3, <1>7, <1>8

\* The id that the answer of the demonstration cites.
LEMMA NumberTen == Number(<<"1", "0">>) = 10
<1>. DEFINE d == <<"1", "0">>
            Value(f) == f = [k \in 0..Len(d) |->
                              IF k = 0 THEN 0
                              ELSE 10 * f[k - 1] + (IF d[k] = "1" THEN 1 ELSE 0)]
            g == [k \in 0..2 |-> IF k = 0 THEN 0 ELSE IF k = 1 THEN 1 ELSE 10]
<1>1. Len(d) = 2 /\ d[1] = "1" /\ d[2] = "0"
  OBVIOUS
<1>. HIDE DEF d
<1>2. Value(g)
  <2>1. ASSUME NEW k \in 0..2
        PROVE  g[k] = IF k = 0 THEN 0
                      ELSE 10 * g[k - 1] + (IF d[k] = "1" THEN 1 ELSE 0)
    <3>1. k = 0 \/ k = 1 \/ k = 2
      OBVIOUS
    <3>2. g[0] = 0 /\ g[1] = 1 /\ g[2] = 10
      OBVIOUS
    <3>. HIDE DEF g
    <3>3. QED
      BY <1>1, <3>1, <3>2
  <2>2. QED
    BY <1>1, <2>1
<1>3. PICK f : f = CHOOSE h : Value(h)
  OBVIOUS
<1>4. Value(f)
  <2>. HIDE DEF Value
  <2>1. QED
    BY <1>2, <1>3
<1>5. \A k \in 0..2 : f[k] = IF k = 0 THEN 0
                             ELSE 10 * f[k - 1] + (IF d[k] = "1" THEN 1 ELSE 0)
  BY <1>1, <1>4
<1>6. f[0] = 0
  BY <1>5
<1>7. f[1] = 1
  BY <1>1, <1>5, <1>6
<1>8. f[2] = 10
  BY <1>1, <1>5, <1>7
<1>9. Number(d) = f[Len(d)]
  BY <1>3 DEF Number
<1>10. QED
  BY <1>1, <1>8, <1>9 DEF d

\* The symbols of the answer of the demonstration, one by one.
IsAnswer(a, t, n) ==
  /\ n \in Nat /\ Len(a) = n + 7
  /\ a[1] = "according" /\ \A k \in 1..n : a[k + 1] = t[k]
  /\ a[n + 2] = "sp" /\ a[n + 3] = "[report:" /\ a[n + 4] = "1"
  /\ a[n + 5] = "0" /\ a[n + 6] = "]" /\ a[n + 7] = "applies"

LEMMA FakeAnswerText ==
  ASSUME NEW S, NEW t \in Seq(S),
         NEW a, a = FlattenSeq(FakeAnswer(<<"1", "0">>, t)), NEW n, n = Len(t)
  PROVE  IsAnswer(a, t, n)
<1>. DEFINE R == S \cup {"according", "sp", "[report:", "1", "0", "]",
                         "applies"}
            A == <<"according">>
            X == t \o <<"sp">>
            B == <<"[report:">> \o <<"1", "0">> \o <<"]">>
            C == <<"applies">>
<1>1. t \in Seq(R) /\ n \in Nat
  BY SeqMonotonic, LenProperties
<1>2. A \in Seq(R) /\ C \in Seq(R) /\ <<"sp">> \in Seq(R)
  OBVIOUS
<1>3. /\ X \in Seq(R) /\ Len(X) = n + 1 /\ X[n + 1] = "sp"
      /\ \A k \in 1..n : X[k] = t[k]
  <2>1. /\ Len(<<"sp">>) = 1 /\ <<"sp">>[1] = "sp"
    OBVIOUS
  <2>2. /\ X \in Seq(R) /\ Len(X) = Len(t) + Len(<<"sp">>)
        /\ \A k \in 1..(Len(t) + Len(<<"sp">>)) :
             X[k] = IF k <= Len(t) THEN t[k] ELSE <<"sp">>[k - Len(t)]
    BY <1>1, <1>2, ConcatProperties
  <2>. HIDE DEF X
  <2>3. QED
    BY <1>1, <2>1, <2>2
<1>4. /\ B \in Seq(R) /\ Len(B) = 4
      /\ B[1] = "[report:" /\ B[2] = "1" /\ B[3] = "0" /\ B[4] = "]"
  <2>. DEFINE p == <<"[report:">>
              q == <<"1", "0">>
              z == <<"]">>
              w == p \o q
  <2>1. /\ p \in Seq(R) /\ Len(p) = 1 /\ p[1] = "[report:"
        /\ q \in Seq(R) /\ Len(q) = 2 /\ q[1] = "1" /\ q[2] = "0"
        /\ z \in Seq(R) /\ Len(z) = 1 /\ z[1] = "]"
    OBVIOUS
  <2>. HIDE DEF p, q, z, R
  <2>2. /\ w \in Seq(R) /\ Len(w) = Len(p) + Len(q)
        /\ \A k \in 1..(Len(p) + Len(q)) :
             w[k] = IF k <= Len(p) THEN p[k] ELSE q[k - Len(p)]
    BY <2>1, ConcatProperties
  <2>. HIDE DEF w
  <2>3. w \in Seq(R) /\ Len(w) = 3 /\ w[1] = "[report:" /\ w[2] = "1" /\ w[3] = "0"
    BY <2>1, <2>2
  <2>4. /\ w \o z \in Seq(R) /\ Len(w \o z) = Len(w) + Len(z)
        /\ \A k \in 1..(Len(w) + Len(z)) :
             (w \o z)[k] = IF k <= Len(w) THEN w[k] ELSE z[k - Len(w)]
    BY <2>1, <2>3, ConcatProperties
  <2>5. PICK b : b = w \o z
    OBVIOUS
  <2>6. b \in Seq(R) /\ Len(b) = 4 /\ b[1] = w[1] /\ b[2] = w[2] /\ b[3] = w[3]
        /\ b[4] = z[1]
    BY <2>1, <2>3, <2>4, <2>5
  <2>7. B = b
    BY <2>5 DEF w, p, q, z
  <2>. HIDE DEF B
  <2>8. QED
    BY <2>1, <2>3, <2>6, <2>7
<1>5. a = ((A \o X) \o B) \o C
  <2>1. FakeAnswer(<<"1", "0">>, t) = <<A, X, B, C>>
    BY DEF FakeAnswer
  <2>. HIDE DEF A, X, B, C, R
  <2>2. <<A, X, B, C>> = Append(Append(Append(Append(<<>>, A), X), B), C)
    <3>1. Append(<<>>, A) = <<A>>
      OBVIOUS
    <3>2. QED
      BY <3>1, AppendPair, AppendThird, AppendFourth
  <2>3. <<>> \in Seq(Seq(R)) /\ Append(<<>>, A) \in Seq(Seq(R))
        /\ Append(Append(<<>>, A), X) \in Seq(Seq(R))
        /\ Append(Append(Append(<<>>, A), X), B) \in Seq(Seq(R))
    BY <1>2, <1>3, <1>4, AppendProperties
  <2>4. FlattenSeq(Append(<<>>, A)) = A
    <3>1. FlattenSeq(Append(<<>>, A)) = FlattenSeq(<<>>) \o A /\ FlattenSeq(<<>>) = <<>>
      BY <1>2, <2>3, FlattenFacts
    <3>2. <<>> \o A = A
      BY <1>2, ConcatEmptySeq
    <3>3. QED
      BY <3>1, <3>2
  <2>5. FlattenSeq(Append(Append(<<>>, A), X)) = A \o X
    BY <1>3, <2>3, <2>4, FlattenFacts
  <2>6. FlattenSeq(Append(Append(Append(<<>>, A), X), B)) = (A \o X) \o B
    BY <1>4, <2>3, <2>5, FlattenFacts
  <2>7. QED
    BY <1>2, <2>1, <2>2, <2>3, <2>6, FlattenFacts
<1>6. Len(A) = 1 /\ A[1] = "according" /\ Len(C) = 1 /\ C[1] = "applies"
  OBVIOUS
<1>. HIDE DEF A, X, B, C, R
<1>8. PICK u : u = A \o X
  OBVIOUS
<1>9. /\ u \in Seq(R) /\ Len(u) = n + 2 /\ u[1] = "according"
      /\ u[n + 2] = "sp" /\ \A k \in 1..n : u[k + 1] = t[k]
  <2>1. /\ u \in Seq(R) /\ Len(u) = Len(A) + Len(X)
        /\ \A k \in 1..(Len(A) + Len(X)) :
             u[k] = IF k <= Len(A) THEN A[k] ELSE X[k - Len(A)]
    BY <1>2, <1>3, <1>8, ConcatProperties
  <2>2. \A k \in 1..(n + 2) : u[k] = IF k <= 1 THEN A[k] ELSE X[k - 1]
    BY <1>1, <1>3, <1>6, <2>1
  <2>3. Len(u) = n + 2
    BY <1>1, <1>3, <1>6, <2>1
  <2>4. u[1] = A[1] /\ u[n + 2] = X[n + 1]
    BY <1>1, <2>2
  <2>5. \A k \in 1..n : u[k + 1] = X[k]
    BY <1>1, <2>2
  <2>6. QED
    BY <1>3, <1>6, <2>1, <2>3, <2>4, <2>5
<1>10. PICK v : v = u \o B
  OBVIOUS
<1>11. /\ v \in Seq(R) /\ Len(v) = n + 6
       /\ \A k \in 1..(n + 2) : v[k] = u[k]
       /\ \A k \in 1..4 : v[n + 2 + k] = B[k]
  <2>1. /\ v \in Seq(R) /\ Len(v) = Len(u) + Len(B)
        /\ \A k \in 1..(Len(u) + Len(B)) :
             v[k] = IF k <= Len(u) THEN u[k] ELSE B[k - Len(u)]
    <3>1. Joins(v, u, B, R)
      BY <1>4, <1>9, <1>10, Joining
    <3>2. QED
      BY <3>1 DEF Joins
  <2>2. \A k \in 1..(n + 6) : v[k] = IF k <= n + 2 THEN u[k] ELSE B[k - (n + 2)]
    BY <1>1, <1>4, <1>9, <2>1
  <2>3. Len(v) = n + 6
    BY <1>1, <1>4, <1>9, <2>1
  <2>4. QED
    BY <1>1, <2>1, <2>2, <2>3
<1>12. a = v \o C
  BY <1>5, <1>8, <1>10
<1>13. /\ a \in Seq(R) /\ Len(a) = n + 7
       /\ \A k \in 1..(n + 6) : a[k] = v[k]
       /\ a[n + 7] = "applies"
  <2>1. /\ a \in Seq(R) /\ Len(a) = Len(v) + Len(C)
        /\ \A k \in 1..(Len(v) + Len(C)) :
             a[k] = IF k <= Len(v) THEN v[k] ELSE C[k - Len(v)]
    <3>1. Joins(a, v, C, R)
      BY <1>2, <1>11, <1>12, Joining
    <3>2. QED
      BY <3>1 DEF Joins
  <2>2. \A k \in 1..(n + 7) : a[k] = IF k <= n + 6 THEN v[k] ELSE C[k - (n + 6)]
    BY <1>1, <1>6, <1>11, <2>1
  <2>3. Len(a) = n + 7
    BY <1>1, <1>6, <1>11, <2>1
  <2>4. a[n + 7] = C[1]
    BY <1>1, <2>2
  <2>5. QED
    BY <1>1, <1>6, <2>1, <2>2, <2>3, <2>4
<1>14. \A k \in 1..(n + 2) : a[k] = u[k]
  BY <1>1, <1>11, <1>13
<1>15. \A k \in 1..4 : a[n + 2 + k] = B[k]
  BY <1>1, <1>11, <1>13
<1>16. /\ a[n + 3] = B[1] /\ a[n + 4] = B[2] /\ a[n + 5] = B[3] /\ a[n + 6] = B[4]
  <2>1. n + 2 + 1 = n + 3 /\ n + 2 + 2 = n + 4 /\ n + 2 + 3 = n + 5 /\ n + 2 + 4 = n + 6
    BY <1>1
  <2>2. QED
    BY <1>15, <2>1
<1>17. /\ a[1] = u[1] /\ a[n + 2] = u[n + 2] /\ \A k \in 1..n : a[k + 1] = u[k + 1]
  BY <1>1, <1>14
<1>18. QED
  BY <1>1, <1>4, <1>9, <1>13, <1>16, <1>17 DEF R, IsAnswer

\* It cites what its summary cites, and its source: no citation runs over the
\* places where the parts meet.
LEMMA FakeAnswerCites ==
  ASSUME NEW S, NEW t \in Seq(S)
  PROVE  CitedBy(FakeAnswer(<<"1", "0">>, t)) = Cites(t) \cup {10}
<1>1. PICK a : a = FlattenSeq(FakeAnswer(<<"1", "0">>, t))
  OBVIOUS
<1>2. PICK n : n = Len(t)
  OBVIOUS
<1>4. /\ n \in Nat /\ Len(a) = n + 7
      /\ a[1] = "according" /\ \A k \in 1..n : a[k + 1] = t[k]
      /\ a[n + 2] = "sp" /\ a[n + 3] = "[report:" /\ a[n + 4] = "1"
      /\ a[n + 5] = "0" /\ a[n + 6] = "]" /\ a[n + 7] = "applies"
  <2>1. IsAnswer(a, t, n)
    BY <1>1, <1>2, FakeAnswerText
  <2>2. QED
    BY <2>1 DEF IsAnswer
<1>5. CitedBy(FakeAnswer(<<"1", "0">>, t)) = Cites(a)
  <2>1. Len(a) \in Nat
    BY <1>4
  <2>2. QED
    BY <1>1, <2>1, ParsingFindsAll DEF CitedBy
<1>. DEFINE Id(s, i, j) == Number(SubSeq(s, i + 1, j - 1))
<1>6. ASSUME NEW i \in 1..(n + 7), NEW j \in 1..(n + 7), IsCitation(a, i, j)
      PROVE  \/ i = n + 3 /\ j = n + 6
             \/ \E k, l \in 1..n : i = k + 1 /\ j = l + 1 /\ IsCitation(t, k, l)
  <2>1. /\ a[i] = "[report:" /\ a[j] = "]" /\ j > i + 1
        /\ \A k \in (i + 1)..(j - 1) : a[k] \in CiteDigits
    BY <1>6 DEF IsCitation
  <2>2. i # 1 /\ i # n + 2 /\ i # n + 4 /\ i # n + 5 /\ i # n + 6 /\ i # n + 7
    BY <1>4, <2>1
  <2>3. j # n + 2 /\ j # n + 3 /\ j # n + 4 /\ j # n + 5 /\ j # n + 7
    BY <1>4, <2>1
  <2>4. CASE i = n + 3
    BY <1>4, <2>1, <2>3, <2>4
  <2>5. CASE i \in 2..(n + 1)
    <3>1. ~ (n + 2 \in (i + 1)..(j - 1))
      BY <1>4, <2>1 DEF CiteDigits
    <3>2. j \in 2..(n + 1)
      BY <1>4, <2>1, <2>3, <2>5, <3>1
    <3>3. PICK k \in 1..n : i = k + 1
      <4>1. i - 1 \in 1..n /\ i = (i - 1) + 1
        BY <1>4, <2>5
      <4>2. QED
        BY <4>1
    <3>4. PICK l \in 1..n : j = l + 1
      <4>1. j - 1 \in 1..n /\ j = (j - 1) + 1
        BY <1>4, <3>2
      <4>2. QED
        BY <4>1
    <3>5. t[k] = "[report:" /\ t[l] = "]" /\ l > k + 1
      BY <1>4, <2>1, <3>3, <3>4
    <3>6. ASSUME NEW x \in (k + 1)..(l - 1) PROVE t[x] \in CiteDigits
      <4>1. x \in 1..n /\ x + 1 \in (i + 1)..(j - 1)
        BY <1>4, <3>3, <3>4, <3>6
      <4>2. a[x + 1] = t[x]
        BY <1>4, <4>1
      <4>3. a[x + 1] \in CiteDigits
        BY <2>1, <4>1
      <4>4. QED
        BY <4>2, <4>3
    <3>7. IsCitation(t, k, l)
      BY <3>5, <3>6 DEF IsCitation
    <3>8. QED
      BY <3>3, <3>4, <3>7
  <2>6. QED
    BY <1>4, <2>2, <2>4, <2>5
<1>7. ASSUME NEW k \in 1..n, NEW l \in 1..n, IsCitation(t, k, l)
      PROVE  /\ k + 1 \in 1..(n + 7) /\ l + 1 \in 1..(n + 7)
             /\ IsCitation(a, k + 1, l + 1) /\ Id(a, k + 1, l + 1) = Id(t, k, l)
  <2>1. /\ t[k] = "[report:" /\ t[l] = "]" /\ l > k + 1
        /\ \A x \in (k + 1)..(l - 1) : t[x] \in CiteDigits
    BY <1>7 DEF IsCitation
  <2>2. a[k + 1] = "[report:" /\ a[l + 1] = "]" /\ l + 1 > (k + 1) + 1
    BY <1>4, <2>1
  <2>3. ASSUME NEW x \in ((k + 1) + 1)..((l + 1) - 1)
        PROVE  x - 1 \in (k + 1)..(l - 1) /\ a[x] = t[x - 1]
    <3>1. x - 1 \in (k + 1)..(l - 1) /\ x - 1 \in 1..n /\ (x - 1) + 1 = x
      BY <1>4, <2>3
    <3>2. a[(x - 1) + 1] = t[x - 1]
      BY <1>4, <3>1
    <3>3. QED
      BY <3>1, <3>2
  <2>4. IsCitation(a, k + 1, l + 1)
    BY <2>1, <2>2, <2>3 DEF IsCitation
  <2>5. PICK b, e : b = k + 1 /\ e = l - 1
    OBVIOUS
  <2>6. b \in Int /\ e \in Int /\ b >= 1 /\ e <= n /\ b <= e
    BY <1>4, <2>1, <2>5
  <2>7. \A x \in b..e : t[x] \in CiteDigits /\ a[x + 1] = t[x]
    BY <1>4, <2>1, <2>5, <2>6
  <2>8. /\ SubSeq(t, b, e) \in Seq(CiteDigits) /\ Len(SubSeq(t, b, e)) = e - b + 1
        /\ \A x \in 1..(e - b + 1) : SubSeq(t, b, e)[x] = t[b + x - 1]
    BY <2>6, <2>7, SubSeqProperties
  <2>9. \A x \in (b + 1)..(e + 1) : a[x] \in CiteDigits
    <3>1. SUFFICES ASSUME NEW x \in (b + 1)..(e + 1) PROVE a[x] \in CiteDigits
      OBVIOUS
    <3>2. x - 1 \in b..e /\ (x - 1) + 1 = x
      BY <2>6
    <3>3. a[(x - 1) + 1] \in CiteDigits
      BY <2>7, <3>2
    <3>4. QED
      BY <3>2, <3>3
  <2>10. /\ SubSeq(a, b + 1, e + 1) \in Seq(CiteDigits)
         /\ Len(SubSeq(a, b + 1, e + 1)) = e - b + 1
         /\ \A x \in 1..(e - b + 1) : SubSeq(a, b + 1, e + 1)[x] = a[b + x]
    <3>1. b + 1 \in Int /\ e + 1 \in Int /\ b + 1 <= e + 1
          /\ (e + 1) - (b + 1) + 1 = e - b + 1
      BY <2>6
    <3>2. /\ SubSeq(a, b + 1, e + 1) \in Seq(CiteDigits)
          /\ Len(SubSeq(a, b + 1, e + 1)) = (e + 1) - (b + 1) + 1
          /\ \A x \in 1..((e + 1) - (b + 1) + 1) :
               SubSeq(a, b + 1, e + 1)[x] = a[(b + 1) + x - 1]
      BY <2>9, <3>1, SubSeqProperties
    <3>3. \A x \in 1..(e - b + 1) : (b + 1) + x - 1 = b + x
      BY <2>6
    <3>4. QED
      BY <3>1, <3>2, <3>3
  <2>11. \A x \in 1..(e - b + 1) : SubSeq(a, b + 1, e + 1)[x] = SubSeq(t, b, e)[x]
    <3>1. SUFFICES ASSUME NEW x \in 1..(e - b + 1) PROVE a[b + x] = t[b + x - 1]
      BY <2>8, <2>10
    <3>2. b + x - 1 \in b..e /\ (b + x - 1) + 1 = b + x
      BY <2>6
    <3>3. a[(b + x - 1) + 1] = t[b + x - 1]
      BY <2>7, <3>2
    <3>4. QED
      BY <3>2, <3>3
  <2>12. SubSeq(a, b + 1, e + 1) = SubSeq(t, b, e)
    BY <2>8, <2>10, <2>11, SeqEqual
  <2>13. (k + 1) + 1 = b + 1 /\ (l + 1) - 1 = e + 1
    BY <2>5
  <2>14. Id(a, k + 1, l + 1) = Id(t, k, l)
    <3>1. SubSeq(a, (k + 1) + 1, (l + 1) - 1) = SubSeq(t, k + 1, l - 1)
      BY <2>5, <2>12, <2>13
    <3>2. QED
      BY <3>1
  <2>15. QED
    BY <1>4, <2>4, <2>14
<1>8. /\ IsCitation(a, n + 3, n + 6) /\ Id(a, n + 3, n + 6) = 10
  <2>1. /\ (n + 3) + 1 = n + 4 /\ (n + 6) - 1 = n + 5 /\ n + 6 > (n + 3) + 1
        /\ \A k \in (n + 4)..(n + 5) : k = n + 4 \/ k = n + 5
    BY <1>4
  <2>2. \A k \in (n + 4)..(n + 5) : a[k] \in CiteDigits
    BY <1>4, <2>1 DEF CiteDigits
  <2>3. IsCitation(a, n + 3, n + 6)
    BY <1>4, <2>1, <2>2 DEF IsCitation
  <2>4. PICK d : d = SubSeq(a, n + 4, n + 5)
    OBVIOUS
  <2>5. n + 4 \in Int /\ n + 5 \in Int /\ n + 4 <= n + 5 /\ (n + 5) - (n + 4) + 1 = 2
    BY <1>4
  <2>6. /\ d \in Seq(CiteDigits) /\ Len(d) = 2
        /\ \A x \in 1..2 : d[x] = a[(n + 4) + x - 1]
    <3>1. /\ d \in Seq(CiteDigits) /\ Len(d) = (n + 5) - (n + 4) + 1
          /\ \A x \in 1..((n + 5) - (n + 4) + 1) : d[x] = a[(n + 4) + x - 1]
      BY <2>2, <2>4, <2>5, SubSeqProperties
    <3>2. QED
      BY <2>5, <3>1
  <2>7. (n + 4) + 1 - 1 = n + 4 /\ (n + 4) + 2 - 1 = n + 5
    BY <1>4
  <2>8. d[1] = "1" /\ d[2] = "0"
    BY <1>4, <2>6, <2>7
  <2>9. d = <<"1", "0">>
    <3>1. <<"1", "0">> \in Seq(CiteDigits) /\ Len(<<"1", "0">>) = 2
      BY DEF CiteDigits
    <3>2. <<"1", "0">>[1] = "1" /\ <<"1", "0">>[2] = "0"
      OBVIOUS
    <3>3. \A x \in 1..2 : x = 1 \/ x = 2
      OBVIOUS
    <3>4. QED
      BY <2>6, <2>8, <3>1, <3>2, <3>3, SeqEqual
  <2>10. QED
    BY <2>1, <2>3, <2>4, <2>9, NumberTen
<1>9. \A s : Cites(s) = {Id(s, c[1], c[2]) :
                          c \in {b \in (1..Len(s)) \X (1..Len(s)) :
                                   IsCitation(s, b[1], b[2])}}
  BY DEF Cites
<1>. HIDE DEF Id
<1>10. ASSUME NEW s, NEW x
       PROVE  x \in Cites(s) <=> \E i, j \in 1..Len(s) : IsCitation(s, i, j) /\ x = Id(s, i, j)
  <2>1. ASSUME x \in Cites(s)
        PROVE  \E i, j \in 1..Len(s) : IsCitation(s, i, j) /\ x = Id(s, i, j)
    <3>1. PICK c \in (1..Len(s)) \X (1..Len(s)) :
            IsCitation(s, c[1], c[2]) /\ x = Id(s, c[1], c[2])
      BY <1>9, <2>1
    <3>2. QED
      BY <3>1
  <2>2. ASSUME NEW i \in 1..Len(s), NEW j \in 1..Len(s), IsCitation(s, i, j),
               x = Id(s, i, j)
        PROVE  x \in Cites(s)
    <3>1. PICK c \in (1..Len(s)) \X (1..Len(s)) : c = <<i, j>>
      OBVIOUS
    <3>2. c[1] = i /\ c[2] = j
      BY <3>1
    <3>3. QED
      BY <1>9, <2>2, <3>1, <3>2
  <2>3. QED
    BY <2>1, <2>2
<1>11. ASSUME NEW x PROVE x \in Cites(a) <=> x \in Cites(t) \cup {10}
  <2>1. ASSUME x \in Cites(a) PROVE x \in Cites(t) \cup {10}
    <3>1. PICK i \in 1..(n + 7), j \in 1..(n + 7) : IsCitation(a, i, j) /\ x = Id(a, i, j)
      BY <1>4, <1>10, <2>1
    <3>2. CASE i = n + 3 /\ j = n + 6
      BY <1>8, <3>1, <3>2
    <3>3. ASSUME NEW k \in 1..n, NEW l \in 1..n, i = k + 1, j = l + 1, IsCitation(t, k, l)
          PROVE  x \in Cites(t)
      BY <1>2, <1>7, <1>10, <3>1, <3>3
    <3>4. QED
      BY <1>6, <3>1, <3>2, <3>3
  <2>2. ASSUME x \in Cites(t) PROVE x \in Cites(a)
    <3>1. PICK k \in 1..n, l \in 1..n : IsCitation(t, k, l) /\ x = Id(t, k, l)
      BY <1>2, <1>10, <2>2
    <3>2. QED
      BY <1>4, <1>7, <1>10, <3>1
  <2>3. 10 \in Cites(a)
    <3>1. n + 3 \in 1..Len(a) /\ n + 6 \in 1..Len(a)
      BY <1>4
    <3>2. QED
      BY <1>8, <1>10, <3>1
  <2>4. QED
    BY <2>1, <2>2, <2>3
<1>12. QED
  BY <1>5, <1>11

\* A citation counts however the model divides its answer into tokens, and nothing
\* else does; the fallback cites its source whatever the summary in it says.
THEOREM CitationsCount == Spec => []CitationsSurviveTokens
<1>1. Written => CitationsSurviveTokens
  <2>1. SUFFICES ASSUME Written PROVE CitationsSurviveTokens
    OBVIOUS
  <2>2. text \in Seq(Symbols(rule)) /\ text = FlattenSeq(pieces)
    BY <2>1, TextType DEF text
  <2>3. PICK t : t = text
    OBVIOUS
  <2>4. t \in Seq(Symbols(rule)) /\ Len(t) \in Nat
    BY <2>2, <2>3, LenProperties
  <2>5. CitedBy(pieces) = Cites(t)
    BY <2>2, <2>3, <2>4, ParsingFindsAll DEF CitedBy
  <2>6. CitedBy(FakeAnswer(<<"1", "0">>, t)) = Cites(t) \cup {10}
    BY <2>4, FakeAnswerCites
  <2>7. QED
    BY <2>3, <2>5, <2>6 DEF CitationsSurviveTokens
<1>2. QED
  BY <1>1, WrittenHolds, PTL

\* No word of a report is lost or moved on its way into the index, whatever the
\* length of the report and the limit; no chunk is empty (ingest.py:175-189).
THEOREM ChunksHoldText == Spec => []ChunksHoldTheText
<1>1. Written => ChunksHoldTheText
  <2>1. SUFFICES ASSUME Written PROVE ChunksHoldTheText
    OBVIOUS
  <2>2. PICK D : D = Symbols(rule) \cup {"S", "sp", "nl"}
    OBVIOUS
  <2>3. text \in Seq(D)
    BY <2>1, <2>2, TextType, SeqMonotonic
  <2>4. PICK t \in Seq(D) : t = text
    BY <2>3
  <2>5. ChunksHold(BuildChunks(<<"S">>, t, LongText), t)
    BY <2>2, ChunksFacts
  <2>6. QED
    BY <2>4, <2>5 DEF ChunksHold, ChunksHoldTheText
<1>2. QED
  BY <1>1, WrittenHolds, PTL

-----------------------------------------------------------------------------
(* Masking. *)

LEMMA RestoredIsSpread ==
  ASSUME NEW D, NEW m, m.text \in Seq(D)
  PROVE  Restored(m) = Spread(m.text, Back(m, D))
<1>1. DOMAIN m.text = 1..Len(m.text)
  BY LenProperties
<1>2. PICK v : v = Back(m, D)
  OBVIOUS
<1>3. ASSUME NEW i \in DOMAIN m.text
      PROVE  v[m.text[i]] = IF m.text[i] \in DOMAIN m.mapping
                            THEN m.mapping[m.text[i]] ELSE <<m.text[i]>>
  <2>1. m.text[i] \in D
    BY <1>1, ElementOfSeq
  <2>2. QED
    BY <1>2, <2>1 DEF Back
<1>4. [i \in DOMAIN m.text |-> v[m.text[i]]]
        = [i \in DOMAIN m.text |->
             IF m.text[i] \in DOMAIN m.mapping
             THEN m.mapping[m.text[i]] ELSE <<m.text[i]>>]
  BY <1>3
<1>5. QED
  BY <1>2, <1>4 DEF Restored, Spread

\* A report before the first pass.
LEMMA UnmaskedStart ==
  ASSUME NEW A, NEW t \in Seq(A), NEW m, m = Unmasked(t)
  PROVE  /\ Masked(m, A, {}) /\ m.text = Plain(t)
         /\ Spread(m.text, Back(m, Characters(A, {}))) = Plain(t)
<1>1. PICK p : p = Plain(t)
  OBVIOUS
<1>2. p \in Seq(Characters(A, {}))
  <2>1. Len(t) \in Nat /\ \A i \in 1..Len(t) : t[i] \in A
    BY LenProperties, ElementOfSeq
  <2>2. p \in Arrays(Len(t), Characters(A, {}))
    BY <1>1, <2>1 DEF Plain, Arrays, Characters
  <2>3. QED
    BY <2>1, <2>2, ArrayIsSeq
<1>3. m.text = p /\ DOMAIN m.mapping = {}
  BY <1>1 DEF Unmasked
<1>4. Masked(m, A, {})
  BY <1>2, <1>3 DEF Masked
<1>5. PICK v : v = Back(m, Characters(A, {}))
  OBVIOUS
<1>6. ASSUME NEW i \in 1..Len(p) PROVE Leaves(v, p[i])
  <2>1. p[i] \in Characters(A, {})
    BY <1>2, ElementOfSeq
  <2>2. QED
    BY <1>3, <1>5, <2>1 DEF Back, Leaves
<1>7. Spread(p, v) = p
  BY <1>2, <1>6, SpreadNothing
<1>8. QED
  BY <1>1, <1>3, <1>4, <1>5, <1>7

\* The three passes, each with what it leaves for the next.
LEMMA MaskPasses ==
  ASSUME NEW A, NEW t \in Seq(A), NEW m, m = Mask(t)
  PROVE  /\ Masked(m, A, Kinds)
         /\ Spread(m.text, Back(m, Characters(A, Kinds))) = Plain(t)
<1>1. PICK m0, m1, m2 : /\ m0 = Unmasked(t) /\ m1 = Hide(m0, "PERSON")
                        /\ m2 = Hide(m1, "EMAIL")
  OBVIOUS
<1>2. m = Hide(m2, "PHONE")
  BY <1>1 DEF Mask
<1>3. PICK d0, d1, d2, d3 : /\ d0 = {} /\ d1 = d0 \cup {"PERSON"} /\ d2 = d1 \cup {"EMAIL"}
                            /\ d3 = d2 \cup {"PHONE"}
  OBVIOUS
<1>4. /\ d0 \in SUBSET Kinds /\ d1 \in SUBSET Kinds /\ d2 \in SUBSET Kinds
      /\ "PERSON" \in Kinds \ d0 /\ "EMAIL" \in Kinds \ d1 /\ "PHONE" \in Kinds \ d2
      /\ d3 = Kinds
  BY <1>3 DEF Kinds
<1>5. Masked(m0, A, d0) /\ Spread(m0.text, Back(m0, Characters(A, d0))) = Plain(t)
  BY <1>1, <1>3, UnmaskedStart
<1>6. /\ Masked(m1, A, d1)
      /\ Spread(m1.text, Back(m1, Characters(A, d1)))
           = Spread(m0.text, Back(m0, Characters(A, d0)))
  BY <1>1, <1>3, <1>4, <1>5, HideKeeps
<1>7. /\ Masked(m2, A, d2)
      /\ Spread(m2.text, Back(m2, Characters(A, d2)))
           = Spread(m1.text, Back(m1, Characters(A, d1)))
  BY <1>1, <1>3, <1>4, <1>6, HideKeeps
<1>8. /\ Masked(m, A, d3)
      /\ Spread(m.text, Back(m, Characters(A, d3)))
           = Spread(m2.text, Back(m2, Characters(A, d2)))
  BY <1>2, <1>3, <1>4, <1>7, HideKeeps
<1>9. QED
  BY <1>4, <1>5, <1>6, <1>7, <1>8

\* Whatever the text: the mapping gives it back, and no name, address or phone number
\* is left in what is sent to the LLM.
THEOREM MaskingHolds == Spec => []MaskingIsComplete
<1>1. Written => MaskingIsComplete
  <2>1. SUFFICES ASSUME Written PROVE MaskingIsComplete
    OBVIOUS
  <2>2. PICK t, A : t = text /\ A = Symbols(rule)
    OBVIOUS
  <2>3. t \in Seq(A)
    BY <2>1, <2>2, TextType
  <2>4. PICK m : m = Mask(t)
    OBVIOUS
  <2>5. Masked(m, A, Kinds) /\ Spread(m.text, Back(m, Characters(A, Kinds))) = Plain(t)
    BY <2>3, <2>4, MaskPasses
  <2>6. m.text \in Seq(Characters(A, Kinds)) /\ \A kind \in Kinds : Matches(m.text, kind) = <<>>
    BY <2>5 DEF Masked
  <2>7. Restored(m) = Plain(t)
    BY <2>5, <2>6, RestoredIsSpread
  <2>8. QED
    BY <2>2, <2>4, <2>6, <2>7 DEF MaskingIsComplete, Kinds
<1>2. QED
  BY <1>1, WrittenHolds, PTL

\* A text without names reaches the search for addresses as it was written, and the
\* search for phone numbers leaves the mapping of the addresses alone.
LEMMA AddressesStay ==
  ASSUME NEW A, NEW t \in Seq(A), ~ Contains(t, "N"),
         NEW spans, spans = Matches(Plain(t), "EMAIL"), NEW k \in 1..Len(spans)
  PROVE  /\ <<"EMAIL", k>> \in DOMAIN Mask(t).mapping
         /\ Mask(t).mapping[<<"EMAIL", k>>]
              = SubSeq(Plain(t), spans[k][1], spans[k][2])
<1>1. PICK p, m0, m1, m2, m3 : /\ p = Plain(t) /\ m0 = Unmasked(t)
                               /\ m1 = Hide(m0, "PERSON") /\ m2 = Hide(m1, "EMAIL")
                               /\ m3 = Hide(m2, "PHONE")
  OBVIOUS
<1>2. Mask(t) = m3
  BY <1>1 DEF Mask
<1>3. m0.text = p /\ Masked(m0, A, {})
  BY <1>1, UnmaskedStart
<1>4. p \in Seq(Characters(A, {})) /\ Len(p) \in Nat
  BY <1>3, LenProperties DEF Masked
<1>5. Matches(p, "PERSON") = <<>>
  <2>1. ASSUME NEW i \in 1..Len(p), NEW j \in i..Len(p), Is("PERSON", p, i, j)
        PROVE  FALSE
    <3>1. p[i] = <<"N", 0>>
      BY <2>1 DEF Is, IsName
    <3>2. DOMAIN p = 1..Len(t) /\ DOMAIN p = 1..Len(p)
      BY <1>1, <1>4, LenProperties DEF Plain
    <3>3. i \in 1..Len(t) /\ p[i] = <<t[i], 0>>
      BY <1>1, <3>2 DEF Plain
    <3>4. t[i] = "N"
      BY <3>1, <3>3
    <3>5. QED
      BY <3>3, <3>4 DEF Contains
  <2>2. QED
    BY <1>4, <2>1, NoMatches
<1>6. m1.text = p
  BY <1>1, <1>3, <1>4, <1>5, HideNothing
<1>7. spans = Matches(m1.text, "EMAIL") /\ Len(spans) \in Nat
  <2>1. Apart(spans, Len(p))
    BY <1>1, <1>4, MatchesFacts
  <2>2. QED
    BY <1>1, <1>4, <1>6, <2>1, SpansInOrder
<1>8. PICK s : s = <<"EMAIL", k>>
  OBVIOUS
<1>9. s \in DOMAIN m2.mapping /\ m2.mapping[s] = SubSeq(p, spans[k][1], spans[k][2])
  <2>1. /\ DOMAIN m2.mapping = ({"EMAIL"} \X (1..Len(spans))) \cup DOMAIN m1.mapping
        /\ \A l \in 1..Len(spans) :
             m2.mapping[<<"EMAIL", l>>] = SubSeq(m1.text, spans[l][1], spans[l][2])
    BY <1>1, <1>7, HideMapping
  <2>2. QED
    BY <1>6, <1>8, <2>1
<1>10. PICK phones : phones = Matches(m2.text, "PHONE")
  OBVIOUS
<1>11. Len(phones) \in Nat
  <2>1. Masked(m1, A, {"PERSON"})
    <3>1. {} \in SUBSET Kinds /\ "PERSON" \in Kinds /\ {"PERSON"} = {} \cup {"PERSON"}
      BY DEF Kinds
    <3>2. QED
      BY <1>1, <1>3, <3>1, HideKeeps
  <2>2. Masked(m2, A, {"PERSON", "EMAIL"})
    <3>1. /\ {"PERSON"} \in SUBSET Kinds /\ "EMAIL" \in Kinds /\ "EMAIL" \notin {"PERSON"}
          /\ {"PERSON", "EMAIL"} = {"PERSON"} \cup {"EMAIL"}
      BY DEF Kinds
    <3>2. QED
      BY <1>1, <2>1, <3>1, HideKeeps
  <2>3. Len(m2.text) \in Nat
    BY <2>2, LenProperties DEF Masked
  <2>4. Apart(phones, Len(m2.text))
    BY <1>10, <2>3, MatchesFacts
  <2>5. QED
    BY <2>3, <2>4, SpansInOrder
<1>12. s \in DOMAIN m3.mapping /\ m3.mapping[s] = m2.mapping[s]
  <2>1. /\ DOMAIN m3.mapping = ({"PHONE"} \X (1..Len(phones))) \cup DOMAIN m2.mapping
        /\ \A r \in DOMAIN m2.mapping \ ({"PHONE"} \X (1..Len(phones))) :
             m3.mapping[r] = m2.mapping[r]
    BY <1>1, <1>10, <1>11, HideMapping
  <2>2. s \notin {"PHONE"} \X (1..Len(phones))
    BY <1>8
  <2>3. QED
    BY <1>9, <2>1, <2>2
<1>13. QED
  BY <1>1, <1>2, <1>8, <1>9, <1>12

\* An address of a text without names is hidden as a whole, also if a phone number is
\* part of it.
THEOREM AddressesHidden == Spec => []AddressesAreHiddenWhole
<1>1. Written => AddressesAreHiddenWhole
  <2>1. SUFFICES ASSUME Written, ~ Contains(text, "N"),
                        NEW k \in DOMAIN Matches(Plain(text), "EMAIL")
                 PROVE  LET spans == Matches(Plain(text), "EMAIL")
                            mapping == Mask(text).mapping
                        IN  /\ <<"EMAIL", k>> \in DOMAIN mapping
                            /\ mapping[<<"EMAIL", k>>]
                                 = SubSeq(Plain(text), spans[k][1], spans[k][2])
    BY DEF AddressesAreHiddenWhole
  <2>2. PICK t, A, spans : t = text /\ A = Symbols(rule) /\ spans = Matches(Plain(t), "EMAIL")
    OBVIOUS
  <2>3. t \in Seq(A)
    BY <2>1, <2>2, TextType
  <2>4. k \in 1..Len(spans)
    <3>1. Masked(Unmasked(t), A, {}) /\ Unmasked(t).text = Plain(t)
      BY <2>3, UnmaskedStart
    <3>2. Len(Plain(t)) \in Nat
      BY <3>1, LenProperties DEF Masked
    <3>3. spans \in Seq(Places(Len(Plain(t))))
      BY <2>2, <3>2, MatchesFacts DEF Apart
    <3>4. QED
      BY <2>1, <2>2, <3>3, LenProperties
  <2>5. QED
    BY <2>1, <2>2, <2>3, <2>4, AddressesStay
<1>2. QED
  BY <1>1, WrittenHolds, PTL

-----------------------------------------------------------------------------
(* The table of summaries. *)

\* A masked key fits an original: each placeholder hid a part of it.
MadeOf(key, original) ==
  /\ Contains(key, "[") /\ Embeds(key, original)
  /\ Len(FlattenSeq(Fragments(key))) >= Len(original) \div 2

LEMMA SearchIsEmbedding ==
  ASSUME NEW D, NEW key \in Seq(D), NEW o, Len(o) \in Nat
  PROVE  MatchesMasked(key, o) <=> MadeOf(key, o)
<1>1. PICK fs : fs = Fragments(key)
  OBVIOUS
<1>2. fs \in Seq(Seq(D) \ {<<>>})
  BY <1>1, FragmentsFacts
<1>3. PICK n \in Nat : n = Len(fs) /\ DOMAIN fs = 1..n
  BY <1>2, LenProperties
<1>4. \A k \in 1..n : Len(fs[k]) \in Nat \ {0}
  <2>1. ASSUME NEW k \in 1..n PROVE Len(fs[k]) \in Nat \ {0}
    <3>1. PICK f : f = fs[k]
      OBVIOUS
    <3>2. f \in Seq(D) /\ f # <<>>
      BY <1>2, <1>3, <3>1
    <3>3. QED
      BY <3>1, <3>2
  <2>2. QED
    BY <2>1
<1>5. PICK L \in Nat : L = Len(o)
  OBVIOUS
<1>6. PICK pos : pos = CHOOSE p : Greedy(p, fs, o, n)
  OBVIOUS
<1>7. Greedy(pos, fs, o, n)
  BY <1>6, GreedyExists
<1>8. pos[n] <= L + 1 <=> \E last : EndsAt(last, fs, o, n)
  BY <1>4, <1>5, <1>7, GreedyFinds
<1>9. MatchesMasked(key, o) <=>
        /\ Contains(key, "[") /\ pos[n] <= L + 1
        /\ Len(FlattenSeq(fs)) >= L \div 2
  BY <1>1, <1>3, <1>5, <1>6 DEF MatchesMasked, Greedy
<1>10. Embeds(key, o) <=> \E last : EndsAt(last, fs, o, n)
  BY <1>1, <1>3 DEF Embeds, EndsAt
<1>11. QED
  BY <1>1, <1>5, <1>8, <1>9, <1>10 DEF MadeOf

\* THEOREM: taking each fragment at its first place finds the original that the
\* text was made of, or one before it that fits, for every table and every text
\* (LookupFindsTheOriginal; summaries.py:64-89).
THEOREM LookupFinds == Spec => []LookupFindsTheOriginal
<1>1. Written => LookupFindsTheOriginal
  <2>1. SUFFICES ASSUME Written PROVE LookupFindsTheOriginal
    OBVIOUS
  <2>2. PICK D : D = Symbols(rule)
    OBVIOUS
  <2>3. text \in Seq(D)
    BY <2>1, <2>2, TextType
  <2>4. PICK t, key : t \in Seq(D) /\ t = text /\ key = KeyOf(t)
    BY <2>3
  <2>5. key \in Seq(D)
    BY <2>4, KeySpreads
  <2>6. PICK I : I = DOMAIN Originals
    OBVIOUS
  <2>7. I \subseteq Nat /\ \A i \in I : Len(Originals[i]) \in Nat
    BY <2>6, TextAssumption, LenProperties DEF IsText
  <2>8. PICK E, A, F :
          /\ E = {i \in I : Originals[i] = key}
          /\ A = {i \in I : MatchesMasked(key, Originals[i])}
          /\ F = {i \in I : Originals[i] = key \/ MadeOf(key, Originals[i])}
    OBVIOUS
  <2>9. F = E \cup A
    BY <2>5, <2>7, <2>8, SearchIsEmbedding
  <2>10. Lookup(t, Originals) = IF E # {} THEN Min(E) ELSE IF A # {} THEN Min(A) ELSE 0
    BY <2>4, <2>6, <2>8 DEF Lookup
  <2>11. E # {} => Min(E) \in E
    BY <2>7, <2>8, MinFacts
  <2>12. Lookup(t, Originals) \in IF F = {} THEN {0} ELSE {Min(F)} \cup E
    BY <2>9, <2>10, <2>11
  <2>13. E = {i \in F : Originals[i] = key}
    BY <2>8
  <2>14. F = {i \in DOMAIN Originals :
                      \/ Originals[i] = key
                      \/ /\ Contains(key, "[") /\ Embeds(key, Originals[i])
                         /\ Len(FlattenSeq(Fragments(key)))
                              >= Len(Originals[i]) \div 2}
    BY <2>6, <2>8 DEF MadeOf
  <2>15. QED
    BY <2>4, <2>12, <2>13, <2>14 DEF LookupFindsTheOriginal
<1>2. QED
  BY <1>1, WrittenHolds, PTL

-----------------------------------------------------------------------------
(***************************************************************************)
(* Files of corrections and of cases.  An item stands in a sequence when   *)
(* no later one has its key; a file holds what stands in all that has been *)
(* merged into it.                                                         *)
(***************************************************************************)
Stands(x, v) == \E i \in DOMAIN x : /\ x[i] = v
                                    /\ \A j \in DOMAIN x : j > i => x[j][1] # v[1]

InOrder(x) == \A i, j \in DOMAIN x : i < j => x[i][1] < x[j][1]

\* s lists S in ascending order.
Lists(s, S) ==
  /\ s \in [1..Cardinality(S) -> S]
  /\ \A i, j \in DOMAIN s : i < j => s[i] < s[j]

LEMMA ListingExists ==
  ASSUME NEW b \in Nat, NEW S \in SUBSET (0..b)
  PROVE  \E s : Lists(s, S)
<1>. DEFINE T == {k \in Nat : \A R \in SUBSET (0..(k - 1)) : \E s : Lists(s, R)}
<1>1. 0 \in T
  <2>1. SUFFICES ASSUME NEW R \in SUBSET (0..(0 - 1)) PROVE \E s : Lists(s, R)
    OBVIOUS
  <2>2. R = {} /\ Cardinality(R) = 0
    <3>1. R = {}
      OBVIOUS
    <3>2. QED
      BY <3>1, FS_EmptySet
  <2>3. PICK s : s = [i \in 1..0 |-> 0]
    OBVIOUS
  <2>4. s \in [1..0 -> R] /\ DOMAIN s = 1..0 /\ \A i \in 1..0 : FALSE
    BY <2>3
  <2>5. Lists(s, R)
    BY <2>2, <2>4 DEF Lists
  <2>6. QED
    BY <2>5
<1>2. ASSUME NEW k \in Nat, k \in T PROVE k + 1 \in T
  <2>1. SUFFICES ASSUME NEW R \in SUBSET (0..k) PROVE \E s : Lists(s, R)
    <3>1. (k + 1) - 1 = k /\ k + 1 \in Nat
      OBVIOUS
    <3>2. QED
      BY <3>1
  <2>2. PICK Q \in SUBSET (0..(k - 1)) : Q = R \ {k}
    <3>1. ASSUME NEW i \in R, i # k PROVE i \in 0..(k - 1)
      <4>1. i \in 0..k
        OBVIOUS
      <4>2. QED
        BY <3>1, <4>1
    <3>2. PICK Q : Q = R \ {k}
      OBVIOUS
    <3>3. Q \in SUBSET (0..(k - 1))
      BY <3>1, <3>2
    <3>4. QED
      BY <3>2, <3>3
  <2>3. PICK q : Lists(q, Q)
    BY <1>2
  <2>4. CASE k \notin R
    BY <2>2, <2>3, <2>4
  <2>5. CASE k \in R
    <3>1. IsFiniteSet(Q)
      BY FS_BoundedSetOfNaturals
    <3>2. PICK n \in Nat : n = Cardinality(Q)
      BY <3>1, FS_CardinalityType
    <3>3. Cardinality(R) = n + 1
      <4>1. R = Q \cup {k} /\ k \notin Q
        BY <2>2, <2>5
      <4>2. QED
        BY <3>1, <3>2, <4>1, FS_AddElement
    <3>4. q \in [1..n -> Q] /\ \A i, j \in 1..n : i < j => q[i] < q[j]
      BY <2>3, <3>2 DEF Lists
    <3>5. PICK s : s = [i \in 1..(n + 1) |-> IF i = n + 1 THEN k ELSE q[i]]
      OBVIOUS
    <3>6. \A i \in 1..n : q[i] \in R /\ q[i] \in 0..(k - 1)
      BY <2>2, <3>4
    <3>7. s \in [1..(n + 1) -> R]
      <4>1. ASSUME NEW i \in 1..(n + 1) PROVE s[i] \in R
        <5>1. i = n + 1 \/ i \in 1..n
          OBVIOUS
        <5>2. QED
          BY <2>5, <3>5, <3>6, <5>1
      <4>2. QED
        BY <3>5, <4>1
    <3>8. ASSUME NEW i \in 1..(n + 1), NEW j \in 1..(n + 1), i < j PROVE s[i] < s[j]
      <4>1. i \in 1..n /\ i # n + 1 /\ s[i] = q[i] /\ q[i] < k
        BY <3>5, <3>6, <3>8
      <4>2. CASE j = n + 1
        BY <3>5, <4>1, <4>2
      <4>3. CASE j # n + 1
        <5>1. j \in 1..n /\ s[j] = q[j]
          BY <3>5, <4>3
        <5>2. QED
          BY <3>4, <3>8, <4>1, <5>1
      <4>4. QED
        BY <4>2, <4>3
    <3>9. Lists(s, R)
      BY <3>3, <3>7, <3>8 DEF Lists
    <3>10. QED
      BY <3>9
  <2>6. QED
    BY <2>4, <2>5
<1>. HIDE DEF T
<1>3. b + 1 \in T
  BY <1>1, <1>2, Induction
<1>4. QED
  BY <1>3 DEF T

ListsAll(s, S, n) ==
  /\ n \in Nat /\ s \in [1..n -> S]
  /\ \A i, j \in 1..n : i < j => s[i] < s[j]
  /\ \A x \in S : \E i \in 1..n : s[i] = x

LEMMA AscendingFacts ==
  ASSUME NEW b \in Nat, NEW S \in SUBSET (0..b), NEW s, s = Ascending(S),
         NEW n, n = Cardinality(S)
  PROVE  ListsAll(s, S, n)
<1>1. IsFiniteSet(S)
  BY FS_BoundedSetOfNaturals
<1>2. n \in Nat
  BY <1>1, FS_CardinalityType
<1>3. s \in [1..n -> S] /\ \A i, j \in 1..n : i < j => s[i] < s[j]
  <2>1. \E f \in [1..n -> S] : \A i, j \in DOMAIN f : i < j => f[i] < f[j]
    BY ListingExists DEF Lists
  <2>2. s = CHOOSE f \in [1..n -> S] : \A i, j \in DOMAIN f : i < j => f[i] < f[j]
    BY DEF Ascending
  <2>3. QED
    BY <2>1, <2>2
<1>4. s \in Injection(1..n, S)
  <2>1. ASSUME NEW i \in 1..n, NEW j \in 1..n, i # j PROVE s[i] # s[j]
    <3>1. s[i] \in 0..b /\ s[j] \in 0..b
      BY <1>3
    <3>2. i < j \/ j < i
      BY <2>1
    <3>3. QED
      BY <1>3, <3>1, <3>2
  <2>2. QED
    BY <1>3, <2>1 DEF Injection, IsInjective
<1>5. Cardinality(1..n) = n
  BY <1>2, FS_Interval
<1>6. s \in Surjection(1..n, S)
  BY <1>1, <1>4, <1>5, FS_Injection
<1>7. QED
  BY <1>2, <1>3, <1>6 DEF Surjection, ListsAll

KeysUpto(x, k, b) == \A i \in 1..k : x[i][1] <= b

LEMMA KeysBounded ==
  ASSUME NEW D, \A d \in D : d[1] \in Nat, NEW x \in Seq(D)
  PROVE  \E b \in Nat : Keys(x) \in SUBSET (0..b)
<1>0. PICK n \in Nat : n = Len(x) /\ DOMAIN x = 1..n /\ \A i \in 1..n : x[i][1] \in Nat
  BY LenProperties
<1>. DEFINE T == {k \in Nat : k <= n => \E b \in Nat : KeysUpto(x, k, b)}
<1>1. 0 \in T
  <2>1. KeysUpto(x, 0, 0)
    BY DEF KeysUpto
  <2>2. QED
    BY <2>1
<1>2. ASSUME NEW k \in Nat, k \in T PROVE k + 1 \in T
  <2>1. SUFFICES ASSUME k + 1 <= n PROVE \E b \in Nat : KeysUpto(x, k + 1, b)
    OBVIOUS
  <2>2. PICK a \in Nat : KeysUpto(x, k, a)
    BY <1>2, <2>1
  <2>3. PICK c \in Nat : c = x[k + 1][1]
    BY <1>0, <2>1
  <2>4. ASSUME NEW i \in 1..(k + 1) PROVE x[i][1] <= a + c
    <3>1. CASE i = k + 1
      BY <2>3, <3>1
    <3>2. CASE i # k + 1
      <4>1. i \in 1..k /\ i \in 1..n
        BY <2>1, <3>2
      <4>2. x[i][1] <= a /\ x[i][1] \in Nat
        BY <1>0, <2>2, <4>1 DEF KeysUpto
      <4>3. QED
        BY <4>2
    <3>3. QED
      BY <3>1, <3>2
  <2>5. KeysUpto(x, k + 1, a + c)
    BY <2>4 DEF KeysUpto
  <2>6. QED
    BY <2>5
<1>. HIDE DEF T
<1>3. n \in T
  BY <1>1, <1>2, Induction
<1>4. PICK b \in Nat : KeysUpto(x, n, b)
  BY <1>3 DEF T
<1>5. \A i \in 1..n : x[i][1] \in 0..b
  BY <1>0, <1>4 DEF KeysUpto
<1>6. QED
  BY <1>0, <1>5 DEF Keys
\* The last item of a key stands.
LEMMA LastStands ==
  ASSUME NEW D, NEW x \in Seq(D), NEW k \in Keys(x), NEW i,
         i = Max({j \in DOMAIN x : x[j][1] = k})
  PROVE  i \in DOMAIN x /\ x[i][1] = k /\ Stands(x, x[i])
<1>1. PICK n \in Nat : n = Len(x) /\ DOMAIN x = 1..n
  BY LenProperties
<1>2. PICK A : A = {j \in DOMAIN x : x[j][1] = k}
  OBVIOUS
<1>3. A \in SUBSET (0..n) /\ A # {}
  BY <1>1, <1>2 DEF Keys
<1>4. i \in A /\ \A j \in A : j <= i
  BY <1>2, <1>3, MaxFacts
<1>5. i \in 1..n /\ x[i][1] = k
  BY <1>1, <1>2, <1>4
<1>6. ASSUME NEW j \in 1..n, j > i PROVE x[j][1] # k
  <2>1. j \notin A
    BY <1>4, <1>5, <1>6
  <2>2. QED
    BY <1>1, <1>2, <2>1
<1>7. QED
  BY <1>1, <1>5, <1>6 DEF Stands

\* One item of a key stands.
LEMMA StandsOnce ==
  ASSUME NEW D, NEW x \in Seq(D), NEW v, NEW w, Stands(x, v), Stands(x, w), v[1] = w[1]
  PROVE  v = w
<1>1. PICK n \in Nat : DOMAIN x = 1..n
  BY LenProperties
<1>2. PICK i \in 1..n : x[i] = v /\ \A j \in 1..n : j > i => x[j][1] # v[1]
  BY <1>1 DEF Stands
<1>3. PICK k \in 1..n : x[k] = w /\ \A j \in 1..n : j > k => x[j][1] # w[1]
  BY <1>1 DEF Stands
<1>4. ~(k > i) /\ ~(i > k)
  BY <1>2, <1>3
<1>5. QED
  BY <1>2, <1>3, <1>4

LEMMA StandingKeys ==
  ASSUME NEW D, NEW x \in Seq(D)
  PROVE  \A k : k \in Keys(x) <=> \E v : Stands(x, v) /\ v[1] = k
<1>1. ASSUME NEW k, k \in Keys(x) PROVE \E v : Stands(x, v) /\ v[1] = k
  <2>1. PICK i : i = Max({j \in DOMAIN x : x[j][1] = k})
    OBVIOUS
  <2>2. Stands(x, x[i]) /\ x[i][1] = k
    BY <1>1, <2>1, LastStands
  <2>3. QED
    BY <2>2
<1>2. ASSUME NEW v, Stands(x, v) PROVE v[1] \in Keys(x)
  BY <1>2 DEF Stands, Keys
<1>3. QED
  BY <1>1, <1>2

\* f is the file of the items x.
IsFile(f, x, D) ==
  /\ f \in Seq(D) /\ Len(f) = Cardinality(Keys(x)) /\ InOrder(f)
  /\ \A v : (\E i \in DOMAIN f : f[i] = v) <=> Stands(x, v)

LEMMA ByKeyFacts ==
  ASSUME NEW D, \A d \in D : d[1] \in Nat, NEW x \in Seq(D)
  PROVE  IsFile(ByKey(x), x, D)
<1>1. PICK K, s, n, f :
        K = Keys(x) /\ s = Ascending(K) /\ n = Cardinality(K) /\ f = ByKey(x)
  OBVIOUS
<1>2. PICK b \in Nat : K \in SUBSET (0..b)
  BY <1>1, KeysBounded
<1>3. /\ n \in Nat /\ s \in [1..n -> K]
      /\ \A i, j \in 1..n : i < j => s[i] < s[j]
      /\ \A k \in K : \E i \in 1..n : s[i] = k
  <2>1. ListsAll(s, K, n)
    BY <1>1, <1>2, AscendingFacts
  <2>2. QED
    BY <2>1 DEF ListsAll
<1>4. f = [i \in 1..n |-> x[Max({j \in DOMAIN x : x[j][1] = s[i]})]]
  BY <1>1, <1>3 DEF ByKey
<1>5. ASSUME NEW i \in 1..n PROVE f[i] \in D /\ f[i][1] = s[i] /\ Stands(x, f[i])
  <2>1. PICK m : m = Max({j \in DOMAIN x : x[j][1] = s[i]})
    OBVIOUS
  <2>2. PICK k \in Keys(x) : k = s[i]
    BY <1>1, <1>3
  <2>3. m \in DOMAIN x /\ x[m][1] = k /\ Stands(x, x[m])
    BY <2>1, <2>2, LastStands
  <2>4. f[i] = x[m]
    BY <1>4, <2>1
  <2>5. x[m] \in D
    BY <2>3
  <2>6. QED
    BY <2>2, <2>3, <2>4, <2>5
<1>6. f \in Seq(D) /\ Len(f) = n /\ DOMAIN f = 1..n
  <2>1. f \in [1..n -> D]
    BY <1>4, <1>5
  <2>2. QED
    BY <1>3, <2>1, ArrayIsSeq
<1>7. InOrder(f)
  BY <1>3, <1>5, <1>6 DEF InOrder
<1>8. ASSUME NEW v, Stands(x, v) PROVE \E i \in 1..n : f[i] = v
  <2>1. v[1] \in K
    BY <1>1, <1>8, StandingKeys
  <2>2. PICK i \in 1..n : s[i] = v[1]
    BY <1>3, <2>1
  <2>3. PICK w : w = f[i]
    OBVIOUS
  <2>4. Stands(x, w) /\ w[1] = v[1]
    BY <1>5, <2>2, <2>3
  <2>5. w = v
    BY <1>8, <2>4, StandsOnce
  <2>6. QED
    BY <2>3, <2>5
<1>9. QED
  BY <1>1, <1>5, <1>6, <1>7, <1>8 DEF IsFile

\* What stands decides what is in the file.
LEMMA ByKeySame ==
  ASSUME NEW D, NEW x \in Seq(D), NEW y \in Seq(D), \A d \in D : d[1] \in Nat,
         \A v : Stands(x, v) <=> Stands(y, v)
  PROVE  ByKey(x) = ByKey(y)
<1>1. Keys(x) = Keys(y)
  <2>1. \A k : k \in Keys(x) <=> k \in Keys(y)
    BY StandingKeys
  <2>2. QED
    BY <2>1
<1>2. PICK K, s, n : K = Keys(x) /\ s = Ascending(K) /\ n = Cardinality(K)
  OBVIOUS
<1>3. PICK b \in Nat : K \in SUBSET (0..b)
  BY <1>2, KeysBounded
<1>4. s \in [1..n -> K]
  BY <1>2, <1>3, AscendingFacts DEF ListsAll
<1>5. PICK f, g :
        /\ f = [i \in 1..n |-> Max({j \in DOMAIN x : x[j][1] = s[i]})]
        /\ g = [i \in 1..n |-> Max({j \in DOMAIN y : y[j][1] = s[i]})]
  OBVIOUS
<1>6. ByKey(x) = [i \in 1..n |-> x[f[i]]] /\ ByKey(y) = [i \in 1..n |-> y[g[i]]]
  BY <1>1, <1>2, <1>4, <1>5 DEF ByKey
<1>7. ASSUME NEW i \in 1..n PROVE x[f[i]] = y[g[i]]
  <2>0. PICK k : k = s[i] /\ k \in K
    BY <1>4
  <2>1. PICK a, c : a = f[i] /\ c = g[i]
    OBVIOUS
  <2>2. x[a][1] = k /\ Stands(x, x[a])
    <3>1. a = Max({j \in DOMAIN x : x[j][1] = k})
      BY <1>5, <2>0, <2>1
    <3>2. QED
      BY <1>2, <2>0, <3>1, LastStands
  <2>3. y[c][1] = k /\ Stands(y, y[c])
    <3>1. c = Max({j \in DOMAIN y : y[j][1] = k})
      BY <1>5, <2>0, <2>1
    <3>2. QED
      BY <1>1, <1>2, <2>0, <3>1, LastStands
  <2>4. PICK v, w : v = x[a] /\ w = y[c]
    OBVIOUS
  <2>5. v = w
    BY <2>2, <2>3, <2>4, StandsOnce
  <2>6. QED
    BY <2>1, <2>4, <2>5
<1>8. QED
  BY <1>6, <1>7

LEMMA StandsJoined ==
  ASSUME NEW D, NEW x \in Seq(D), NEW y \in Seq(D), NEW v
  PROVE  Stands(x \o y, v) <=> Stands(y, v) \/ (Stands(x, v) /\ v[1] \notin Keys(y))
<1>0. PICK m \in Nat, n \in Nat :
        m = Len(x) /\ n = Len(y) /\ DOMAIN x = 1..m /\ DOMAIN y = 1..n
  BY LenProperties
<1>1. PICK z : z = x \o y /\ DOMAIN z = 1..(m + n)
  <2>1. x \o y \in Seq(D) /\ Len(x \o y) = m + n
    BY <1>0, ConcatProperties
  <2>2. QED
    BY <2>1, LenProperties
<1>2. \A i \in 1..(m + n) : z[i] = IF i <= m THEN x[i] ELSE y[i - m]
  BY <1>0, <1>1, ConcatProperties
<1>3. /\ \A i \in 1..m : i \in 1..(m + n) /\ z[i] = x[i]
      /\ \A i \in 1..n : i + m \in 1..(m + n) /\ i + m > m /\ z[i + m] = y[i]
  <2>1. ASSUME NEW i \in 1..m PROVE i \in 1..(m + n) /\ z[i] = x[i]
    BY <1>2
  <2>2. ASSUME NEW i \in 1..n PROVE i + m \in 1..(m + n) /\ i + m > m /\ z[i + m] = y[i]
    <3>1. i + m \in 1..(m + n) /\ ~(i + m <= m) /\ (i + m) - m = i
      OBVIOUS
    <3>2. z[i + m] = y[(i + m) - m]
      BY <1>2, <3>1
    <3>3. QED
      BY <3>1, <3>2
  <2>3. QED
    BY <2>1, <2>2
<1>4. ASSUME Stands(z, v) PROVE Stands(y, v) \/ (Stands(x, v) /\ v[1] \notin Keys(y))
  <2>1. PICK i \in 1..(m + n) : z[i] = v /\ \A j \in 1..(m + n) : j > i => z[j][1] # v[1]
    BY <1>0, <1>1, <1>4 DEF Stands
  <2>2. CASE i <= m
    <3>1. i \in 1..m /\ x[i] = v
      BY <1>3, <2>1, <2>2
    <3>2. \A j \in 1..m : j > i => x[j][1] # v[1]
      BY <1>3, <2>1
    <3>3. ASSUME NEW j \in 1..n PROVE y[j][1] # v[1]
      <4>1. j + m > i
        BY <2>2
      <4>2. QED
        BY <1>3, <2>1, <4>1
    <3>4. Stands(x, v)
      BY <1>0, <1>1, <3>1, <3>2 DEF Stands
    <3>5. v[1] \notin Keys(y)
      BY <1>0, <1>1, <3>3 DEF Keys
    <3>6. QED
      BY <3>4, <3>5
  <2>3. CASE i > m
    <3>1. PICK k \in 1..n : i = k + m
      <4>1. i - m \in 1..n /\ i = (i - m) + m
        BY <2>3
      <4>2. QED
        BY <4>1
    <3>2. y[k] = v
      BY <1>3, <2>1, <3>1
    <3>3. ASSUME NEW j \in 1..n, j > k PROVE y[j][1] # v[1]
      <4>1. j + m > i
        BY <3>1, <3>3
      <4>2. QED
        BY <1>3, <2>1, <4>1
    <3>4. QED
      BY <1>0, <1>1, <3>2, <3>3 DEF Stands
  <2>4. QED
    BY <2>2, <2>3
<1>5. ASSUME Stands(y, v) PROVE Stands(z, v)
  <2>1. PICK k \in 1..n : y[k] = v /\ \A j \in 1..n : j > k => y[j][1] # v[1]
    BY <1>0, <1>1, <1>5 DEF Stands
  <2>2. k + m \in 1..(m + n) /\ z[k + m] = v
    BY <1>3, <2>1
  <2>3. ASSUME NEW j \in 1..(m + n), j > k + m PROVE z[j][1] # v[1]
    <3>1. j - m \in 1..n /\ j - m > k /\ ~(j <= m)
      BY <2>3
    <3>2. z[j] = y[j - m]
      BY <1>2, <3>1
    <3>3. QED
      BY <2>1, <3>1, <3>2
  <2>4. QED
    BY <1>0, <1>1, <2>2, <2>3 DEF Stands
<1>6. ASSUME Stands(x, v), v[1] \notin Keys(y) PROVE Stands(z, v)
  <2>1. PICK k \in 1..m : x[k] = v /\ \A j \in 1..m : j > k => x[j][1] # v[1]
    BY <1>0, <1>1, <1>6 DEF Stands
  <2>2. k \in 1..(m + n) /\ z[k] = v
    BY <1>3, <2>1
  <2>3. \A j \in 1..n : y[j][1] # v[1]
    BY <1>0, <1>1, <1>6 DEF Keys
  <2>4. ASSUME NEW j \in 1..(m + n), j > k PROVE z[j][1] # v[1]
    <3>1. CASE j <= m
      <4>1. j \in 1..m
        BY <3>1
      <4>2. QED
        BY <1>3, <2>1, <2>4, <4>1
    <3>2. CASE ~(j <= m)
      <4>1. j - m \in 1..n
        BY <3>2
      <4>2. z[j] = y[j - m]
        BY <1>2, <3>2
      <4>3. QED
        BY <2>3, <4>1, <4>2
    <3>3. QED
      BY <3>1, <3>2
  <2>5. QED
    BY <1>0, <1>1, <2>2, <2>4 DEF Stands
<1>7. QED
  BY <1>0, <1>1, <1>4, <1>5, <1>6

\* Merging into a file is merging into all that made it.
LEMMA ByKeyTwice ==
  ASSUME NEW D, \A d \in D : d[1] \in Nat, NEW x \in Seq(D), NEW y \in Seq(D)
  PROVE  ByKey(ByKey(x) \o y) = ByKey(x \o y)
<1>1. PICK f : f = ByKey(x)
  OBVIOUS
<1>2. IsFile(f, x, D)
  BY <1>1, ByKeyFacts
<1>3. f \in Seq(D) /\ InOrder(f)
  BY <1>2 DEF IsFile
<1>4. PICK n \in Nat : DOMAIN f = 1..n /\ \A i \in 1..n : f[i][1] \in Nat
  BY <1>3, LenProperties
<1>5. ASSUME NEW v PROVE Stands(f, v) <=> Stands(x, v)
  <2>1. ASSUME NEW i \in 1..n, f[i] = v, NEW j \in 1..n, j > i PROVE f[j][1] # v[1]
    <3>1. f[i][1] < f[j][1]
      BY <1>3, <1>4, <2>1 DEF InOrder
    <3>2. QED
      BY <1>4, <2>1, <3>1
  <2>2. Stands(f, v) <=> \E i \in 1..n : f[i] = v
    BY <1>4, <2>1 DEF Stands
  <2>3. QED
    BY <1>2, <1>4, <2>2 DEF IsFile
<1>6. PICK g, h : g = f \o y /\ h = x \o y
  OBVIOUS
<1>7. g \in Seq(D) /\ h \in Seq(D)
  BY <1>3, <1>6, ConcatProperties
<1>8. ASSUME NEW v PROVE Stands(g, v) <=> Stands(h, v)
  <2>1. Stands(g, v) <=> Stands(y, v) \/ (Stands(f, v) /\ v[1] \notin Keys(y))
    BY <1>3, <1>6, StandsJoined
  <2>2. Stands(h, v) <=> Stands(y, v) \/ (Stands(x, v) /\ v[1] \notin Keys(y))
    BY <1>6, StandsJoined
  <2>3. QED
    BY <1>5, <2>1, <2>2
<1>9. ByKey(g) = ByKey(h)
  BY <1>7, <1>8, ByKeySame
<1>10. QED
  BY <1>1, <1>6, <1>9

LEMMA FileKeys ==
  ASSUME NEW D, NEW x \in Seq(D), NEW f, IsFile(f, x, D)
  PROVE  Keys(f) = Keys(x)
<1>1. \A v : (\E i \in DOMAIN f : f[i] = v) <=> Stands(x, v)
  BY DEF IsFile
<1>2. \A k : k \in Keys(f) <=> \E v : Stands(x, v) /\ v[1] = k
  BY <1>1 DEF Keys
<1>3. \A k : k \in Keys(f) <=> k \in Keys(x)
  BY <1>2, StandingKeys
<1>4. QED
  BY <1>3

LEMMA KeysJoined ==
  ASSUME NEW D, NEW x \in Seq(D), NEW y \in Seq(D)
  PROVE  Keys(x \o y) = Keys(x) \cup Keys(y)
<1>1. PICK z : z = x \o y
  OBVIOUS
<1>2. z \in Seq(D)
  BY <1>1, ConcatProperties
<1>3. \A k : k \in Keys(z) <=> \E v : Stands(z, v) /\ v[1] = k
  BY <1>2, StandingKeys
<1>4. \A k : k \in Keys(x) <=> \E v : Stands(x, v) /\ v[1] = k
  BY StandingKeys
<1>5. \A k : k \in Keys(y) <=> \E v : Stands(y, v) /\ v[1] = k
  BY StandingKeys
<1>6. \A v : Stands(z, v) <=> Stands(y, v) \/ (Stands(x, v) /\ v[1] \notin Keys(y))
  BY <1>1, StandsJoined
<1>7. \A k : k \in Keys(z) <=> k \in Keys(x) \/ k \in Keys(y)
  BY <1>3, <1>4, <1>5, <1>6
<1>8. QED
  BY <1>1, <1>7

\* Two exports, x and then y, and y once more.
MergeHolds(x, y, D) ==
  LET first  == Merge(<<>>, x)
      second == Merge(first.items, y)
  IN  /\ IsFile(second.items, x \o y, D)
      /\ first.added + second.added = Len(second.items)
      /\ Merge(second.items, y) = [items |-> second.items, added |-> 0]

LEMMA MergeFacts ==
  ASSUME NEW D, \A d \in D : d[1] \in Nat, NEW x \in Seq(D), NEW y \in Seq(D)
  PROVE  MergeHolds(x, y, D)
<1>1. PICK z, f, g, K, L : z = x \o y /\ f = ByKey(x) /\ g = ByKey(z) /\ K = Keys(x) /\ L = Keys(y)
  OBVIOUS
<1>2. z \in Seq(D)
  BY <1>1, ConcatProperties
<1>3. IsFile(f, x, D) /\ IsFile(g, z, D)
  BY <1>1, <1>2, ByKeyFacts
<1>4. Keys(f) = K /\ Keys(g) = K \cup L
  <2>1. Keys(f) = K
    BY <1>1, <1>3, FileKeys
  <2>2. Keys(g) = Keys(z)
    BY <1>2, <1>3, FileKeys
  <2>3. QED
    BY <1>1, <2>1, <2>2, KeysJoined
<1>5. Merge(<<>>, x) = [items |-> f, added |-> Cardinality(K)]
  <2>1. <<>> \o x = x
    BY ConcatEmptySeq
  <2>2. Keys(<<>>) = {}
    BY DEF Keys
  <2>3. K \ {} = K
    OBVIOUS
  <2>4. QED
    BY <1>1, <2>1, <2>2, <2>3 DEF Merge
<1>6. Merge(f, y) = [items |-> g, added |-> Cardinality(L \ K)]
  <2>1. ByKey(f \o y) = g
    BY <1>1, ByKeyTwice
  <2>2. QED
    BY <1>1, <1>4, <2>1 DEF Merge
<1>7. Merge(g, y) = [items |-> g, added |-> 0]
  <2>1. PICK h : h = z \o y
    OBVIOUS
  <2>2. h \in Seq(D)
    BY <1>2, <2>1, ConcatProperties
  <2>3. ASSUME NEW v PROVE Stands(h, v) <=> Stands(z, v)
    <3>1. Stands(h, v) <=> Stands(y, v) \/ (Stands(z, v) /\ v[1] \notin Keys(y))
      BY <1>2, <2>1, StandsJoined
    <3>2. Stands(z, v) <=> Stands(y, v) \/ (Stands(x, v) /\ v[1] \notin Keys(y))
      BY <1>1, StandsJoined
    <3>3. QED
      BY <3>1, <3>2
  <2>4. ByKey(h) = ByKey(z)
    BY <1>2, <2>2, <2>3, ByKeySame
  <2>5. ByKey(g \o y) = g
    BY <1>1, <1>2, <2>1, <2>4, ByKeyTwice
  <2>6. L \ (K \cup L) = {} /\ Cardinality({}) = 0
    BY FS_EmptySet
  <2>7. QED
    BY <1>1, <1>4, <2>5, <2>6 DEF Merge
<1>8. Cardinality(K) + Cardinality(L \ K) = Len(g)
  <2>1. PICK b \in Nat, c \in Nat : K \in SUBSET (0..b) /\ L \in SUBSET (0..c)
    BY <1>1, KeysBounded
  <2>2. IsFiniteSet(K) /\ IsFiniteSet(L)
    <3>1. K \in SUBSET Nat /\ (\A k \in K : k <= b) /\ L \in SUBSET Nat /\ (\A k \in L : k <= c)
      BY <2>1
    <3>2. IsFiniteSet(K)
      BY <3>1, FS_BoundedSetOfNaturals
    <3>3. IsFiniteSet(L)
      BY <3>1, FS_BoundedSetOfNaturals
    <3>4. QED
      BY <3>2, <3>3
  <2>3. PICK M : M = L \ K
    OBVIOUS
  <2>4. IsFiniteSet(M) /\ K \cup L = K \cup M /\ K \cap M = {}
    BY <2>2, <2>3, FS_Subset
  <2>5. Cardinality(K \cup M) = Cardinality(K) + Cardinality(M) - Cardinality(K \cap M)
    BY <2>2, <2>4, FS_Union
  <2>6. PICK p \in Nat, q \in Nat : p = Cardinality(K) /\ q = Cardinality(M)
    BY <2>2, <2>4, FS_CardinalityType
  <2>7. Len(g) = Cardinality(Keys(z))
    BY <1>3 DEF IsFile
  <2>8. Keys(z) = K \cup L
    BY <1>1, KeysJoined
  <2>9. Cardinality(K \cap M) = 0
    BY <2>4, FS_EmptySet
  <2>10. Cardinality(K \cup M) = p + q
    BY <2>5, <2>6, <2>9
  <2>11. Len(g) = p + q
    BY <2>4, <2>7, <2>8, <2>10
  <2>12. QED
    BY <2>3, <2>6, <2>11
<1>9. QED
  BY <1>1, <1>3, <1>5, <1>6, <1>7, <1>8 DEF MergeHolds

\* What is loaded, by the items themselves.
LEMMA LoadedSpreads ==
  ASSUME NEW D, NEW B, B = {d \in D : d[2] = d[1]}, NEW x \in Seq(D)
  PROVE  Loaded(x) = Spread(x, Dropping(D, B))
<1>1. PICK S : S = {d \in Range(x) : d[2] = d[1]}
  OBVIOUS
<1>2. \A i \in DOMAIN x : x[i] \in S <=> x[i] \in B
  BY <1>1 DEF Range
<1>3. [i \in DOMAIN x |-> IF x[i] \in S THEN <<>> ELSE <<x[i]>>]
        = [i \in DOMAIN x |-> IF x[i] \in B THEN <<>> ELSE <<x[i]>>]
  BY <1>2
<1>4. Without(x, S) = Without(x, B)
  BY <1>3 DEF Without
<1>5. Without(x, B) = Spread(x, Dropping(D, B))
  BY WithoutSpreads
<1>6. QED
  BY <1>1, <1>4, <1>5 DEF Loaded

LEMMA LoadedJoined ==
  ASSUME NEW D, NEW x \in Seq(D), NEW y \in Seq(D)
  PROVE  Loaded(x) \in Seq(D) /\ Loaded(x \o y) = Loaded(x) \o Loaded(y)
<1>1. PICK B, v : B = {d \in D : d[2] = d[1]} /\ v = Dropping(D, B)
  OBVIOUS
<1>2. v \in Replacements(D, D)
  BY <1>1, EmptySeq, WithoutSpreads
<1>3. PICK z : z = x \o y
  OBVIOUS
<1>4. z \in Seq(D)
  BY <1>3, ConcatProperties
<1>5. Loaded(x) = Spread(x, v) /\ Loaded(y) = Spread(y, v)
  BY <1>1, LoadedSpreads
<1>6. Loaded(z) = Spread(z, v)
  BY <1>1, <1>4, LoadedSpreads
<1>7. Spread(x, v) \in Seq(D)
  BY <1>2, SpreadType
<1>8. Spread(z, v) = Spread(x, v) \o Spread(y, v)
  BY <1>2, <1>3, SpreadParts
<1>9. QED
  BY <1>3, <1>5, <1>6, <1>7, <1>8

\* THEOREM: however the reviews are divided into two exports, and if the second is
\* run again, the file holds the last correction of each word, in order, for every
\* number of reviews (LastReviewWins; export_corrections.py:43-62).
THEOREM LastReviewStands == Spec => []LastReviewWins
<1>1. Written => LastReviewWins
  <2>1. SUFFICES ASSUME Written, rule = "merge" PROVE LastReviewWins
    BY DEF LastReviewWins
  <2>2. PICK D : D = Symbols(rule)
    OBVIOUS
  <2>3. PICK t : t \in Seq(D) /\ t = text
    BY <2>1, <2>2, TextType
  <2>4. \A d \in D : d[1] \in Nat
    <3>1. "merge" \in Rules
      BY <2>1 DEF Written
    <3>2. ASSUME NEW p \in PiecesOf["merge"], NEW d \in Range(p) PROVE d[1] \in Nat
      BY <3>1, TextAssumption DEF Range
    <3>3. QED
      BY <2>1, <2>2, <3>2 DEF Symbols
  <2>5. PICK m \in Nat : m = Len(t)
    BY <2>3, LenProperties
  <2>6. ASSUME NEW n \in 0..m
        PROVE  LET incoming == Loaded(SubSeq(t, n + 1, m))
                   first    == Merge(<<>>, Loaded(SubSeq(t, 1, n)))
                   second   == Merge(first.items, incoming)
                   items    == second.items
               IN  /\ Keys(items) = Keys(Loaded(t))
                   /\ \A i, j \in DOMAIN items : i < j => items[i][1] < items[j][1]
                   /\ \A i \in DOMAIN Loaded(t) :
                        LET item == Loaded(t)[i] IN
                        ~Contains(items, item) =>
                          \E j \in DOMAIN Loaded(t) :
                            j > i /\ Loaded(t)[j][1] = item[1]
                   /\ first.added + second.added = Len(items)
                   /\ Merge(items, incoming) = [items |-> items, added |-> 0]
    <3>1. PICK a, c : a = SubSeq(t, 1, n) /\ c = SubSeq(t, n + 1, m)
      OBVIOUS
    <3>2. a \in Seq(D) /\ c \in Seq(D) /\ t = a \o c
      <4>1. 1 \in 1..(m + 1) /\ n + 1 \in 1..(m + 1) /\ n \in 0..m /\ m \in 0..m
            /\ 1 <= n + 1 /\ n <= m
        BY <2>5
      <4>2. a \in Seq(D) /\ c \in Seq(D)
        BY <2>3, <2>5, <3>1, <4>1, SubSeqType
      <4>3. SubSeq(t, 1, m) = t
        BY <2>3, <2>5, SubSeqFull
      <4>4. SubSeq(t, 1, m) = a \o c
        BY <2>3, <2>5, <3>1, <4>1, SubSeqJoin
      <4>5. QED
        BY <4>2, <4>3, <4>4
    <3>3. PICK x, y, z : x = Loaded(a) /\ y = Loaded(c) /\ z = Loaded(t)
      OBVIOUS
    <3>4. x \in Seq(D) /\ y \in Seq(D) /\ z = x \o y
      <4>1. x \in Seq(D) /\ z = x \o y
        BY <3>2, <3>3, LoadedJoined
      <4>2. y \in Seq(D)
        BY <3>2, <3>3, LoadedJoined
      <4>3. QED
        BY <4>1, <4>2
    <3>5. MergeHolds(x, y, D)
      BY <2>4, <3>4, MergeFacts
    <3>6. PICK first, second, items :
            first = Merge(<<>>, x) /\ second = Merge(first.items, y) /\ items = second.items
      OBVIOUS
    <3>7. /\ IsFile(items, z, D) /\ first.added + second.added = Len(items)
          /\ Merge(items, y) = [items |-> items, added |-> 0]
      BY <3>4, <3>5, <3>6 DEF MergeHolds
    <3>8. z \in Seq(D)
      BY <3>4, ConcatProperties
    <3>9. Keys(items) = Keys(z)
      BY <3>7, <3>8, FileKeys
    <3>10. ASSUME NEW i \in DOMAIN z,
                  \A j \in DOMAIN z : j > i => z[j][1] # z[i][1]
           PROVE  Contains(items, z[i])
      <4>1. Stands(z, z[i])
        BY <3>10 DEF Stands
      <4>2. PICK k \in DOMAIN items : items[k] = z[i]
        BY <3>7, <4>1 DEF IsFile
      <4>3. items \in Seq(D)
        BY <3>7 DEF IsFile
      <4>4. k \in 1..Len(items)
        BY <4>2, <4>3, LenProperties
      <4>5. QED
        BY <4>2, <4>4 DEF Contains
    <3>11. QED
      BY <3>1, <3>3, <3>6, <3>7, <3>9, <3>10 DEF IsFile, InOrder
  <2>7. QED
    BY <2>3, <2>5, <2>6 DEF LastReviewWins
<1>2. QED
  BY <1>1, WrittenHolds, PTL

-----------------------------------------------------------------------------
(* Cases.  Confirmed(D) is what each row of D gives. *)
Case(d) == <<d.key, d.label>>

Confirmed(D) == [d \in D |-> IF d.verified THEN <<Case(d)>> ELSE <<>>]

LEMMA VerifiedSpreads ==
  ASSUME NEW D, NEW x \in Seq(D)
  PROVE  VerifiedCases(x) = Spread(x, Confirmed(D))
<1>1. PICK v : v = Confirmed(D)
  OBVIOUS
<1>2. \A i \in DOMAIN x : v[x[i]] = IF x[i].verified THEN <<Case(x[i])>> ELSE <<>>
  BY <1>1 DEF Confirmed
<1>3. [i \in DOMAIN x |-> IF x[i].verified THEN <<<<x[i].key, x[i].label>>>> ELSE <<>>]
        = [i \in DOMAIN x |-> v[x[i]]]
  BY <1>2 DEF Case
<1>4. QED
  BY <1>1, <1>3 DEF VerifiedCases, Spread

LEMMA ConfirmedType ==
  ASSUME NEW D, NEW I, I = {Case(d) : d \in D}
  PROVE  Confirmed(D) \in Replacements(D, I)
<1>1. ASSUME NEW d \in D PROVE Confirmed(D)[d] \in Seq(I)
  <2>1. Case(d) \in I
    OBVIOUS
  <2>2. <<Case(d)>> \in Seq(I) /\ <<>> \in Seq(I)
    BY <2>1, EmptySeq
  <2>3. QED
    BY <2>2 DEF Confirmed
<1>2. QED
  BY <1>1 DEF Confirmed, Replacements

CasesJoin(x, o, p, r, I) ==
  /\ x = VerifiedCases(p) /\ o = VerifiedCases(r)
  /\ x \in Seq(I) /\ o \in Seq(I) /\ VerifiedCases(p \o r) = x \o o

LEMMA VerifiedJoined ==
  ASSUME NEW D, NEW I, I = {Case(d) : d \in D}, NEW p \in Seq(D), NEW r \in Seq(D)
  PROVE  CasesJoin(VerifiedCases(p), VerifiedCases(r), p, r, I)
<1>0. PICK x, o : x = VerifiedCases(p) /\ o = VerifiedCases(r)
  OBVIOUS
<1>1. PICK c : c = Confirmed(D)
  OBVIOUS
<1>2. c \in Replacements(D, I)
  BY <1>1, ConfirmedType
<1>3. p \o r \in Seq(D)
  BY ConcatProperties
<1>4. x = Spread(p, c) /\ o = Spread(r, c)
  BY <1>0, <1>1, VerifiedSpreads
<1>5. VerifiedCases(p \o r) = Spread(p \o r, c)
  BY <1>1, <1>3, VerifiedSpreads
<1>6. Spread(p \o r, c) = Spread(p, c) \o Spread(r, c)
  BY <1>2, SpreadParts
<1>7. Spread(p, c) \in Seq(I) /\ Spread(r, c) \in Seq(I)
  BY <1>2, SpreadType
<1>8. QED
  BY <1>0, <1>4, <1>5, <1>6, <1>7 DEF CasesJoin

\* v is the last label that a human has confirmed of its report in t[1..n].
IsLastCase(v, t, n) ==
  \E i \in 1..n : /\ t[i].verified /\ v = Case(t[i])
                  /\ \A k \in (i + 1)..n : t[k].verified => t[k].key # t[i].key

\* One row more.
LEMMA RowStands ==
  ASSUME NEW D, NEW d \in D, NEW o, o = VerifiedCases(<<d>>)
  PROVE  /\ d.verified => Keys(o) = {d.key} /\ \A v : Stands(o, v) <=> v = Case(d)
         /\ ~d.verified => o = <<>> /\ Keys(o) = {} /\ \A v : ~Stands(o, v)
<1>1. <<d>> \in Seq(D)
  OBVIOUS
<1>2. PICK I : I = {Case(e) : e \in D}
  OBVIOUS
<1>3. Confirmed(D) \in Replacements(D, I)
  BY <1>2, ConfirmedType
<1>4. o = Confirmed(D)[d]
  <2>1. o = Spread(<<d>>, Confirmed(D))
    BY <1>1, VerifiedSpreads
  <2>2. QED
    BY <1>3, <2>1, SpreadOne
<1>5. o = IF d.verified THEN <<Case(d)>> ELSE <<>>
  BY <1>4 DEF Confirmed
<1>6. CASE d.verified
  <2>1. DOMAIN o = 1..1 /\ o[1] = Case(d)
    BY <1>5, <1>6
  <2>2. Case(d)[1] = d.key
    BY DEF Case
  <2>3. Keys(o) = {d.key}
    BY <2>1, <2>2 DEF Keys
  <2>4. \A v : Stands(o, v) <=> v = Case(d)
    BY <2>1 DEF Stands
  <2>5. QED
    BY <1>6, <2>3, <2>4
<1>7. CASE ~d.verified
  <2>1. o = <<>> /\ DOMAIN o = {}
    BY <1>5, <1>7
  <2>2. QED
    BY <1>7, <2>1 DEF Keys, Stands
<1>8. QED
  BY <1>6, <1>7

LEMMA CasesStand ==
  ASSUME NEW D, NEW t \in Seq(D), NEW m, m = Len(t), NEW n \in 0..m
  PROVE  \A v : Stands(VerifiedCases(SubSeq(t, 1, n)), v) <=> IsLastCase(v, t, n)
<1>. DEFINE P(k) == \A v : Stands(VerifiedCases(SubSeq(t, 1, k)), v) <=> IsLastCase(v, t, k)
            T == {k \in Nat : k <= m => P(k)}
<1>0. m \in Nat /\ \A i \in 1..m : t[i] \in D
  BY LenProperties
<1>1. 0 \in T
  <2>1. SubSeq(t, 1, 0) = <<>>
    BY SubSeqEmpty
  <2>2. VerifiedCases(<<>>) = <<>>
    <3>1. <<>> \in Seq(D)
      BY EmptySeq
    <3>2. QED
      BY <3>1, VerifiedSpreads, SpreadEmpty
  <2>3. \A v : ~Stands(<<>>, v) /\ ~IsLastCase(v, t, 0)
    BY DEF Stands, IsLastCase
  <2>4. P(0)
    BY <2>1, <2>2, <2>3
  <2>. HIDE DEF P
  <2>5. QED
    BY <2>4
<1>2. ASSUME NEW k \in Nat, k \in T PROVE k + 1 \in T
  <2>1. SUFFICES ASSUME k + 1 <= m PROVE P(k + 1)
    BY DEF T
  <2>2. k <= m /\ k + 1 \in 1..m /\ (k + 1) - 1 = k /\ 1 \in 1..m
    BY <1>0, <2>1
  <2>3. P(k)
    <3>. HIDE DEF P
    <3>1. QED
      BY <1>2, <2>2
  <2>4. PICK d \in D : d = t[k + 1]
    BY <1>0, <2>2
  <2>5. PICK I : I = {Case(e) : e \in D}
    OBVIOUS
  <2>6. PICK p, r : p = SubSeq(t, 1, k) /\ r = <<d>>
    OBVIOUS
  <2>7. p \in Seq(D) /\ r \in Seq(D)
    <3>1. \A i \in 1..k : t[i] \in D
      BY <1>0, <2>1
    <3>2. p \in Seq(D)
      BY <2>6, <3>1, SubSeqProperties
    <3>3. QED
      BY <2>6, <3>2
  <2>8. SubSeq(t, 1, k + 1) = p \o r
    BY <2>2, <2>4, <2>6, SubSeqRecursiveSecond
  <2>9. PICK x, o : x = VerifiedCases(p) /\ o = VerifiedCases(r)
    OBVIOUS
  <2>10. x \in Seq(I) /\ o \in Seq(I) /\ VerifiedCases(p \o r) = x \o o
    <3>1. CasesJoin(x, o, p, r, I)
      BY <2>5, <2>7, <2>9, VerifiedJoined
    <3>2. QED
      BY <3>1 DEF CasesJoin
  <2>11. ASSUME NEW v PROVE Stands(x \o o, v) <=> IsLastCase(v, t, k + 1)
    <3>1. Stands(x \o o, v) <=> Stands(o, v) \/ (Stands(x, v) /\ v[1] \notin Keys(o))
      BY <2>10, StandsJoined
    <3>2. Stands(x, v) <=> IsLastCase(v, t, k)
      BY <2>3, <2>6, <2>9
    <3>3. /\ d.verified => Keys(o) = {d.key} /\ (Stands(o, v) <=> v = Case(d))
          /\ ~d.verified => Keys(o) = {} /\ ~Stands(o, v)
      BY <2>6, <2>9, RowStands
    <3>4. IsLastCase(v, t, k + 1)
            <=> \/ d.verified /\ v = Case(d)
                \/ IsLastCase(v, t, k) /\ ~(d.verified /\ v[1] = d.key)
      <4>1. \A i \in 1..k : Case(t[i])[1] = t[i].key
        BY DEF Case
      <4>2. ASSUME IsLastCase(v, t, k + 1)
            PROVE  \/ d.verified /\ v = Case(d)
                   \/ IsLastCase(v, t, k) /\ ~(d.verified /\ v[1] = d.key)
        <5>1. PICK i \in 1..(k + 1) :
                /\ t[i].verified /\ v = Case(t[i])
                /\ \A j \in (i + 1)..(k + 1) : t[j].verified => t[j].key # t[i].key
          BY <4>2 DEF IsLastCase
        <5>2. CASE i = k + 1
          BY <2>4, <5>1, <5>2
        <5>3. CASE i # k + 1
          <6>1. i \in 1..k /\ k + 1 \in (i + 1)..(k + 1)
            BY <5>3
          <6>2. \A j \in (i + 1)..k : j \in (i + 1)..(k + 1)
            BY <6>1
          <6>3. IsLastCase(v, t, k)
            BY <5>1, <6>1, <6>2 DEF IsLastCase
          <6>4. v[1] = t[i].key
            BY <4>1, <5>1, <6>1
          <6>5. d.verified => d.key # t[i].key
            BY <2>4, <5>1, <6>1
          <6>6. QED
            BY <6>3, <6>4, <6>5
        <5>4. QED
          BY <5>2, <5>3
      <4>3. ASSUME d.verified, v = Case(d) PROVE IsLastCase(v, t, k + 1)
        <5>1. k + 1 \in 1..(k + 1) /\ \A j \in ((k + 1) + 1)..(k + 1) : FALSE
          OBVIOUS
        <5>2. QED
          BY <2>4, <4>3, <5>1 DEF IsLastCase
      <4>4. ASSUME IsLastCase(v, t, k), ~(d.verified /\ v[1] = d.key)
            PROVE  IsLastCase(v, t, k + 1)
        <5>1. PICK i \in 1..k :
                /\ t[i].verified /\ v = Case(t[i])
                /\ \A j \in (i + 1)..k : t[j].verified => t[j].key # t[i].key
          BY <4>4 DEF IsLastCase
        <5>2. v[1] = t[i].key
          BY <4>1, <5>1
        <5>3. ASSUME NEW j \in (i + 1)..(k + 1), t[j].verified PROVE t[j].key # t[i].key
          <6>1. j = k + 1 \/ j \in (i + 1)..k
            OBVIOUS
          <6>2. QED
            BY <2>4, <4>4, <5>1, <5>2, <5>3, <6>1
        <5>4. i \in 1..(k + 1)
          OBVIOUS
        <5>5. QED
          BY <5>1, <5>3, <5>4 DEF IsLastCase
      <4>5. QED
        BY <4>2, <4>3, <4>4
    <3>5. QED
      BY <3>1, <3>2, <3>3, <3>4
  <2>12. P(k + 1)
    BY <2>8, <2>10, <2>11
  <2>13. QED
    BY <2>12
<1>3. n \in Nat /\ n <= m
  BY <1>0
<1>4. n \in T
  <2>. HIDE DEF T
  <2>1. QED
    BY <1>1, <1>2, <1>3, Induction
<1>5. P(n)
  <2>. HIDE DEF P
  <2>1. QED
    BY <1>3, <1>4
<1>6. QED
  BY <1>5

\* The files that m exports write one after the other.
Exported(f, t, m) ==
  f = [k \in 0..m |-> IF k = 0 THEN <<>> ELSE ExportCases(f[k - 1], <<t[k]>>)]

CasesOf(t, k) == ByKey(VerifiedCases(SubSeq(t, 1, k)))

LEMMA CasesStart == CasesOf(<<>>, 0) = <<>> /\ \A t : CasesOf(t, 0) = <<>>
<1>1. \A t : SubSeq(t, 1, 0) = <<>>
  BY SubSeqEmpty
<1>2. VerifiedCases(<<>>) = <<>>
  <2>1. <<>> \in Seq({})
    BY EmptySeq
  <2>2. QED
    BY <2>1, VerifiedSpreads, SpreadEmpty
<1>3. ByKey(<<>>) = <<>>
  <2>1. <<>> \in Seq({}) /\ Keys(<<>>) = {}
    BY EmptySeq DEF Keys
  <2>2. IsFile(ByKey(<<>>), <<>>, {})
    BY <2>1, ByKeyFacts
  <2>3. Cardinality({}) = 0
    BY FS_EmptySet
  <2>4. ByKey(<<>>) \in Seq({}) /\ Len(ByKey(<<>>)) = 0
    BY <2>1, <2>2, <2>3 DEF IsFile
  <2>5. QED
    BY <2>4, EmptySeq
<1>4. QED
  BY <1>1, <1>2, <1>3 DEF CasesOf

LEMMA CasesStep ==
  ASSUME NEW D, \A d \in D : d.key \in Nat, NEW t \in Seq(D), NEW m, m = Len(t), NEW k \in 1..m
  PROVE  CasesOf(t, k) = ExportCases(CasesOf(t, k - 1), <<t[k]>>)
<1>0. m \in Nat /\ \A i \in 1..m : t[i] \in D
  BY LenProperties
<1>1. PICK j \in Nat : j = k - 1 /\ k = j + 1 /\ j + 1 <= m
  BY <1>0
<1>2. PICK d \in D : d = t[k]
  BY <1>0
<1>3. PICK I : I = {Case(e) : e \in D}
  OBVIOUS
<1>4. \A v \in I : v[1] \in Nat
  BY <1>3 DEF Case
<1>5. PICK p, r : p = SubSeq(t, 1, j) /\ r = <<d>>
  OBVIOUS
<1>6. p \in Seq(D) /\ r \in Seq(D)
  <2>1. \A i \in 1..j : t[i] \in D
    BY <1>0, <1>1
  <2>2. p \in Seq(D)
    BY <1>5, <2>1, SubSeqProperties
  <2>3. QED
    BY <1>5, <2>2
<1>7. SubSeq(t, 1, k) = p \o r
  <2>1. 1 \in 1..m /\ j + 1 \in 1..m
    BY <1>0, <1>1
  <2>2. QED
    BY <1>1, <1>2, <1>5, <2>1, SubSeqRecursiveSecond
<1>8. PICK x, o : x = VerifiedCases(p) /\ o = VerifiedCases(r)
  OBVIOUS
<1>9. x \in Seq(I) /\ o \in Seq(I) /\ VerifiedCases(p \o r) = x \o o
  <2>1. CasesJoin(x, o, p, r, I)
    BY <1>3, <1>6, <1>8, VerifiedJoined
  <2>2. QED
    BY <2>1 DEF CasesJoin
<1>10. ByKey(ByKey(x) \o o) = ByKey(x \o o)
  BY <1>4, <1>9, ByKeyTwice
<1>11. ExportCases(ByKey(x), r) = ByKey(ByKey(x) \o o)
  BY <1>8 DEF ExportCases, Merge
<1>12. QED
  BY <1>1, <1>2, <1>5, <1>7, <1>8, <1>9, <1>10, <1>11 DEF CasesOf

LEMMA ExportedOnce ==
  ASSUME NEW D, \A d \in D : d.key \in Nat, NEW t \in Seq(D), NEW m, m = Len(t),
         NEW f, f = CHOOSE g : Exported(g, t, m)
  PROVE  f[m] = CasesOf(t, m)
<1>0. m \in Nat
  BY LenProperties
<1>1. \E g : Exported(g, t, m)
  <2>1. PICK g : g = [k \in 0..m |-> CasesOf(t, k)]
    OBVIOUS
  <2>2. ASSUME NEW k \in 0..m
        PROVE  CasesOf(t, k) = IF k = 0 THEN <<>> ELSE ExportCases(g[k - 1], <<t[k]>>)
    <3>1. CASE k = 0
      BY <3>1, CasesStart
    <3>2. CASE k # 0
      <4>1. k \in 1..m /\ k - 1 \in 0..m
        BY <1>0, <3>2
      <4>2. g[k - 1] = CasesOf(t, k - 1)
        BY <2>1, <4>1
      <4>3. QED
        BY <3>2, <4>1, <4>2, CasesStep
    <3>3. QED
      BY <3>1, <3>2
  <2>3. Exported(g, t, m)
    BY <2>1, <2>2 DEF Exported
  <2>4. QED
    BY <2>3
<1>2. Exported(f, t, m)
  BY <1>1
<1>. DEFINE T == {k \in Nat : k <= m => f[k] = CasesOf(t, k)}
<1>3. 0 \in T
  <2>0. 0 \in 0..m
    BY <1>0
  <2>1. f[0] = <<>>
    BY <1>2, <2>0 DEF Exported
  <2>2. QED
    BY <2>1, CasesStart
<1>4. ASSUME NEW k \in Nat, k \in T PROVE k + 1 \in T
  <2>1. SUFFICES ASSUME k + 1 <= m PROVE f[k + 1] = CasesOf(t, k + 1)
    OBVIOUS
  <2>2. k + 1 \in 1..m /\ k + 1 \in 0..m /\ k + 1 # 0 /\ (k + 1) - 1 = k /\ k <= m
    BY <1>0, <2>1
  <2>3. f[k + 1] = ExportCases(f[k], <<t[k + 1]>>)
    BY <1>2, <2>2 DEF Exported
  <2>4. f[k] = CasesOf(t, k)
    BY <1>4, <2>2
  <2>5. CasesOf(t, k + 1) = ExportCases(CasesOf(t, k), <<t[k + 1]>>)
    BY <2>2, CasesStep
  <2>6. QED
    BY <2>3, <2>4, <2>5
<1>. HIDE DEF T
<1>5. m \in T
  BY <1>0, <1>3, <1>4, Induction
<1>6. QED
  BY <1>0, <1>5 DEF T

Follows(t) ==
  LET files[n \in 0..Len(t)] ==
        IF n = 0 THEN <<>> ELSE ExportCases(files[n - 1], <<t[n]>>)
      file == files[Len(t)]
      last == {n \in DOMAIN t :
                 /\ t[n].verified
                 /\ \A k \in (n + 1)..Len(t) :
                      t[k].verified => t[k].key # t[n].key}
  IN  /\ {file[k] : k \in DOMAIN file} = {<<t[n].key, t[n].label>> : n \in last}
      /\ \A i, j \in DOMAIN file : i < j => file[i][1] < file[j][1]

LEMMA CasesFacts ==
  ASSUME NEW D, \A d \in D : d.key \in Nat, NEW t \in Seq(D)
  PROVE  Follows(t)
<1>1. PICK m \in Nat : m = Len(t) /\ DOMAIN t = 1..m
  BY LenProperties
<1>2. PICK f, file : f = (CHOOSE g : Exported(g, t, Len(t))) /\ file = f[Len(t)]
  OBVIOUS
<1>3. PICK x : x = VerifiedCases(t)
  OBVIOUS
<1>4. file = ByKey(x)
  <2>1. file = CasesOf(t, Len(t))
    BY <1>2, ExportedOnce
  <2>2. SubSeq(t, 1, Len(t)) = t
    BY SubSeqFull
  <2>3. QED
    BY <1>3, <2>1, <2>2 DEF CasesOf
<1>5. PICK I : I = {Case(e) : e \in D}
  OBVIOUS
<1>6. x \in Seq(I) /\ \A v \in I : v[1] \in Nat
  <2>1. x = Spread(t, Confirmed(D))
    BY <1>3, VerifiedSpreads
  <2>2. Confirmed(D) \in Replacements(D, I)
    BY <1>5, ConfirmedType
  <2>3. x \in Seq(I)
    BY <2>1, <2>2, SpreadType
  <2>4. QED
    BY <1>5, <2>3 DEF Case
<1>7. IsFile(file, x, I)
  BY <1>4, <1>6, ByKeyFacts
<1>8. \A v : Stands(x, v) <=> IsLastCase(v, t, m)
  <2>1. SubSeq(t, 1, m) = t /\ m \in 0..m
    BY <1>1, SubSeqFull
  <2>2. QED
    BY <1>1, <1>3, <2>1, CasesStand
<1>9. PICK last : last = {n \in DOMAIN t :
                 /\ t[n].verified
                 /\ \A k \in (n + 1)..Len(t) :
                      t[k].verified => t[k].key # t[n].key}
  OBVIOUS
<1>10. \A v : IsLastCase(v, t, m) <=> \E n \in last : v = Case(t[n])
  BY <1>1, <1>9 DEF IsLastCase
<1>11. {file[k] : k \in DOMAIN file} = {Case(t[n]) : n \in last}
  BY <1>7, <1>8, <1>10 DEF IsFile
<1>12. \A i, j \in DOMAIN file : i < j => file[i][1] < file[j][1]
  BY <1>7 DEF IsFile, InOrder
<1>13. QED
  BY <1>2, <1>9, <1>11, <1>12 DEF Follows, Exported, Case

\* THEOREM: after any number of exports the file of evaluation cases holds the last
\* label that a human has confirmed of each report, in the order of the keys
\* (CasesFollowTheHuman; export_eval_cases.py:64-105).
THEOREM CasesFollow == Spec => []CasesFollowTheHuman
<1>1. Written => CasesFollowTheHuman
  <2>1. SUFFICES ASSUME Written, rule = "cases" PROVE CasesFollowTheHuman
    BY DEF CasesFollowTheHuman
  <2>2. PICK D : D = Symbols(rule)
    OBVIOUS
  <2>3. PICK t : t \in Seq(D) /\ t = text
    BY <2>1, <2>2, TextType
  <2>4. \A d \in D : d.key \in Nat
    <3>1. "cases" \in Rules
      BY <2>1 DEF Written
    <3>2. ASSUME NEW p \in PiecesOf["cases"], NEW d \in Range(p) PROVE d.key \in Nat
      BY <3>1, TextAssumption DEF Range
    <3>3. QED
      BY <2>1, <2>2, <3>2 DEF Symbols
  <2>5. Follows(text)
    BY <2>3, <2>4, CasesFacts
  <2>6. QED
    BY <2>5 DEF Follows, CasesFollowTheHuman
<1>2. QED
  BY <1>1, WrittenHolds, PTL

=============================================================================
