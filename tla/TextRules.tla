----------------------------- MODULE TextRules ------------------------------
(***************************************************************************)
(* What ingestion does to the text of a report before and after the LLM:   *)
(* masking (app/infra/masking/pii.py), normalisation                       *)
(* (app/infra/text/normalize.py), division into chunks                     *)
(* (app/services/ingest.py) and the table of summaries of the              *)
(* demonstration (app/infra/llm/summaries.py).                             *)
(*                                                                         *)
(* A text is a sequence of symbols.  A symbol stands for every character   *)
(* that the rules treat alike.                                             *)
(***************************************************************************)
EXTENDS Naturals, SequencesExt

(***************************************************************************)
(* Replacement, as str.replace, str.split and re.sub do it: matches are    *)
(* taken from the left and do not overlap.  ends[i] is where the match     *)
(* that starts at i ends, or 0.                                            *)
(***************************************************************************)
Spans(text, ends) ==
  LET from[i \in 1..(Len(text) + 1)] ==
        IF i > Len(text) THEN <<>>
        ELSE IF ends[i] = 0 THEN from[i + 1]
        ELSE <<<<i, ends[i]>>>> \o from[ends[i] + 1]
  IN  from[1]

\* The text before, between and after the spans.
Gaps(text, spans) ==
  LET n == Len(spans) IN
  [k \in 1..(n + 1) |->
     SubSeq(text, IF k = 1 THEN 1 ELSE spans[k - 1][2] + 1,
                  IF k > n THEN Len(text) ELSE spans[k][1] - 1)]

\* The k-th span becomes new[k].
Substitute(text, spans, new) ==
  LET gaps == Gaps(text, spans) IN
  FlattenSeq([k \in 1..Len(gaps) |->
                IF k = 1 THEN gaps[1] ELSE new[k - 1] \o gaps[k]])

OccursAt(text, pattern, i) ==
  /\ i + Len(pattern) - 1 <= Len(text)
  /\ SubSeq(text, i, i + Len(pattern) - 1) = pattern

Occurrences(text, pattern) ==
  Spans(text, [i \in 1..Len(text) |->
                 IF OccursAt(text, pattern, i) THEN i + Len(pattern) - 1 ELSE 0])

Replace(text, pattern, new) ==
  LET spans == Occurrences(text, pattern)
  IN  Substitute(text, spans, [k \in 1..Len(spans) |-> new])

\* One replacement after the other; pairs are <<pattern, new>>.
ReplaceEach(text, pairs) ==
  LET after[k \in 0..Len(pairs)] ==
        IF k = 0 THEN text
        ELSE LET before == after[k - 1] IN
             IF Len(before) < Len(pairs[k][1]) THEN before
             ELSE Replace(before, pairs[k][1], pairs[k][2])
  IN  after[Len(pairs)]

Split(text, pattern) == Gaps(text, Occurrences(text, pattern))

\* s without its members of S, as [x for x in s if x not in S].
Without(s, S) == FlattenSeq([i \in DOMAIN s |-> IF s[i] \in S THEN <<>> ELSE <<s[i]>>])

-----------------------------------------------------------------------------
(***************************************************************************)
(* Masking.  "N" is a morpheme that the analyser takes for a personal      *)
(* name, "w" a letter; a placeholder is <<kind, n>>, any other symbol      *)
(* <<s, 0>>.                                                               *)
(***************************************************************************)
Plain(text) == [i \in 1..Len(text) |-> <<text[i], 0>>]

Digits == {"0", "1"}
Word   == Digits \cup {"w", "N"}   \* \w

All(text, i, j, class) == \A k \in i..j : text[k] \in class \X {0}

\* [\w.+-]+@[\w-]+\.[\w.-]+
IsEmail(text, i, j) ==
  \E at \in (i + 1)..(j - 3) : \E dot \in (at + 2)..(j - 1) :
    /\ text[at] = <<"@", 0>> /\ text[dot] = <<".", 0>>
    /\ All(text, i, at - 1, Word \cup {".", "-"})
    /\ All(text, at + 1, dot - 1, Word \cup {"-"})
    /\ All(text, dot + 1, j, Word \cup {".", "-"})

\* 0\d{1,4}-?\d{1,4}-?\d{3,4}
IsPhone(text, i, j) ==
  /\ text[i] = <<"0", 0>>
  /\ \E a \in 1..4, b \in 1..4, c \in 3..4, d \in 0..1, e \in 0..1 :
       LET first == i + a + 1   second == i + a + d + b + 1 IN
       /\ second + e + c - 1 = j
       /\ d = 1 => text[first] = <<"-", 0>>
       /\ e = 1 => text[second] = <<"-", 0>>
       /\ All(text, i + 1, first - 1, Digits)
       /\ All(text, first + d, second - 1, Digits)
       /\ All(text, second + e, j, Digits)

IsName(text, i, j) == i = j /\ text[i] = <<"N", 0>>

Is(kind, text, i, j) ==
  CASE kind = "PERSON" -> IsName(text, i, j)
    [] kind = "EMAIL"  -> IsEmail(text, i, j)
    [] kind = "PHONE"  -> IsPhone(text, i, j)

\* The spans that are of a kind; of the matches at a place, the longest.
Matches(text, kind) ==
  Spans(text, [i \in 1..Len(text) |->
                 Max({j \in i..Len(text) : Is(kind, text, i, j)} \cup {0})])

\* The mapping after a pass that has put tokens where original says.
Mapped(original, mapping) ==
  [t \in DOMAIN original \cup DOMAIN mapping |->
     IF t \in DOMAIN original THEN original[t] ELSE mapping[t]]

\* Variant: the counter of the kind stays where it is.
Hide_SameToken(m, kind) ==
  LET spans == Matches(m.text, kind)
  IN  [text    |-> Substitute(m.text, spans,
                     [k \in 1..Len(spans) |-> <<<<kind, 1>>>>]),
       mapping |-> Mapped([t \in {kind} \X {k \in {1} : spans # <<>>} |->
                      SubSeq(m.text, Last(spans)[1], Last(spans)[2])], m.mapping)]

\* One pass: the k-th match becomes <<kind, k>>; the mapping keeps what it was.
Hide(m, kind) ==
  LET spans == Matches(m.text, kind)
  IN  [text    |-> Substitute(m.text, spans,
                     [k \in 1..Len(spans) |-> <<<<kind, k>>>>]),
       mapping |-> Mapped([t \in {kind} \X (1..Len(spans)) |->
                      SubSeq(m.text, spans[t[2]][1], spans[t[2]][2])], m.mapping)]

Unmasked(text) == [text |-> Plain(text), mapping |-> [t \in {} |-> <<>>]]

\* Variant: phone numbers before addresses.
Mask_PhoneFirst(text) ==
  Hide(Hide(Hide(Unmasked(text), "PERSON"), "PHONE"), "EMAIL")

\* _mask_sync: names, then addresses, then phone numbers.
Mask(text) == Hide(Hide(Hide(Unmasked(text), "PERSON"), "EMAIL"), "PHONE")

-----------------------------------------------------------------------------
(* Normalisation: corrections is a sequence of <<variant, canonical>>. *)

\* Variant: the shortest first.
LongestFirst_Reversed(corrections) ==
  LET longest == Max({Len(corrections[k][1]) : k \in DOMAIN corrections} \cup {0})
  IN  FlattenSeq([k \in 1..longest |->
        Without(corrections, {p \in Range(corrections) : Len(p[1]) # k})])

\* A stable sort by the length of the variant; an empty variant is not used.
LongestFirst(corrections) ==
  LET longest == Max({Len(corrections[k][1]) : k \in DOMAIN corrections} \cup {0})
  IN  FlattenSeq([k \in 1..longest |->
        Without(corrections, {p \in Range(corrections) : Len(p[1]) # longest + 1 - k})])

\* TextNormalizer.normalize.
Normalize(text, corrections) == ReplaceEach(text, LongestFirst(corrections))

-----------------------------------------------------------------------------
(* Chunks. *)
Blank == {"sp", "nl"}

Strip(text) ==
  LET solid == {i \in 1..Len(text) : text[i] \notin Blank}
  IN  IF solid = {} THEN <<>> ELSE SubSeq(text, Min(solid), Max(solid))

BlankLine == <<"nl", "nl">>

Paragraphs(text) ==
  LET parts == Split(text, BlankLine)
  IN  Without([k \in DOMAIN parts |-> Strip(parts[k])], {<<>>})

\* Variant: the paragraph that the first chunk holds and the next are dropped.
BuildChunks_SkipsOne(summary, text, limit) ==
  LET paragraphs == Paragraphs(text) IN
  IF Len(text) <= limit \/ paragraphs = <<>>
  THEN <<summary \o BlankLine \o text>>
  ELSE <<summary \o BlankLine \o paragraphs[1]>>
         \o SubSeq(paragraphs, 3, Len(paragraphs))

\* _build_chunks: limit is LONG_TEXT_CHARS.
BuildChunks(summary, text, limit) ==
  LET paragraphs == Paragraphs(text) IN
  IF Len(text) <= limit \/ paragraphs = <<>>
  THEN <<summary \o BlankLine \o text>>
  ELSE <<summary \o BlankLine \o paragraphs[1]>> \o Tail(paragraphs)

-----------------------------------------------------------------------------
(***************************************************************************)
(* The summaries: originals is the sequence of keys of the table.  Blanks  *)
(* are removed; a placeholder of the masking stands in brackets.           *)
(***************************************************************************)
KeyOf(text) == Without(text, Blank)

\* What follows the first closing bracket, if there is one.
Behind(chunk) ==
  LET closing == {i \in 1..Len(chunk) : chunk[i] = "]"}
  IN  IF closing = {} THEN chunk ELSE SubSeq(chunk, Min(closing) + 1, Len(chunk))

\* The fragments of a masked key, between the placeholders.
Fragments(key) ==
  LET chunks == Split(key, <<"[">>)
  IN  Without([k \in DOMAIN chunks |-> Behind(chunks[k])], {<<>>})

\* str.find.
Find(key, fragment, start) ==
  Min({i \in start..Len(key) : OccursAt(key, fragment, i)} \cup {Len(key) + 1})

\* Variant: the search starts where the last fragment was found, not after it.
MatchesMasked_Overlapping(masked, original) ==
  LET fragments == Fragments(masked)
      pos[k \in 0..Len(fragments)] ==
        IF k = 0 THEN 1 ELSE Find(original, fragments[k], pos[k - 1])
  IN  /\ Contains(masked, "[")
      /\ pos[Len(fragments)] <= Len(original)
      /\ Len(FlattenSeq(fragments)) >= Len(original) \div 2

\* Each fragment is looked for after the one before; at least half is there.
MatchesMasked(masked, original) ==
  LET fragments == Fragments(masked)
      pos[k \in 0..Len(fragments)] ==
        IF k = 0 THEN 1
        ELSE Find(original, fragments[k], pos[k - 1]) + Len(fragments[k])
  IN  /\ Contains(masked, "[")
      /\ pos[Len(fragments)] <= Len(original) + 1
      /\ Len(FlattenSeq(fragments)) >= Len(original) \div 2

\* lookup: the original that the summary is of, or 0.
Lookup(text, originals) ==
  LET key == KeyOf(text)
      exact == {i \in DOMAIN originals : originals[i] = key}
      alike == {i \in DOMAIN originals : MatchesMasked(key, originals[i])}
  IN  IF exact # {} THEN Min(exact)
      ELSE IF alike # {} THEN Min(alike) ELSE 0

-----------------------------------------------------------------------------
(* Citations of an answer; "[report:" is one symbol. *)
CiteDigits == {"0", "1"}

Number(digits) ==
  LET value[k \in 0..Len(digits)] ==
        IF k = 0 THEN 0
        ELSE 10 * value[k - 1] + (IF digits[k] = "1" THEN 1 ELSE 0)
  IN  value[Len(digits)]

\* \[report:(\d+)\]
IsCitation(text, i, j) ==
  /\ j > i + 1 /\ text[i] = "[report:" /\ text[j] = "]"
  /\ \A k \in (i + 1)..(j - 1) : text[k] \in CiteDigits

\* _parse_citations.
ParseCitations(text) ==
  LET spans == Spans(text, [i \in 1..Len(text) |->
                 Max({j \in i..Len(text) : IsCitation(text, i, j)} \cup {0})])
  IN  {Number(SubSeq(text, s[1] + 1, s[2] - 1)) : s \in {spans[k] : k \in DOMAIN spans}}

\* Variant: each token is looked at when it comes.
CitedBy_TokenByToken(tokens) ==
  UNION {ParseCitations(tokens[k]) : k \in DOMAIN tokens}

\* search: the citations of the joined tokens.
CitedBy(tokens) == ParseCitations(FlattenSeq(tokens))

\* _FakeAnswerStream: the tokens that cite the first source, after its summary.
FakeAnswer(id, summary) ==
  << <<"according">>, summary \o <<"sp">>,
     <<"[report:">> \o id \o <<"]">>, <<"applies">> >>
=============================================================================
