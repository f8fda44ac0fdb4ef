----------------------------- MODULE TextCases ------------------------------
(***************************************************************************)
(* Every text up to a bound, put through one of the rules.  A behaviour    *)
(* writes a text piece by piece; the properties compare what the rule      *)
(* makes of it with what it is for.                                        *)
(***************************************************************************)
EXTENDS EvaluationRules

CONSTANTS
  Rules,      \* "mask", "drift", "merge", "cases", "chunks", "lookup",
              \* "answer"
  PiecesOf,   \* PiecesOf[rule]: what a text is written with
  BoundOf,    \* BoundOf[rule]: bound: pieces of a text
  Reviewed,   \* corrections that reviewers have added to the dictionary
  LongText,   \* LONG_TEXT_CHARS
  Originals   \* the table of summaries

IsText(s) == s \in Seq(Range(s))

ASSUME TextAssumption ==
  /\ \A r \in Rules : \A p \in PiecesOf[r] : IsText(p)
  /\ IsText(Originals) /\ \A i \in DOMAIN Originals : IsText(Originals[i])
  /\ LongText \in Nat
  /\ IsText(Reviewed) /\ \A k \in DOMAIN Reviewed :
                          IsText(Reviewed[k][1]) /\ IsText(Reviewed[k][2])
  \* Numbers stand for the keys of a file, which are strings.
  /\ "merge" \in Rules =>
       \A p \in PiecesOf["merge"] : \A i \in DOMAIN p : p[i][1] \in Nat
  /\ "cases" \in Rules =>
       \A p \in PiecesOf["cases"] : \A i \in DOMAIN p : p[i].key \in Nat

VARIABLES rule, pieces

vars == <<rule, pieces>>

Init == rule \in Rules /\ pieces = <<>>

Extend ==
  /\ Len(pieces) < BoundOf[rule]
  /\ \E p \in PiecesOf[rule] : pieces' = Append(pieces, p)
  /\ UNCHANGED rule

Spec == Init /\ [][Extend]_vars

text == FlattenSeq(pieces)

-----------------------------------------------------------------------------
(* Properties. *)

Restored(m) ==
  FlattenSeq([i \in DOMAIN m.text |->
    IF m.text[i] \in DOMAIN m.mapping THEN m.mapping[m.text[i]] ELSE <<m.text[i]>>])

\* The mapping gives back the text, and no name, address or phone number is left,
\* however they are written next to each other (pii.py, three passes in turn over
\* a text that already has placeholders).
MaskingIsComplete ==
  rule = "mask" =>
    LET m == Mask(text) IN
    /\ Restored(m) = Plain(text)
    /\ \A kind \in {"PERSON", "EMAIL", "PHONE"} : Matches(m.text, kind) = <<>>

\* An address is hidden whole, also one that holds a phone number ("the phone rule
\* must not misfire", pii.py:67).  One with a personal name in it is not: the
\* names go first.
AddressesAreHiddenWhole ==
  rule = "mask" /\ ~Contains(text, "N") =>
    LET spans   == Matches(Plain(text), "EMAIL")
        mapping == Mask(text).mapping
    IN  \A k \in DOMAIN spans :
          /\ <<"EMAIL", k>> \in DOMAIN mapping
          /\ mapping[<<"EMAIL", k>>]
               = SubSeq(Plain(text), spans[k][1], spans[k][2])

Dictionary == GoldenCorrections \o Reviewed

\* Where the dictionary finds a variant.
Variants(t) ==
  {s \in (DOMAIN t) \X (DOMAIN t) :
     \E k \in DOMAIN Dictionary : /\ OccursAt(t, Dictionary[k][1], s[1])
                                  /\ s[2] = s[1] + Len(Dictionary[k][1]) - 1}

\* Two variants share letters and neither lies within the other.
Collide(t) == \E a, b \in Variants(t) : a[1] < b[1] /\ b[1] <= a[2] /\ a[2] < b[2]

\* Whether a report has drifted makes no difference once it is normalised, also when
\* reviewers have added a part of a longer variant (normalize.py:37) and when the
\* text has lost its end; only a spelling that runs into another may be misread.
DriftMakesNoDifference ==
  rule = "drift" /\ ~Collide(Drift(text)) =>
    \A missing \in BOOLEAN :
      Normalize(Noisy(text, TRUE, missing), Dictionary)
        = Normalize(Noisy(text, FALSE, missing), Dictionary)

Rank == [low |-> 0, medium |-> 1, high |-> 2]

\* Normalising plays nothing down: a correction may hit ordinary words and spoil a
\* keyword there ("ke ga" + "su" becomes "ke GA SU"), and yet the report the
\* classifier sees is as urgent as before and needs action if it did (ingest.py:87).
NothingIsPlayedDown ==
  rule = "drift" =>
    LET before == Classified(text)
        after  == Classified(Normalize(text, Dictionary))
    IN  /\ Rank[before.urgency] <= Rank[after.urgency]
        /\ before.action => after.action

\* However reviews are divided into exports, and if one is exported twice, the
\* file ends up with one item per key, the last one, in the order of the keys; the
\* numbers of added items sum up to its length.
LastReviewWins ==
  rule = "merge" =>
    \A n \in 0..Len(text) :
      LET incoming == Loaded(SubSeq(text, n + 1, Len(text)))
          first    == Merge(<<>>, Loaded(SubSeq(text, 1, n)))
          second   == Merge(first.items, incoming)
          items    == second.items
      IN  /\ Keys(items) = Keys(Loaded(text))
          /\ \A i, j \in DOMAIN items : i < j => items[i][1] < items[j][1]
          /\ \A i \in DOMAIN Loaded(text) :
               LET item == Loaded(text)[i] IN
               ~Contains(items, item) =>
                 \E j \in DOMAIN Loaded(text) :
                   j > i /\ Loaded(text)[j][1] = item[1]
          /\ first.added + second.added = Len(items)
          /\ Merge(items, incoming) = [items |-> items, added |-> 0]

\* No word of a report is lost or moved on its way into the index, the summary
\* stands in the first chunk alone, and no chunk is empty (ingest.py:175-189).
ChunksHoldTheText ==
  rule = "chunks" =>
    LET chunks == BuildChunks(<<"S">>, text, LongText) IN
    /\ KeyOf(FlattenSeq(chunks)) = <<"S">> \o KeyOf(text)
    /\ \A k \in DOMAIN chunks : KeyOf(chunks[k]) # <<>>

\* original is what masked was made of: each placeholder hid some part of it, and
\* parts may be missing before and after.
Embeds(masked, original) ==
  LET fragments == Fragments(masked)
      lasts     == [0..Len(fragments) -> 0..Len(original)]
  IN  \E last \in lasts :
        /\ last[0] = 0
        /\ \A k \in DOMAIN fragments :
             LET start == last[k] - Len(fragments[k]) + 1 IN
             start > last[k - 1] /\ OccursAt(original, fragments[k], start)

\* Taking each fragment at its first place misses no embedding, and finds nothing
\* else: a masked text finds the original it was made of, or one before it in the
\* table that also fits (summaries.py:64-89).
LookupFindsTheOriginal ==
  rule = "lookup" =>
    LET key     == KeyOf(text)
        fitting == {i \in DOMAIN Originals :
                      \/ Originals[i] = key
                      \/ /\ Contains(key, "[") /\ Embeds(key, Originals[i])
                         /\ Len(FlattenSeq(Fragments(key)))
                              >= Len(Originals[i]) \div 2}
    IN  Lookup(text, Originals) \in
          IF fitting = {} THEN {0}
          ELSE {Min(fitting)} \cup {i \in fitting : Originals[i] = key}

\* The ids of all citations, wherever they stand.
Cites(t) ==
  {Number(SubSeq(t, b[1] + 1, b[2] - 1)) :
     b \in {c \in (1..Len(t)) \X (1..Len(t)) : IsCitation(t, c[1], c[2])}}

\* However the model divides its answer into tokens, a citation counts, and nothing
\* else does; the answer of the demonstration cites its source whatever the summary
\* in it says (search.py:122).
CitationsSurviveTokens ==
  rule = "answer" =>
    /\ CitedBy(pieces) = Cites(text)
    /\ CitedBy(FakeAnswer(<<"1", "0">>, text)) = Cites(text) \cup {10}

\* After any number of exports the file holds the last label that a human has
\* confirmed of each report, in the order of the keys; a report that is later
\* exported with another label replaces its case (export_eval_cases.py:64).
CasesFollowTheHuman ==
  rule = "cases" =>
    LET files[n \in 0..Len(text)] ==
          IF n = 0 THEN <<>> ELSE ExportCases(files[n - 1], <<text[n]>>)
        file == files[Len(text)]
        last == {n \in DOMAIN text :
                   /\ text[n].verified
                   /\ \A k \in (n + 1)..Len(text) :
                        text[k].verified => text[k].key # text[n].key}
    IN  /\ {file[k] : k \in DOMAIN file} = {<<text[n].key, text[n].label>> : n \in last}
        /\ \A i, j \in DOMAIN file : i < j => file[i][1] < file[j][1]
=============================================================================
