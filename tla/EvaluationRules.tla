-------------------------- MODULE EvaluationRules ---------------------------
(***************************************************************************)
(* The improvement loop around the classification: drift of the notation   *)
(* (scripts/synth.py), the classifier by keywords                          *)
(* (app/infra/llm/fake_client.py), and what reviewers decided going back   *)
(* into the dictionary and the evaluation cases                            *)
(* (scripts/export_corrections.py, scripts/export_eval_cases.py).          *)
(***************************************************************************)
EXTENDS TextRules

(***************************************************************************)
(* NOTATION_DRIFT, in its order: words and their spelling in kana.  A      *)
(* kanji, or a letter of the katakana, is in capitals and a hiragana is    *)
(* not ("xyo" is the small "yo"); names tell letters apart, not sounds.    *)
(***************************************************************************)
NotationDrift ==
  << <<<<"ROU", "SUI">>,       <<"ro", "u", "su", "i">>>>,          \* leak
     <<<<"SUI", "ROU", "re">>, <<"mi", "zu", "mo", "re">>>>,        \* water leak
     <<<<"KO", "SHOU">>,       <<"ko", "shi", "xyo", "u">>>>,       \* breakdown
     <<<<"HA", "SON">>,        <<"ha", "so", "n">>>>,               \* damage
     <<<<"I", "ON">>,          <<"i", "o", "n">>>>,                 \* odd sound
     <<<<"TEI", "SHI">>,       <<"te", "i", "shi">>>>,              \* standstill
     <<<<"FU", "GU", "AI">>,   <<"fu", "gu", "a", "i">>>>,          \* fault
     <<<<"KU", "JOU">>,        <<"ku", "ji", "xyo", "u">>>>,        \* complaint
     <<<<"SOU", "ON">>,        <<"so", "u", "o", "n">>>>,           \* noise
     <<<<"SEI", "HAKI">>,      <<"se", "i", "so", "u">>>>,          \* cleaning
     <<<<"KA", "SAI">>,        <<"ka", "sa", "i">>>>,               \* fire
     <<<<"GA", "SU">>,         <<"ga", "su">>>>,                    \* gas
     <<<<"YOU", "BOU">>,       <<"yo", "u", "bo", "u">>>> >>        \* request

\* _apply_notation_drift.
Drift(text) == ReplaceEach(text, NotationDrift)

\* Sentences with a full stop after each.
Join(sentences) == FlattenSeq([k \in DOMAIN sentences |-> sentences[k] \o <<"stop">>])

\* _apply_missing_info: the last sentence goes, or all there is.
MissingInfo(text) ==
  LET sentences == Without(Split(text, <<"stop">>), {<<>>})
      kept      == IF Len(sentences) >= 2 THEN Front(sentences)
                   ELSE << <<"status unknown">> >>
  IN  Join(kept) \o <<"details later">>

\* generate: the noise of one report, drift before loss.
Noisy(text, drift, missing) ==
  LET drifted == IF drift THEN Drift(text) ELSE text
  IN  IF missing THEN MissingInfo(drifted) ELSE drifted

\* golden_corrections.json: the drifts the other way round.
GoldenCorrections ==
  [k \in DOMAIN NotationDrift |-> <<NotationDrift[k][2], NotationDrift[k][1]>>]

-----------------------------------------------------------------------------
(***************************************************************************)
(* The classifier.  Its keywords are those that a correction may put into  *)
(* a text or take out of it; "ugoka" stands for the stems of the keywords  *)
(* that end in "na i" (will not move, open, start ...; the one in "ku i"   *)
(* behaves alike), and one letter for all others of a list: "alarm" is     *)
(* urgent, "defect" is of the equipment, "trapped" is both.                *)
(***************************************************************************)
Leaks == {<<"ROU", "SUI">>, <<"SUI", "ROU", "re">>}

\* Variant: gas is forgotten.
HighUrgencyKeywords_NoGas ==
  Leaks \cup {<<"KA", "SAI">>, <<"ke", "ga">>, <<"alarm">>, <<"trapped">>}

HighUrgencyKeywords ==
  Leaks \cup {<<"KA", "SAI">>, <<"GA", "SU">>, <<"ke", "ga">>, <<"alarm">>, <<"trapped">>}
EquipmentKeywords ==
  Leaks \cup {<<"KO", "SHOU">>, <<"HA", "SON">>, <<"I", "ON">>, <<"TEI", "SHI">>,
             <<"FU", "GU", "AI">>, <<"yuru", "mi">>, <<"SHI", "ma", "ra", "na", "i">>,
             <<"ugoka", "na", "i">>, <<"trapped">>, <<"defect">>}
NoIssueMarkers   == {<<"no issue">>}
CleaningKeywords == {<<"SEI", "HAKI">>, <<"rubbish">>}
ClaimKeywords    == {<<"KU", "JOU">>, <<"SOU", "ON">>, <<"YOU", "BOU">>, <<"trouble">>}

\* any(k in text for k in keywords).
Mentions(text, keywords) ==
  \E k \in keywords : \E i \in DOMAIN text : OccursAt(text, k, i)

Equipment(text) == ~Mentions(text, NoIssueMarkers) /\ Mentions(text, EquipmentKeywords)

\* _classify_category.
Category(text) ==
  IF Equipment(text) THEN "equipment_failure"
  ELSE IF Mentions(text, ClaimKeywords) THEN "claim"
  ELSE IF Mentions(text, CleaningKeywords) THEN "cleaning" ELSE "other"

\* _classify_urgency.
Urgency(text) ==
  IF Mentions(text, HighUrgencyKeywords) THEN "high"
  ELSE IF Mentions(text, NoIssueMarkers) THEN "low"
  ELSE IF Mentions(text, EquipmentKeywords) THEN "medium" ELSE "low"

\* classify_report, without its confidence and its summary.
Classified(text) ==
  LET category == Category(text)   urgency == Urgency(text)
  IN  [category |-> category, urgency |-> urgency,
       action   |-> urgency = "high" \/ category = "equipment_failure"]

-----------------------------------------------------------------------------
(***************************************************************************)
(* merge: a file has one item per key, in the order of the keys.  An item  *)
(* is <<key, value>>; a correction without a variant or a canonical form,  *)
(* or with both alike, is not loaded (value = key stands for these).       *)
(***************************************************************************)
Loaded(items) == Without(items, {item \in Range(items) : item[2] = item[1]})

Keys(items) == {items[k][1] : k \in DOMAIN items}

\* The elements of a finite set of numbers in their order.
Ascending(S) ==
  CHOOSE s \in [1..Cardinality(S) -> S] : \A i, j \in DOMAIN s : i < j => s[i] < s[j]

\* The items by key, the later ones over the earlier.
ByKey(items) ==
  LET keys == Ascending(Keys(items))
  IN  [n \in DOMAIN keys |-> items[Max({i \in DOMAIN items : items[i][1] = keys[n]})]]

\* Variant: the file is not sorted and a key that it has stays as it is.
Merge_FirstWins(existing, incoming) ==
  LET new == Without(incoming, {item \in Range(incoming) : item[1] \in Keys(existing)})
  IN  [items |-> existing \o new, added |-> Len(new)]

\* The file, and the number of keys that it did not have.
Merge(existing, incoming) ==
  [items |-> ByKey(existing \o incoming),
   added |-> Cardinality(Keys(incoming) \ Keys(existing))]

\* Variant: every classified report is exported.
VerifiedCases_All(rows) == [k \in DOMAIN rows |-> <<rows[k].key, rows[k].label>>]

\* _fetch_verified_cases: rows of reports are [key, label, verified]; what humans
\* have confirmed is exported.
VerifiedCases(rows) ==
  FlattenSeq([k \in DOMAIN rows |->
                IF rows[k].verified THEN <<<<rows[k].key, rows[k].label>>>> ELSE <<>>])

\* export_eval_cases merges in the same way as export_corrections.
ExportCases(file, rows) == Merge(file, VerifiedCases(rows)).items
=============================================================================
