---------------------------- MODULE MCTextCases -----------------------------
(* Pieces of text for model checking. *)
EXTENDS TextCases

Singles(S) == {<<s>> : s \in S}

MCRules == {"mask", "drift", "merge", "cases", "chunks", "lookup", "answer"}

MCPiecesOf ==
  [mask     |-> Singles({"N", "w", "@", "-"})
                  \cup {<<"w", ".", "w">>, <<"0", "1">>, <<"1", "1", "1", "1">>},
   drift    |-> Singles({"ROU", "SUI", "i", "su", "stop", "no issue", "defect"})
                  \cup {NotationDrift[k][1] : k \in 3..Len(NotationDrift)}
                  \cup {<<"ROU", "re">>, <<"ro", "u">>, <<"o", "n">>, <<"ke", "ga">>,
                        <<"yuru", "mi">>, <<"zu", "mo", "re">>,
                        <<"ma", "ra", "na", "i">>, <<"ugoka", "na", "i">>},
   merge    |-> Singles((1..2) \X (1..3)),
   chunks   |-> Singles({"x", "y", "sp", "nl"}),
   cases    |-> Singles([key : 1..2, label : 1..2, verified : BOOLEAN]),
   answer   |-> Singles({"x", "1", "0", "[report:", "]"})
                  \cup {<<"[report:", "1">>, <<"1", "]">>, <<"[report:", "0", "]">>},
   lookup   |-> Singles({"a", "b", "[", "]", "sp"}) \cup {<<"[", "]">>}]

MCBoundOf ==
  [mask |-> 6, drift |-> 3, merge |-> 5, cases |-> 4, answer |-> 4,
   chunks |-> 7, lookup |-> 5]

\* The end of the spelling of a leak.
MCReviewed == << <<<<"su", "i">>, <<"SUI">>>> >>

MCOriginals == << <<"a", "b", "a", "b">>, <<"a", "a", "b">>, <<"b", "a", "a", "b", "b">> >>
=============================================================================
