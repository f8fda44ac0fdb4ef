---------------------------- MODULE MCApiProcess ----------------------------
(* Instances of ApiProcess for model checking. *)
EXTENDS ApiProcess, TLC

CONSTANTS r1, j1, east, west, p1, p2, mgr, qa, i1, i2

\* One property in each branch; the department of quality belongs to none.
MCBranchOf == (p1 :> east) @@ (p2 :> west)
MCHomeOf   == (mgr :> east) @@ (qa :> NoBranch)

\* A label that counts everywhere, and one that differs from it everywhere.
MCLabels == {[category |-> "claim", urgency |-> "high", action |-> TRUE],
             [category |-> "other", urgency |-> "low",  action |-> FALSE]}

\* A report of two chunks in one branch, one of one chunk in the other.
MCIngestible ==
  {[property |-> p1, chunks |-> 2, label |-> l] : l \in MCLabels}
    \cup {[property |-> p2, chunks |-> 1,
           label |-> [category |-> "claim", urgency |-> "high", action |-> TRUE]]}
=============================================================================
