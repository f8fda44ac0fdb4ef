--------------------------- MODULE MCReviewQueue ----------------------------
(* Instances of ReviewQueue for TLC: two values per column, small pages. *)
EXTENDS ReviewQueue, TLC

CONSTANTS l1, l2, k1, k2, r1, claim, other, high, low

ReviewSymmetry == Permutations(Loaders) \cup Permutations(Clerks)

\* The values of a column are alike as well.
OverrideSymmetry ==
  ReviewSymmetry \cup Permutations(Categories) \cup Permutations(Urgencies)
=============================================================================
