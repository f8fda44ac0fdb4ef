-------------------------- MODULE MCIngestPipeline --------------------------
(* Small instances of IngestPipeline for TLC. *)
EXTENDS IngestPipeline, TLC

CONSTANTS p1, p2, m1, m2, o1, o2, s1, s2

\* A single-object event, and an event whose two records repeat that object.
MCKeysOf   == (m1 :> <<o1>>) @@ (m2 :> <<o2, o1>>)
MCSourceOf == (o1 :> s1) @@ (o2 :> s2)

\* An event with a sound and a broken object, and one without any key.
MCLiveKeysOf == (m1 :> <<o1, o2>>) @@ (m2 :> <<>>)

ProcSymmetry == Permutations({p1, p2})
=============================================================================
