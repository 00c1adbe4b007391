------------------------------ MODULE JobCount ------------------------------
(* Counts of the jobs in a queue, for the invariants of PartData.              *)
EXTENDS Naturals, Sequences, FiniteSets

Count(b) == IF b THEN 1 ELSE 0

JobsOf(kind, q) == Cardinality({i \in DOMAIN q : q[i].kind = kind})
=============================================================================
