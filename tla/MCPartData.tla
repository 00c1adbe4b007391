----------------------------- MODULE MCPartData -----------------------------
(* Instances of PartData for TLC: two clients that differ in nothing.        *)
EXTENDS PartData

CONSTANTS c1, c2

TwoClients == {c1, c2}
OneClient  == {c1}
ClientSymmetry == Permutations(TwoClients)
=============================================================================
