----------------------------- MODULE MCNetDelta -----------------------------
(* Small instances of NetDelta for TLC. *)
EXTENDS NetDelta, TLC

CONSTANTS n1, n2

\* Nodes are interchangeable.
Symmetry == Permutations(Node)
=============================================================================
