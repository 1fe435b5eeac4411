--------------------------- MODULE MCClusterPoll ---------------------------
(* Small instances of ClusterPoll for TLC. *)
EXTENDS ClusterPoll

CONSTANTS n1, n2, n3

\* Three different nodes on two workers (one task must queue), a node named
\* twice, a node named twice around another, and a single node.
MixedLists == {<<n1, n2, n3>>, <<n1, n1>>, <<n2, n1, n2>>, <<n3>>}

\* Two nodes, or one named twice.
ShortLists == {<<n1, n2>>, <<n1, n1>>}

Every == Command
=============================================================================
