----------------------------- MODULE MCHpcatRun -----------------------------
(* Small instances of HpcatRun for TLC. *)
EXTENDS HpcatRun

CONSTANTS n1, n2

\* A bare -n, a name, two names, a name given twice.
Lists == {<<>>, <<n2>>, <<n1, n2>>, <<n2, n2>>}
=============================================================================
