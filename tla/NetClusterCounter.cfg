SPECIFICATION Spec
CONSTANTS
  n1 = n1
  n2 = n2
  Node = {n1, n2}
  MaxRuns = 2
  MaxEvents = 1
  MaxResets = 0
  Faults = {"error"}
  MaxActive = 1
SYMMETRY Symmetry
INVARIANT ClusterCounterNeverFalls
