SPECIFICATION Spec
CONSTANTS
  n1 = n1
  n2 = n2
  Node = {n1, n2}
  MaxRuns = 3
  MaxEvents = 0
  MaxResets = 0
  Faults = {}
  MaxActive = 3
SYMMETRY Symmetry
INVARIANTS
  LoadsLastSave
  UndisturbedSaveHeals
