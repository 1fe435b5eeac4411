SPECIFICATION Spec
CONSTANTS
  n1 = n1
  n2 = n2
  Node = {n1}
  MaxRuns = 3
  MaxEvents = 3
  MaxResets = 1
  Faults = {"error", "nostats"}
  MaxActive = 1
INVARIANTS
  TypeOK
  DeltaSound
  NoDoubleCount
  DeltasAddUp
