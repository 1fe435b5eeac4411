SPECIFICATION Spec
CONSTANTS
  n1 = n1
  n2 = n2
  Node = {n1}
  MaxRuns = 3
  MaxEvents = 1
  MaxResets = 0
  Faults = {"error", "nostats"}
  MaxActive = 1
INVARIANT SinceLastRun
