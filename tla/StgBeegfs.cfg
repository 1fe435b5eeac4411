SPECIFICATION Spec
CONSTANTS
  n1 = n1
  n2 = n2
  n3 = n3
  Node = {n1, n2}
  Outputs <- MCOutputs
INVARIANT BeegfsTargetsDistinct
