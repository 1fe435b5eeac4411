SPECIFICATION Spec
CONSTANTS
  n1 = n1
  n2 = n2
  n3 = n3
  Node = {n1, n2, n3}
  Outputs <- MCOutputs
SYMMETRY Symmetry
INVARIANTS
  TypeOK
  FoldedAreOtherClients
  MountsCountedOnce
  CapacityCountedOnce
  OrderDoesNotMatter
  LinesKeptInParsing
  FullTargetsShown
  SeriesDistinct
  FormatsAgree
  TablesFit
