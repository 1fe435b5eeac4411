SPECIFICATION Spec
CONSTANTS
  n1 = n1
  n2 = n2
  n3 = n3
  Node = {n1, n2, n3}
  Hardware <- Nodes
  Scheduler <- Slurmd
SYMMETRY Symmetry
INVARIANTS
  TypeOK
  WeightedPerGpu
  HalvesDoNotMix
  TotalsMatchDetail
  AlarmsSurviveTotals
  SeriesDistinct
  FormatsAgree
  TablesFit
