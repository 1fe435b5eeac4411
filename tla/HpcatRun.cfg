SPECIFICATION LiveSpec
CONSTANTS
  n1 = n1
  n2 = n2
  Node = {n1, n2}
  Here = n1
  GpuNode = {n2}
  NodeLists <- Lists
INVARIANTS
  TypeOK
  NothingVanishes
  ViewsAgree
PROPERTY HangsOnlyOnSlurm
