SPECIFICATION LiveSpec
CONSTANTS
  n1 = n1
  n2 = n2
  n3 = n3
  Node = {n1, n2, n3}
  MaxWorkers = 2
  TargetLists <- MixedLists
  Commands <- Every
INVARIANTS
  TypeOK
  ReturnIsComplete
  OnlyGarbledGpuAborts
PROPERTIES
  NoLoss
  KeepsPromise
  EndsUnlessScontrolHangs
  EndsWithoutScontrol
  SubmittedPollsFinish
