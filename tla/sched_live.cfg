SPECIFICATION LiveSpec
CONSTANTS
  NLabels = 3
  NDuts = 2
  b1 = b1 b2 = b2 b3 = b3
  None = None
  Brs <- ThreeBrs
  LabelOf <- Labels123
  Remote <- SplitRemote
  LocalLabels <- LocalOne
  TrybotLabels <- TrybotThree
  KeepStateful = FALSE
  SameImage = FALSE
  MayHitCache = FALSE
  MayFail = TRUE
  MayExit = TRUE
  MayInterrupt = TRUE
INVARIANTS PopFindsBr
PROPERTIES EveryBrIsExecuted ExperimentEnds
