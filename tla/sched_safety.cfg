SPECIFICATION SafetySpec
CONSTANTS
  NLabels = 2
  NDuts = 2
  b1 = b1 b2 = b2 b3 = b3
  None = None
  Brs <- ThreeBrs
  LabelOf <- Labels122
  Remote <- AnyRemote
  LocalLabels <- LocalOne
  TrybotLabels <- NoLabels
  KeepStateful = FALSE
  SameImage = TRUE
  MayHitCache = TRUE
  MayFail = TRUE
  MayExit = TRUE
  MayInterrupt = TRUE
INVARIANTS TypeOK EachBrOnce RightImage
SYMMETRY Interchangeable
