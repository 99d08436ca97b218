SPECIFICATION Spec
CONSTANTS
  m1 = m1 r1 = r1 r2 = r2 r3 = r3 la = la lb = lb lc = lc
  None = None
  Machines <- OneMachine
  Runs <- ThreeRuns
  Labels <- ThreeLabels
  LocalLabels <- OnlyA
  TrybotLabels <- OnlyB
  Remote <- AllRemote
  LabelOf <- LabelsABC
  CacheOnly <- OnlyC
  LocksDir = TRUE
  KeepStateful = FALSE
  FreshAge = 1
  StaleAge = 2
  PollTime = 2
  CheckInterval = 2
  AcquireTimeout = 2
  MayHitCache = TRUE
  MayFail = TRUE
  MayDisconnect = TRUE
  MayInterrupt = FALSE
INVARIANTS TypeOK MutualExclusion NoDoubleRelease OwnFileLock RightImageUnlessFailed
