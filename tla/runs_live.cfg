SPECIFICATION FairSpec
CONSTANTS
  m1 = m1 r1 = r1 r2 = r2 r3 = r3 la = la lb = lb lc = lc
  None = None
  Machines <- OneMachine
  Runs <- TwoRuns
  Labels <- TwoLabels
  LocalLabels <- OnlyA
  TrybotLabels = {}
  Remote <- AllRemote
  LabelOf <- LabelsAB
  CacheOnly = {}
  LocksDir = TRUE
  KeepStateful = FALSE
  FreshAge = 0
  StaleAge = 1
  PollTime = 1
  CheckInterval = 1
  AcquireTimeout = 1
  MayHitCache = FALSE
  MayFail = TRUE
  MayDisconnect = FALSE
  MayInterrupt = TRUE
PROPERTIES EveryRunEnds InterruptEnds
