SPECIFICATION Spec
CONSTANTS
  m1 = m1 r1 = r1 r2 = r2 r3 = r3 la = la lb = lb lc = lc
  None = None
  Machines <- OneMachine
  Runs <- TwoRuns
  Labels <- TwoLabels
  LocalLabels <- OnlyA
  TrybotLabels = {}
  Remote <- AllRemote
  LabelOf <- LabelsAB
  CacheOnly = {}
  LocksDir = FALSE
  KeepStateful = FALSE
  FreshAge = 1
  StaleAge = 2
  PollTime = 2
  CheckInterval = 2
  AcquireTimeout = 2
  MayHitCache = FALSE
  MayFail = FALSE
  MayDisconnect = TRUE
  MayInterrupt = FALSE
INVARIANTS ReleasedIsUnlocked
