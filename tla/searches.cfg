SPECIFICATION SearchesSpec
CONSTANTS
  N = 5
  Options <- AllOptions
  Iterations = 3
  PruneIterations = 5
  Passes = 4
  Transforms = 4
  MaxStarts = 2
  MaxSkips = 2
  NLabels = 4
  NDuts = 2
  MaxPending = 2
  NumFuncs = 6
  MaxCulprits = 2
  MaxCombination = 3
  MaxUndecided = 2
  NumRuns = 2
  c1 = c1 c2 = c2 c3 = c3 o1 = o1 o2 = o2
  Compilations <- ThreeCompilations
  ObjectOf <- TwoObjects
  DriverOptions <- MCDriverOptions
  MaxSwitches = 2
  MaxKills = 1
INVARIANTS TypeOK SetsApplied FindsTheBad SearchCanGoOn ResumePoint PassWithinOne PlanIsBest NobodyLeftBehind SearchIsExact BuildIsAsAsked
