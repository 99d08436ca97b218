SPECIFICATION Spec
CHECK_DEADLOCK FALSE
CONSTANTS
    a = a
    b = b
    x1 = x1
    x2 = x2
    x3 = x3
    Specs = {a, b}
    Booleans = {b}
    Start <- MCStart
    End <- MCEnd
    Text <- MCText
    Costs = {1, 2}
    StopThreshold = 1
    MaxTasks = 3
    Seeds <- MCSeeds
    NumChromosomes = 1
    None = None
    Images = {i1, i2}
    NumProcesses <- MCNumProcesses
    MayRaise = TRUE
    PoisonPill = PoisonPill
INVARIANTS EveryTaskInOnePlace PillIsLast AssertionsHold ParentIsBest EndsAtOptimum
PROPERTIES ImplementsService EveryProcessEnds
