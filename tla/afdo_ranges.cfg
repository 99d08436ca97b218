SPECIFICATION SearchSpec
CONSTANTS
    NumFuncs = 8
    MaxCulprits = 2
    MaxCombination = 2
    MaxUndecided = 0
    NumRuns = 2
INVARIANTS RangesAreProblematic
