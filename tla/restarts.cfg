SPECIFICATION Spec
CONSTANTS
    End = 5
    Parallel = 1
    Attempts = 2
    MaxEdits = 1
    MaxRestarts = 1
    Seeds = {s1, s2}
    Statuses = {good, bad}
    Questions = 3
    MaxAnalyses = 4
    NVersions = 3
    Uprevs = {3, 4}
    MaxRuns = 4
INVARIANTS AnswersAreTrue UprevResult
PROPERTIES ReportsFirstBad NeverLaunchedTwice AutoEnds
