SPECIFICATION FairSpec
CONSTANTS
    v1 = v1  v2 = v2
    None = None
    Videos <- TwoVideos
    MaxAttempts = 2
    MaxRequests = 1
    Retries = 1
    Budgets <- AnalysisBudgets
INVARIANTS SlotsAccountedFor RequestsBounded FilesAccountedFor
PROPERTIES ResultsAreKept EveryAttemptEnds
\* Attempts that have ended rest.
CHECK_DEADLOCK FALSE
