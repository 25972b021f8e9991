SPECIFICATION Spec
CONSTANTS
    v1 = v1  v2 = v2  a = a  b = b
    None = None  Person = Person
    MaxProcesses = 2
    Videos <- TwoVideos
    First = v1
    Links <- TwoLinks
    MaxAttempts = 2
    GiveUp = 3
    PutTries = 2
    Retries = 1
    Budgets <- OneRetry
INVARIANTS NoResultStranded
CHECK_DEADLOCK FALSE
