SPECIFICATION Spec
CONSTANTS
    p1 = p1  p2 = p2  v1 = v1  v2 = v2  s1 = s1  s2 = s2
    None = None
    Processes <- TwoProcesses
    Videos <- OneVideo
    Inbox <- OneVideo
    Slots <- OneSlot
    MaxActive = 1
    MaxAttempts = 3
    Budgets <- SafetyBudgets
INVARIANTS TypeOK LocksFollowLeases AttemptsAccountedFor
PROPERTIES AttemptOutcomeIsFinal
SYMMETRY Symmetry
CHECK_DEADLOCK FALSE
