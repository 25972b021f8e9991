SPECIFICATION FairSpec
CONSTANTS
    p1 = p1  p2 = p2  v1 = v1  v2 = v2  s1 = s1  s2 = s2
    None = None
    Processes <- TwoProcesses
    Videos <- TwoVideos
    Inbox <- TwoVideos
    Slots <- OneSlot
    MaxActive = 2
    MaxAttempts = 3
    Budgets <- LivenessBudgets
PROPERTIES InboxVideoSettles
CHECK_DEADLOCK FALSE
