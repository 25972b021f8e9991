SPECIFICATION FairSpec
CONSTANTS
    p1 = p1  p2 = p2
    Workers <- TwoProcesses
    Pages = {"data", "busy", "rejected"}
    Answers = {"data", "refused", "other", "lost"}
    Tasks = {}
    MaxRefusals = 1
    MaxFaults = 2
INVARIANTS TypeOK OneFetcher
PROPERTIES ChargedAtMostOnce SavedProductIsKept SavedProductIsOrganized
\* A finished product has nothing left to do but clicks on its name.
CHECK_DEADLOCK FALSE
