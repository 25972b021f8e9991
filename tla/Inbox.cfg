SPECIFICATION FairSpec
CONSTANTS
    p1 = p1  p2 = p2  h1 = h1  h2 = h2  v1 = v1  row = row
    None = None
    Processes <- TwoProcesses
    Requests <- CardsAndVideo
    Kind <- KindByName
    RowOf <- SameRow
    Batch = 1
    MaxCalls = 2
    MaxFaults = 2
INVARIANTS TypeOK ReceiptAgreesWithTask EffectsHappenOnce OutcomeIsEarned
PROPERTIES ImplementsContract EveryTaskSettles
\* Every accepted task may be settled and no call be left: the system rests.
CHECK_DEADLOCK FALSE
