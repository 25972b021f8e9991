SPECIFICATION SpecAll
CONSTANTS
    p1 = p1  p2 = p2  order = order  repair = repair
    Nobody = Nobody
    Workers <- TwoProcesses
    Pages = {"data"}
    Answers = {"data", "refused"}
    Tasks <- OrderAndRepair
    Repairs <- OneRepair
    MaxRefusals = 1
    MaxFaults = 1
INVARIANTS EachAnalysisPaidOnce
PROPERTIES AnalysisIsKept
SYMMETRY Symmetry
\* A product with an analysis and settled tasks rests.
CHECK_DEADLOCK FALSE
