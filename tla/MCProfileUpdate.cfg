SPECIFICATION Spec
CONSTANTS
    Proc = {p1, p2}
    None = None
    Sections <- MCSections
    Field = {"f", "g"}
    Val = {0, 1}
    Delta <- MCDelta
    Baselines = {"Live", "Stored", "Draft"}
    Interrupts = TRUE
    MaxOps = 2
    MaxTouches = 1
INVARIANT EvidenceIsTrue
PROPERTIES LiveWriteKeepsRest NoEndlessWait
CHECK_DEADLOCK FALSE
