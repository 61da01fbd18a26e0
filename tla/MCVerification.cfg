SPECIFICATION Spec
CONSTANTS
    MaxId = 2
    i1 = i1
    i2 = i2
    r1 = r1
    r2 = r2
    Kept <- TwoRecords
    Factory <- FirstThenSecond
    Home = a
    Image = {i1, i2}
    Rate = {r1, r2}
    Port = {a, b}
    MaxOps = 2
    MaxEvents = 2
    None = None
INVARIANT ClaimsAreSaved
PROPERTIES MetadataRestored OperationEnds
CHECK_DEADLOCK FALSE
