SPECIFICATION AttachmentSpec
CONSTANTS
    Process = {p1}
    Unit = {u1, u2}
    Token = {t1, t2}
    None = None
    u1 = u1
    u2 = u2
    w1 = w1
    r1 = r1
    b1 = b1
    t1 = t1
    t2 = t2
    Port = {w1, r1}
    Radio = {b1}
    Kind <- MCKind
    Descriptor <- MCDescriptor
    Marks <- MCMarks
    Saved <- MCSaved
    Scans <- MCScans
    MaxChanges = 2
    MaxDevices = 2
CHECK_DEADLOCK FALSE
INVARIANTS SessionOnItsMouse MarkDecides
PROPERTY FoundMouseIsReached
