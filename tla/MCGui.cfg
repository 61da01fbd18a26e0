SPECIFICATION GuiSpec
CONSTANTS
    m1 = m1
    m2 = m2
    s1 = s1
    None = None
    Mice = {m1, m2}
    First = m1
    Wired = {m1, s1}
    Radio = {m2}
    Order <- MCOrder
    Starts <- MCStarts
    Operations = {"Apply", "RefreshAllProfiles"}
    QueueSize = 1
    MaxUser = 2
    MaxWorld = 2
    MaxFailures = 1
INVARIANTS EventsOfLoaded WindowNamesLoaded
PROPERTIES PendingTaken BusyEnds GoneIsNoticed
CHECK_DEADLOCK FALSE
