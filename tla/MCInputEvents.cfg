SPECIFICATION Spec
CONSTANTS
    Reader = {r1}
    Layouts <- HidLayouts
    Reports <- InputReportSet
    None = None
    Capacity = 2
    MaxEvents = 4
    MaxReads = 1
INVARIANTS TypeOK LevelReachesReader InputOfTheSelected
PROPERTIES GapsAreNoticed SubscriptionEnds ReadsEnd
CHECK_DEADLOCK FALSE
