SPECIFICATION Spec
CONSTANTS
    Client = {c1}
    Value = {v1, v2}
    None = None
    Profiles = 2
    Sections = 1
    Default = v1
    Maxima = {2}
    MaxAttempts = 2
    QueueCap = 1
    MaxRequests = 2
    MaxTouches = 1
INVARIANTS TypeOK FetchIsArmed
PROPERTIES AnswerIsState RequestsAnswered WorkerEnds
CHECK_DEADLOCK FALSE
