SPECIFICATION Spec
CONSTANTS
    None = None
    Clients = {p, q}
    Reports = {4, 5}
    Capacity = 2
    MaxWrites = 2
    MaxLinks = 1
    MaxFailures = 2
INVARIANT AckIsOfItsWrite
PROPERTIES FailsClosed CallsEnd
CHECK_DEADLOCK FALSE
