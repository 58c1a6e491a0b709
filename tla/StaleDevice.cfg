\* A refresh that touches its record after a logout has removed it.
CONSTANTS
    p1 = p1  p2 = p2  p3 = p3  w1 = w1
    Families = {1, 2}
    Opened = {1}
    Requests = {p1, p2}
    Workers = {w1}
    None = None
    Limit = 2
    JournalLimit = 2
    MaxFaults = 0
SPECIFICATION Spec
PROPERTY TouchedRecordIsRemoved
CHECK_DEADLOCK FALSE
