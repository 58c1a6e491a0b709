\* Two listed devices, room for two, a third family; the journal holds one entry.
CONSTANTS
    p1 = p1  p2 = p2  p3 = p3  w1 = w1
    Families = {1, 2, 3}
    Opened = {1, 2}
    Requests = {p1, p2}
    Workers = {w1}
    None = None
    Limit = 2
    JournalLimit = 1
    MaxFaults = 1
SPECIFICATION Spec
INVARIANT EvictionsSound
PROPERTIES DisplacedOnlyWhenFull DisplacedSessionEnds
CHECK_DEADLOCK FALSE
