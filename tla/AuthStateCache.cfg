\* Two requests, two workers, up to two faults; the tombstone outlives a put by one.
\* The gates: eight situations of registration, role and cache lifetime.
CONSTANTS
    p1 = p1  p2 = p2  w1 = w1  w2 = w2  Keep = Keep
    Requests = {p1, p2}
    Workers = {w1, w2}
    NoWorker = NoWorker
    CacheTTL = 2
    TombstoneTTL = 2
    PutLimit = 1
    Lease = 2
    MaxBackoff = 1
    MaxFaults = 2
SPECIFICATION MCSpec
INVARIANTS DeliverySound EveryActIsBacked
PROPERTIES AdmissionEnds RevocationIsDelivered CapabilityIsTheConsoles
