\* Two requests racing on one internal family, with everything that cuts it.
CONSTANTS
    u1 = u1  u2 = u2  f1 = f1  f2 = f2  p1 = p1  p2 = p2
    Users = {u1}
    Families = {f1}
    Capability = {}
    Requests = {p1, p2}
    NoUser = NoUser
    NoFamily = NoFamily
    GraceWindow = 1
    RefreshTTL = 2
    AccessTTL = 1
    Lifetimes = {0}
    AccessAge = 2
    RefreshAge = 1
    MaxSeq = 2
    MaxNow = 3
    MaxVersion = 1
    Pending = {r1, r2}
    Optional = {profile_ro, admin_rw}
    Admin = {admin_rw}
    User = {}
    Registered = {profile_ro}
    Keep = Keep
    None = None
    MaxCodes = 2
    MaxBulk = 1
    MaxStamp = 2
    MaxRevokes = 1
SPECIFICATION MCSpec
SYMMETRY Symmetry
INVARIANTS  ConsentIsKept RevocationReaches
PROPERTIES ConcurrentRefreshKeepsSession ImplementsLifecycle CapabilityPinsRedirects
CHECK_DEADLOCK FALSE
