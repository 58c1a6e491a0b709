\* Two tabs of a browser; a capped family beside them.
CONSTANTS
    MaxAttempts = 1
    NoPayload = NoPayload
    p1 = p1  p2 = p2  t1 = t1  t2 = t2  u1 = u1  u2 = u2
    Calls = {p1, p2}
    NoCall = NoCall
    Tabs = {t1, t2}
    NoTab = NoTab
    Users = {u1, u2}
    NoUser = NoUser
    Newcomer = Newcomer
    MaxFaults = 2
    NoToken = NoToken
    MaxLogins = 2
    MaxRotations = 1
    MaxRequests = 3
    MaxLosses = 1
    c1 = c1  f1 = f1
    NoFamily = NoFamily
    Lifetimes = {3, 4}
SPECIFICATION MCSpec
SYMMETRY Symmetry
INVARIANTS
    LoginsAreSingle LogoutHolds
PROPERTIES
    AnswersAreHonest LiveCookieKept CapHolds
CHECK_DEADLOCK FALSE
