SPECIFICATION MCSpec
CONSTANTS
    p1 = p1  p2 = p2  u1 = u1  u2 = u2  u3 = u3  s1 = s1  s2 = s2  s3 = s3  f1 = f1  t1 = t1  t2 = t2
    Calls = {p1, p2}        NoCall = NoCall
    Users = {u1, u2, u3}    NoUser = NoUser
    Sids = {s1, s2, s3}     NoSid = NoSid
    FreeMails = {f1}        Personal = Personal
    Tickets = {t1, t2}      NoTicket = NoTicket
    Roles = {"member", "manager", "admin"}
    Starts <- MCStarts
    Asked <- MCAsked
    Drafts <- MCDrafts
    None = None
    c1 = c1  c2 = c2  c3 = c3
    MediaCalls = {c1, c2, c3}
    Instances = {i1, i2}
    First = First
    CacheMax = 1
INVARIANTS
    DirectorySound AdminRemains 
PROPERTIES
    ConsoleBoundary DecisionsStand VerdictHolds 
SYMMETRY Symmetry
CHECK_DEADLOCK FALSE
