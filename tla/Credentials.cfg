SPECIFICATION MCSpec
CONSTANTS
    p1 = p1  p2 = p2  a1 = a1  a2 = a2  s1 = s1
    Calls = {p1, p2}
    NoCall = NoCall
    Addresses = {a1, a2}
    LoginAddresses = {a1}
    MailLimit = 1
    MaxCodes = 2
    MaxSends = 3
    MaxFaults = 1
    MaxAttempts = 2
    NoPayload = NoPayload
    Logins = {p1, p2}
    Setters = {s1}
    FailureLimit = 2
    Passwords = {1, 2}
SYMMETRY Symmetry
INVARIANTS
     CodesAreSpent GuardSound
PROPERTIES
    TicketOutlivesRefusal
CHECK_DEADLOCK FALSE
