\* Two bulk revocations, a logout and two rotations over three families.
CONSTANTS
    byUser = byUser  byClient = byClient  logout = logout  p1 = p1  p2 = p2
    Families = {1, 2, 3}
    Opened = {1, 2}
    Cutters = {byUser, byClient, logout}
    Covers <- MCCovers
    Single = {logout}
    Rotators = {p1, p2}
    None = None
    MaxSeq = 2
SPECIFICATION Spec
INVARIANT FamiliesSound
PROPERTIES NoRotationEscapes  NextRefreshEndsHalfCut
CHECK_DEADLOCK FALSE
