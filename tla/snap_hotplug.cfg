SPECIFICATION ChainSpec
CONSTANTS
    s1 = s1
    s2 = s2
    p1 = p1
    p2 = p2
    a = a
    b = b
    Absent = Absent
    NoPage = NoPage
    NoSlot = NoSlot
    Pages = {p2}
    HotPages = {p2}
    Members = {a, b}
    Values = {0, 1}
    Zero = 0
    Slots = {s1}
    MaxCaptures = 2
    MaxRestarts = 0
INVARIANTS
    WritesAreSeen
    CleanMatchesBase
SYMMETRY MemberSymmetry
CHECK_DEADLOCK FALSE
