SPECIFICATION ChainSpec
CONSTANTS
    s1 = s1
    s2 = s2
    p1 = p1
    p2 = p2
    a = a
    b = b
    Absent = Absent
    NoPage = NoPage
    NoSlot = NoSlot
    Pages = {p1, p2}
    HotPages = {}
    Members = {}
    Values = {0, 1}
    Zero = 0
    Slots = {s1, s2}
    MaxCaptures = 2
    MaxRestarts = 1
INVARIANTS
    ArtifactsAreExact
    CommitsStandOnMemory
    RefusedIsInvisible
    BaseSurvives
PROPERTY AdvancesToDurable
SYMMETRY FileSymmetry
CHECK_DEADLOCK FALSE
