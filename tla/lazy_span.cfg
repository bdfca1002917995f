SPECIFICATION LazyFairSpec
CONSTANTS
    server = server
    v1 = v1
    rm = rm
    NoReply = NoReply
    Callers = {v1, rm}
    HostThreads = {}
    Vcpus = {v1}
    Remover = rm
    Pages = {1, 2}
    Ranges = {{1, 2}}
    Accesses = {"Read", "Write"}
    MaxInFlight = 1
    Selections = {1}
    MaxWaiters = 1
    MaxFaults = 2
    MaxRemovals = 1
    PeerFaults = {"replay"}
    PlatformFaults = {"publish", "protect", "revoke"}
INVARIANTS
    PlanesFollowPages
    LeaseKeepsPages
    AdmissionIsInForce
PROPERTY EverythingReturns
