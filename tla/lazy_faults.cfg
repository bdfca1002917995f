SPECIFICATION LazySpec
CONSTANTS
    server = server
    v1 = v1
    rm = rm
    NoReply = NoReply
    Callers = {server, v1, rm}
    HostThreads = {server}
    Vcpus = {v1}
    Remover = rm
    Pages = {1}
    Ranges = {{1}}
    Accesses = {"Read"}
    MaxInFlight = 2
    Selections = {1, 2}
    MaxWaiters = 1
    MaxFaults = 1
    MaxRemovals = 1
    PeerFaults = {"die"}
    PlatformFaults = {"hide"}
INVARIANTS
    NoResurrection
    WaitersAreOwed
    RequestsAreCounted
    RestoreIsQuiet
PROPERTIES
    ClosesOnce
