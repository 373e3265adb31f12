SPECIFICATION FairSpec
CONSTANTS
    o1 = o1
    o2 = o2
    o3 = o3
    o4 = o4
    c1 = c1
    c2 = c2
    Obs = {o1, o2}
    Creations = {c1}
    Bare = {o2}
    Times <- MCTimes
    Limit = 2
    Concurrency = 2
    Faults = {"refused", "network", "crash"}
    MaxFaults = 1
PROPERTIES
    CallsSettle
    RelationsResolve
    RootRepaired
