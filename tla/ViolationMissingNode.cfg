SPECIFICATION Spec
CONSTANTS
    o1 = o1
    o2 = o2
    o3 = o3
    o4 = o4
    c1 = c1
    c2 = c2
    Obs = {o1, o2}
    Creations = {}
    Bare = {}
    Times <- MCTimes
    Limit = 2
    Concurrency = 1
    Faults = {"crash"}
    MaxFaults = 1
INVARIANTS
    ContainersAndResourcesCreated
