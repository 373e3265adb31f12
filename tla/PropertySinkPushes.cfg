SPECIFICATION FairSinkSpec
CONSTANTS
    o1 = o1
    o2 = o2
    o3 = o3
    c1 = c1
    c2 = c2
    p1 = p1
    p2 = p2
    Obs = {o1, o2}
    Creations = {c1, c2}
    Bare = {}
    Times <- MCOneTime
    Limit = 2
    Concurrency = 4
    Faults = {"network"}
    MaxFaults = 1
    Pushes = {p1, p2}
    PushOf <- ApartPushOf
    FrameOf <- MCFrameOf
INVARIANTS
    PushStored
    SomethingStored
PROPERTIES
    PushesSettle
