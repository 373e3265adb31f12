SPECIFICATION Spec
CONSTANTS
    a = a
    b = b
    c = c
    d1 = d1
    d2 = d2
    i1 = i1
    i2 = i2
    i3 = i3
    x1 = x1
    x2 = x2
    x3 = x3
    Objects = {a, b}
    Docs = {d1, d2}
    DocOf <- MCDocOf
    Fragmented = {b}
    Inserts = {i1, i2, i3}
    Deletes = {x1, x2}
    ObjectOf <- MCObjectOf
    Serial = TRUE
    Faults = {"refused", "network", "crash", "storage"}
    MaxFaults = 2
INVARIANTS
    Deletable
    LinksPaired
PROPERTIES
    ImplementsMap
