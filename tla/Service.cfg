SPECIFICATION MCServiceSpec
CONSTANTS
    n1 = n1
    n2 = n2
    n3 = n3
    n4 = n4
    root = root
    sub = sub
    leaf = leaf
    extra = extra
    file = file
    d1 = d1
    d2 = d2
    d3 = d3
    c1 = c1
    c2 = c2
    c3 = c3
    c4 = c4
    c5 = c5
    alice = alice
    bob = bob
    carol = carol
    a1 = a1
    a2 = a2
    a3 = a3
    q1 = q1
    f1 = f1
    g1 = g1
    st1 = st1
    t1 = t1
    page = page
    Notifications = {n1, n2, n3, n4}
    Malformed = {n2}
    NoActivity = {n3}
    Objected = {n4}
    Resources = {root, sub, leaf, extra, file}
    Root = root
    Files = {file}
    ParentOf <- MCParentOf
    Newcomers = {extra}
    Deleters = {d1, d2, d3}
    Direct = {d3}
    TargetOf <- MCTargetOf
    MaxRefusals = 1
    AccessCalls = {c1, c2, c3, c4, c5}
    GranteeOf <- MCGranteeOf
    OwnerOf <- MCOwnerOf
    AccessOf <- MCAccessOf
    AccessObjects = {a1, a2, a3}
    NoSession = NoSession
    Everyone = Everyone
    ForDefault = {a2}
    ForPublic = {a2, a3}
    ForGroup = {}
    FullModes = FullModes
    Numbers = {0, 1, 2}
    MaxRelations = 3
    Queries = {q1}
    Finds = {f1}
    Things = {g1}
    Stores = {st1}
    SetThings = {t1}
    Pages = {page}
    PageOf <- MCPageOf
    Paths = {q1, f1}
    MaxReadFaults = 2
    MaxReads = 3
INVARIANTS
    ServiceTypeOK
    EachEmittedOnce
    FailsForAReason
    ResolvedIsGone
    OwnerControls
    NothingUnasked
    AgentGranted
    GreatestChosen
    AnswersAreTrue
PROPERTIES
    LookupsStay
    SubscriptionLive
    DeletesSettle
    ReadsSettle
CHECK_DEADLOCK FALSE
