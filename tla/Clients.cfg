SPECIFICATION MCClientsSpec
CONSTANTS
    l1 = l1
    l2 = l2
    v1 = v1
    v2 = v2
    w1 = w1
    w2 = w2
    w3 = w3
    s1 = s1
    s2 = s2
    Logins = {l1, l2}
    Visits = {v1, v2}
    WebIds = {w1, w2, w3}
    AccountOf <- MCAccountOf
    MaxStorageFaults = 1
    NoSession = NoSession
    NoWebId = NoWebId
    BrowserSessions = {s1, s2}
    Nobody = Nobody
    PlainUrl = PlainUrl
    MaxLoads = 4
    MaxBrowserFaults = 1
INVARIANTS
    ClientsTypeOK
    LinksOwnWebId
    ShownIsLoggedIn
    LoadShowsSession
PROPERTIES
    LoneLoginLinked
    SuccessFindable
    ImplementsPage
    LoginAnswered
CHECK_DEADLOCK FALSE
