SPECIFICATION FairSpec
CONSTANTS
    h1 = h1
    h2 = h2
    r1 = r1
    i1 = i1
    i2 = i2
    m1 = m1
    m2 = m2
    Handles = {h1, h2}
    Unlocked = {h1}
    Roots = {r1}
    RootOf <- MCRootOf
    Ids = {i1, i2}
    Mounts = {m1, m2}
    Ports = {1, 2}
    Procs = {p1, p2}
    Reqs = {q1}
    Elevated = TRUE
    Options <- MCOptions
    NoSession = NoSession
    NoMount = NoMount
    NoPort = NoPort
    MaxCalls = 4
    MaxNC = 1
    MaxFaults = 1
INVARIANTS MountsAreOwned SessionsAreServed RevokedStaysRevoked
 
CHECK_DEADLOCK FALSE
