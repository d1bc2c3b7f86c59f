SPECIFICATION FairSpec
CONSTANTS
    h1 = h1
    h2 = h2
    h3 = h3
    c1 = c1
    c2 = c2
    t1 = t1
    t2 = t2
    t3 = t3
    Hosts <- MCHosts
    Clients <- MCClients
    Tokens <- MCTokens
    Asks <- MCAsks
    MaxPending = 2
    None = None
INVARIANTS
    TypeOK
    ExclusivePairing
PROPERTIES
    HandedIsSettled
    TasksEnd
CHECK_DEADLOCK FALSE
