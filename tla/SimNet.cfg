SPECIFICATION FairSpec
CONSTANTS
    driver = driver
    a = a
    Hosts = {driver, a}
    Driver = driver
    Routes <- FromA
    Zombies = TRUE
    Raising = TRUE
    Reactive = FALSE
    MaxConns = 1
    MaxSent = 3
    MaxCrashes = 1
    MaxCuts = 1
INVARIANTS
    InOrder
    NothingDropped
    NoResurrection
PROPERTIES
    EverythingArrives
    ConnectResolves
CHECK_DEADLOCK FALSE
