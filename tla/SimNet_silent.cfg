SPECIFICATION Spec
CONSTANTS
    driver = driver
    a = a
    Hosts = {driver, a}
    Driver = driver
    Routes <- FromA
    Zombies = FALSE
    Raising = FALSE
    Reactive = TRUE
    MaxConns = 2
    MaxSent = 0
    MaxCrashes = 1
    MaxCuts = 0
INVARIANTS
    CrashIsSilent
CHECK_DEADLOCK FALSE
