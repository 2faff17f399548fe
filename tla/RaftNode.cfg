SPECIFICATION Spec
CONSTANTS
    a = a
    b = b
    c = c
    Nodes = {a, b, c}
    Nobody = Nobody
    Commands = {"set"}
    Noop = "noop"
    Elections <- Rematch
    Bounds <- LossyOrBusy
INVARIANTS
    ElectionSafety
    LogMatching
    LeaderCompleteness
    StateMachineSafety
CHECK_DEADLOCK FALSE
