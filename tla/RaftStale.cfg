SPECIFICATION ScheduledSpec
CONSTANTS
    old = old
    mid = mid
    cut = cut
    heir = heir
    far = far
    v = v
    x = x
    y = y
    z = z
    Nodes = {old, mid, cut, heir, far, v, x, y, z}
    Nobody = Nobody
    Commands = {"set", "clear"}
    Noop = "noop"
    Elections <- FourTerms
    Bounds <- TwoCommands
INVARIANTS
    CommandsApplyAlike
CHECK_DEADLOCK FALSE
