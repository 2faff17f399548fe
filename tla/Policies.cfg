SPECIFICATION Spec
CONSTANTS
    t = t
    u = u
    Owners = {t, u}
    MaxWidth = 2
    MaxSteps = 4
    MaxChoice = 2
    Draws = {1, 2}
    Depth = 3
    Horizon = 4
SYMMETRY OwnersAlike
INVARIANTS
    DivergenceIsTold
    RerunsAlike
CHECK_DEADLOCK FALSE
