SPECIFICATION ShrinkSpec
CONSTANTS
    Length = 4
    Budgets = {4, 30}
INVARIANTS
    TypeOK
    AnswerReproduces
    OneMinimalIfFifoPasses
CHECK_DEADLOCK FALSE
