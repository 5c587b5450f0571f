SPECIFICATION Spec
CONSTANTS
    Sides = {1, 2, 3, 5, 7, 8, 13}
    ShortMins = {1, 2, 4}
    ShortMaxs = {1, 4, 7}
    LongMaxs = {1, 2, 6, 7}
INVARIANTS
    TypeOK
    ResultComplies
    SecondPassIsIdle
    PostCheckFair
    AspectKept
CHECK_DEADLOCK FALSE
