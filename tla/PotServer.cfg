SPECIFICATION Spec
CONSTANTS
    Jobs = {j1, j2}
    Boot = boot
    Stopper = stopper
    Ready = 2
    Grace = 1
    NoOne = none
    Other = other
INVARIANTS
    TypeOK
    NoServerForgotten
    TokenCostBounded
PROPERTIES
    NoForAReason
    EveryCallReturns
