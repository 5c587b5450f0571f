SPECIFICATION Spec
CONSTANTS
    Routes = 3
INVARIANTS
    AgeMeansUnavailable
