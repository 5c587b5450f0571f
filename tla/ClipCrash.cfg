SPECIFICATION Spec
CONSTANTS
    N = 2
    Gpu = TRUE
    Libass = TRUE
INVARIANT
    FinishedClipsKept
