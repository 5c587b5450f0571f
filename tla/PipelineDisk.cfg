SPECIFICATION Spec
CONSTANTS
    Jobs = {j1, j2, j3}
    Concurrency = 2
    Requests <- Images
    MaxBytes = 2
    MaxOutput = 2
    DiskSize <- DocumentedDisk
    Leaks = {0, 3}
    Gpu = FALSE
SYMMETRY JobSymmetry
INVARIANTS
    NoJobStarves
