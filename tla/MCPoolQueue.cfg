\* Three threads share two ids, so that the pool is empty, full and in between.
SPECIFICATION Spec
CONSTANTS
    Threads = {t1, t2, t3}
    NumIds = 2
    Items = {0, 1}
    NoItem = none
    MaxNodes = 3
SYMMETRY ThreadSymmetry
INVARIANTS Consistent PoolNeverStops
PROPERTY PoolIsFifo
