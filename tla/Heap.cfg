CONSTANTS
    Allocators = {0, 1, 2, 3}
    HEAP = 14
    SIZE_MOD = 1073741824
    Requests = {3, 8}
    CallocArgs <- SmallArrays
    MinPool = 3
    MaxMoving = 1
    NULL = NULL
SPECIFICATION Spec
INVARIANTS
    BlocksDisjoint
    ChainWhole
    FreeMemoryCounted
    AllFreeAgain
