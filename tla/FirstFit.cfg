CONSTANTS
    Allocators = {3}
    HEAP = 20
    SIZE_MOD = 1073741824
    Requests = {3, 8}
    CallocArgs <- SmallArrays
    MinPool = 3
    MaxMoving = 0
    NULL = NULL
SPECIFICATION Spec
INVARIANTS
    FirstFit
