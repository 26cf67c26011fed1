\* A ring of four cells and two node values: wraps, fills and empties.
CONSTANTS
    Capacity = 3
    Value = {v1, v2}
    NULL = NULL
SPECIFICATION Spec
INVARIANTS
    TypeOK
    CountIsDistance
    NodesInitialised
PROPERTY ImplementsFifo
