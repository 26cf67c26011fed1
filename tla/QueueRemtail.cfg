CONSTANTS
    Capacity = 2
    Value = {v1, v2}
    NULL = NULL
SPECIFICATION SpecRemtail
PROPERTY RemtailReturnsNewest
