\* A task kills itself, and its thread spawns a task before the next tick.
CONSTANTS
    MAX_TASKS = 3
    Calls = {"hf_spawn", "hf_kill"}
    NetTask = 1
    RTParams <- BestEffortArgs
    SpawnPriority = 100
    Priorities = {}
    Delays = {}
    MaxMisses = 0
    Liberties = {"kill_self"}
SPECIFICATION Spec
INVARIANTS
    OwnContext
