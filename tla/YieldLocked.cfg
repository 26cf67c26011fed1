\* A task yields while it holds the scheduler lock.
CONSTANTS
    MAX_TASKS = 3
    Calls = {"hf_spawn", "hf_schedlock", "hf_yield"}
    NetTask = 1
    RTParams <- BestEffortArgs
    SpawnPriority = 100
    Priorities = {}
    Delays = {}
    MaxMisses = 0
    Liberties = {"yield_locked"}
SPECIFICATION Spec
PROPERTIES
    LockDisablesScheduling
