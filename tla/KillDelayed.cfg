\* A task that is in the delay queue is killed.
CONSTANTS
    MAX_TASKS = 3
    Calls = {"hf_spawn", "hf_kill", "hf_delay"}
    NetTask = 1
    RTParams <- BestEffortArgs
    SpawnPriority = 100
    Priorities = {}
    Delays = {2}
    MaxMisses = 0
    Liberties = {"touch_delayed"}
SPECIFICATION Spec
INVARIANTS
    CallsOnTasksReturn
