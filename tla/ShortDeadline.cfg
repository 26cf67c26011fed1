\* A real-time task whose deadline is shorter than its period.
CONSTANTS
    MAX_TASKS = 3
    Calls = {"hf_spawn"}
    NetTask = 1
    RTParams <- ShortDeadlineArgs
    SpawnPriority = 100
    Priorities = {}
    Delays = {}
    MaxMisses = 0
    Liberties = {}
SPECIFICATION Spec
INVARIANTS
    WindowsWithinDeadline
