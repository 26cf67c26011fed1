\* Clients that take their liberties with best effort tasks and real-time tasks
\* of two periods, in three control blocks.
CONSTANTS
    MAX_TASKS = 3
    Calls = {"hf_spawn", "hf_kill", "hf_delay", "hf_yield", "hf_schedlock"}
    NetTask = 1
    RTParams <- SpawnArgs
    SpawnPriority = 100
    Priorities = {}
    Delays = {0, 2}
    MaxMisses = 0
    Liberties = {"kill_self", "touch_delayed", "yield_locked"}
SPECIFICATION Spec
INVARIANTS
    TypeOK
    QueuePartition
    TaskCount
    DelaysPending
    WindowOpen
PROPERTIES
    ShortestPeriodFirst
CHECK_DEADLOCK FALSE
