\* Careful clients and every call but hf_schedlock(), best effort tasks in three control
\* blocks.  With priorities 64 and 128 the eight-bit arithmetic closes quickly.
CONSTANTS
    MAX_TASKS = 3
    Calls = {"hf_spawn", "hf_kill", "hf_delay", "hf_block", "hf_resume", "hf_yield", "hf_priorityset", "eth_isr"}
    NetTask = 1
    RTParams <- BestEffortArgs
    SpawnPriority = 64
    Priorities = {128}
    Delays = {1}
    MaxMisses = 0
    Liberties = {}
SPECIFICATION Spec
INVARIANTS
    NeverHalts
    RunningIsCurrent
PROPERTIES
    DispatchesRunnable
    RemainingNeverGrows
