\* Starvation freedom and the end of delays, under the timer's fairness.
CONSTANTS
    MAX_TASKS = 3
    Calls = {"hf_spawn", "hf_delay", "hf_block", "hf_resume", "hf_yield"}
    NetTask = 1
    RTParams <- LightArgs
    SpawnPriority = 64
    Priorities = {}
    Delays = {2}
    MaxMisses = 0
    Liberties = {}
SPECIFICATION FairSpec
PROPERTIES
    NoStarvation
    DelayEnds
