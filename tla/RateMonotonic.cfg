\* The six task sets of app/aula_10 over their hyperperiods.
CONSTANTS
    MAX_TASKS = 6
    Calls = {"hf_spawn"}
    NetTask = 0
    RTParams = {}
    SpawnPriority = 100
    Priorities = {}
    Delays = {}
    MaxMisses = 1
    Liberties = {}
SPECIFICATION RmSpec
INVARIANTS
    SchedulableSetsMeetDeadlines
    FreeCpuAsStated
