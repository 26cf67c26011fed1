CONSTANTS
    MAX_TASKS = 4
    Sems = {"empty", "full", "m", "mtx", "mtx_rc", "mtx_wc", "r_db", "w_db", "scratch"}
    Conds = {"empty", "full", "scratch"}
    Mtxs = {"m"}
    NULL = NULL
    FREED = FREED
    Apps = {"sem_test1", "cond_test1", "readers_writers", "mutex_test1", "mutex_filter", "cond_test2", "spawn_only"}
    N = 2
    MaxResumes = 1
SPECIFICATION FairSpec
INVARIANTS
    WaitersAreQueued
    QueuedOnce
    Exclusion
PROPERTIES
    BufferIntact
    EveryTaskProceeds
    SystemProceeds
