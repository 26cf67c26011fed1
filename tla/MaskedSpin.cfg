CONSTANTS
    MAX_TASKS = 4
    Sems = {"empty", "full", "m", "mtx", "mtx_rc", "mtx_wc", "r_db", "w_db", "scratch"}
    Conds = {"empty", "full", "scratch"}
    Mtxs = {"m"}
    NULL = NULL
    FREED = FREED
    Apps = {"spawn_malloc"}
    N = 2
    MaxResumes = 0
SPECIFICATION FairSpec
PROPERTIES
    MaskedCallsReturn
CHECK_DEADLOCK FALSE
