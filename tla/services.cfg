SPECIFICATION FairSpec
CONSTANTS
    N = 1
    DependDe <- MCSeul
    BUDGET_RESTARTS = 2
    BUDGET_WINDOW = 4
    BACKOFF_MIN = 1
    BACKOFF_MAX = 2
    HEARTBEAT_PERIOD = 1
    HEARTBEAT_MISSES = 2
    STOP_GRACE = 1
    HEALTH_WINDOW = 2
    HEALTH_DEADLINE = 2
    Modes <- MCModes
    MaxFautes = 4
INVARIANTS
    TypeOK
PROPERTIES
    BudgetExact
    CommitSain
    ArretAboutit
    PenduTrouve
CHECK_DEADLOCK FALSE
