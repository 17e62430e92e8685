CONSTANTS
    o1 = o1
    o2 = o2
    o3 = o3
    Openers = {o1, o2, o3}
    CURRENT_SCHEMA_VERSION = 2
    InitialVersions = {0, 1, 2, 3}
    MaxFaults = 1
SPECIFICATION FairSpec
INVARIANTS
    MigrationsRunOnce
    OpenedIsCurrent
PROPERTY EveryOpenerGetsIn
