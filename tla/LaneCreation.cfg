SPECIFICATION Spec
CONSTANTS
    t1 = t1
    t2 = t2
    Tabs = {t1, t2}
    None = None
    NoAddress = NoAddress
    Chain <- MCChain
    BACKEND_FELT_FORMAT = "pad64"
    Forms <- MCForms
    Cosigner = "k"
    Synced = {0}
    MaxCreds = 3
    MaxLanes = 2
    Files <- MCFiles
    Elsewhere <- MCElsewhere
    Environments <- MCEnvironments
INVARIANTS SharedRegistered NothingOrphaned
PROPERTIES RootPinned CreateEnds
CHECK_DEADLOCK FALSE
