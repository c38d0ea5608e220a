SPECIFICATION Spec
CONSTANTS
    t1 = t1
    t2 = t2
    Tabs = {t1, t2}
    Unknown = Unknown
    NoTab = NoTab
    Chains <- MCChains
    Jobs <- MCJobs
    Transfers <- MCTransfers
    OtherTxs <- MCOtherTxs
    MaxHead = 2
    StartBlock <- MCStartBlock
    SolanaChains = {"sol"}
    MaxSignatures = 2
    Window = 2
    MaxWindows = 2
    MaxHistory = 3
    MaxFaults = 1
    Environments <- MCEnvironments
INVARIANTS CountedExactlyOnce
PROPERTIES ImplementsLedger DepositsCounted
CHECK_DEADLOCK FALSE
