SPECIFICATION Spec
CONSTANTS
    p1 = p1
    Pages = {p1}
    None = None
    Routes <- MCRoutes
    Typed <- MCTyped
    Decimals = 2
    Balance = 300
    Life = 1
    Rewind = 1
    MaxPolls = 2
    MaxTip = 4
    MaxPays = 2
    Environments <- MCEnvironments
INVARIANT ConfirmedMeansPaid
CHECK_DEADLOCK FALSE
