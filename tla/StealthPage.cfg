SPECIFICATION PageSpec
CONSTANTS
    p1 = p1
    p2 = p2
    c1 = c1
    c2 = c2
    wallet = wallet
    fresh = fresh
    Own = Own
    Nothing = Nothing
    Pages = {p1, p2}
    Passkeys = {c1, c2}
    Destinations <- MCDestinations
    HasTokenAccount <- MCHasTokenAccount
    POLLS = 2
    MaxClaims = 2
    MaxScans = 1
    Scenes <- MCScenes
INVARIANTS ClaimFaithful RetryPaysOnce ProcessedMeansSpent
PROPERTIES ClaimEnds
CHECK_DEADLOCK FALSE
