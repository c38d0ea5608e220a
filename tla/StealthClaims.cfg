CONSTANTS
  c1 = c1  c2 = c2  acc = acc
  Claims = {c1, c2}
  Accounts = {acc}
  Offers <- MCOffers
  Environments <- MCEnvironments
  MAX_CONCURRENT_ROUNDS = 2
  QUEUE = 2
  MAX_USES = 2
CHECK_DEADLOCK FALSE
SPECIFICATION FairSpec
INVARIANTS ConfirmedWasPaid SpentOnce
PROPERTIES ReplaysRefused QueuedIsPaid RoundsEnd
