CONSTANTS
  r1 = r1  r2 = r2
  Receivers = {r1, r2}
  None = None
  Events <- MCEvents
  Environments <- MCEnvironments
  MAX_BLOCK_RANGE = 2
  TIP_CHANNEL = 1
  MaxBlock = 3
SPECIFICATION FairSpec
INVARIANTS ActedOnce NothingMissed
PROPERTIES DepositsActedOn
