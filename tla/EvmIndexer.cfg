CONSTANTS
  r1 = r1  r2 = r2
  Receivers = {r1, r2}
  None = None
  Events <- MCEvents
  Environments <- MCFaults
  TIP_CHANNEL = 1
  MaxBlock = 3
  MaxForgotten = 1
SPECIFICATION FairSpec
INVARIANTS ActedOnce NothingMissed
PROPERTIES CatchUpCoverage DepositsActedOn
