CONSTANTS
  r1 = r1  r2 = r2  d1 = d1  d2 = d2  d3 = d3  g1 = g1  g2 = g2
  MappedReceivers = {r1, r2}
  Routed = {r1, r2}
  Transfers = {d1, d2, d3}
  Gasless = {g1, g2}
  OtherTasks = {k1}
  depositTo <- MCDepositAndPaymentTo
  FirstNonce = 1
  NoNonce = NoNonce
  FaultSets <- MCFaultSets
CHECK_DEADLOCK FALSE
SPECIFICATION SweepFairSpec
INVARIANTS NoNonceGap AcceptedIsMade
PROPERTIES EveryDepositSettles
