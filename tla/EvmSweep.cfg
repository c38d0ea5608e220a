CONSTANTS
  m = m  n = n  r1 = r1  r2 = r2  r3 = r3  d1 = d1  d2 = d2  d3 = d3
  Receivers = {r1, r2, r3}
  Routed = {r1, r2, r3}
  MerchantSet = {m, n}
  merchantOf <- MCMerchantOf
  Deposits = {d1, d2, d3}
  depositTo <- MCDepositTo
  InitiallyDeployed = {}
  ReceiverCap = 1
  Environments <- MCEnvironments
SPECIFICATION SweepFairSpec
INVARIANTS DeployedIsDeployed NotifiedWereSettled
PROPERTIES EveryDepositSettles
