CONSTANTS
  m = m  eth = eth  bogus = bogus  p = p  q = q
  Merchants = {m}
  ChainNames = {eth}
  UnknownNames = {bogus}
  Recipients = {p, q}
  Zero = Zero
  Implementation = Implementation
  NoCode = NoCode
  Uninitialized = Uninitialized
  destinationDomain <- MCDomain
  MAX_RECEIVERS_PER_MERCHANT = 2
  Senders = {multicall3}
  Urls = {url}
  NoUrl = NoUrl
  Amounts = {1, 199, 5000}
  PaidReceivers <- MCPaid
  MaxPayments = 2
SPECIFICATION Spec
CHECK_DEADLOCK FALSE
INVARIANTS SettledWhereAnnounced Conservation FeeBounded StuckOnlyByCap RegistryConsistent
