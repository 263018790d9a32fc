CONSTANTS
  c1 = c1 c2 = c2 c3 = c3 c4 = c4 k1 = k1
  t1 = t1 g1 = g1 s1 = s1 s2 = s2 u1 = u1 b1 = b1 d1 = d1
  r1 = r1 r2 = r2 h1 = h1 q1 = q1 q2 = q2 NoRequest = NoRequest
  None = None
  NoLimit = NoLimit
  Subjects = {"funding", "wallet", "quota", "hosted", "gateway"}
  Keys = {k1}
  Calls = {c1, c2, c3, c4}
  KeyOf <- MCKeyOf
  AmountOf <- MCAmountOf
  MaxSessions = 3
  MaxCallFaults = 3
  Tenants = {t1}
  Grants = {g1}
  GrantTenant <- MCGrantTenant
  GrantAmount <- MCGrantAmount
  Sessions = {s1, s2}
  SessionTenant <- MCSessionTenant
  SessionAmount <- MCSessionAmount
  Events <- MCEvents
  Holds = {u1, b1, d1}
  HoldTenant <- MCHoldTenant
  HoldKind <- MCHoldKind
  HoldSize <- MCHoldSize
  MaxCost = 3
  Replicas = {r1, r2}
  QuotaLimits = {0, 3}
  Fraction = 1
  MaxLease = 2
  MaxMinute = 1
  MaxLag = 2
  MaxChanges = 1
  MaxQuotaFaults = 1
  HostedRequests = {h1}
  Prices = {1, 2}
  Units = {2}
  Ceiling = 3
  Deposit = 5
  MaxContractChanges = 2
  MaxHostedFaults = 2
  InferenceRequests = {q1, q2}
  Prepaid = 3
  MaxRequestCost = 2
  Invoices = {0, 1, 3}
  MaxRetries = 1
  MaxGatewayFaults = 2
SPECIFICATION AccountsSpec
INVARIANTS
  HandedOutIsDurable
  LedgerExplained
  ReservedIsOpenHolds
  QuotaPerWindow
  ChargedAsServed
  HostedBooksBalance
  RequestsAccountedFor
SYMMETRY ReplicaSymmetry
CHECK_DEADLOCK FALSE
