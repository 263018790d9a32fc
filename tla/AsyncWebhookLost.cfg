CONSTANTS
  r1 = r1 r2 = r2 r3 = r3 j1 = j1 w1 = w1 w2 = w2 h1 = h1 NoRequest = NoRequest
  Subjects = {"async"}
  Requests <- MCRequests
  Policies <- MCPolicies
  MaxReplaces = 4
  Jobs = {j1}
  Workers = {w1, w2}
  NoJob = NoJob
  MaxAttempts = 3
  MaxHooks = 3
  MaxClaims = 4
  MaxFaults = 0
  HostedRequests = {h1}
  Prices = {1}
  Units = {2}
  Ceiling = 3
  Deposit = 5
  MaxContractChanges = 0
  MaxHostedFaults = 0
SPECIFICATION FrontSpec
PROPERTY WebhookConcluded
CHECK_DEADLOCK FALSE
