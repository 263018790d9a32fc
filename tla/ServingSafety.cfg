CONSTANTS
  d1 = d1 d2 = d2 q1 = q1 g1 = g1 g2 = g2
  NoRoute = NoRoute
  Subjects = {"routes", "budget", "campaign"}
  Deployments = {d1, d2}
  EndpointAlias = d1
  Generations = {1, 2, 3, 4, 5}
  Requests = {q1}
  Plans <- TwoPlans
  Fleets = {"none", "direct", "a"}
  FirstFleets <- TwoFleets
  Deletable = {d1, d2}
  MaxEvents = 1
  Gateways = {g1, g2}
  Batch = 2
  Limits = {3}
  CostLimits = {4}
  Prices = {1, 2}
  Breach = 1
  Recovery = 2
  MaxPolicySets = 1
  MaxFailures = 1
  Lifetime = 2
  Grace = 1
  LastCreate = 1
  MaxClock = 3
  MaxCreates = 0
  MaxCalls = 1
  MaxSandboxFaults = 1
  MaxRevision = 3
  FirstActives = {1}
  MinReplicas = 1
  MaxOperations = 0
  MaxRolloutFaults = 1
  CandidateCount = 1
  Decisions = {"select", "rejected", "inconclusive"}
  MaxCampaignFaults = 1
SPECIFICATION ControlSpec
INVARIANTS
  CurrentRouterSurvives
  NoOrphanRouter
  HardBudgetHolds
  PromotedKeepsItsDeployment
PROPERTIES
  DeleteWaitsForRequests
  RecoveryNeedsCalm
CHECK_DEADLOCK FALSE
