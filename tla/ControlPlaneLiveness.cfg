CONSTANTS
  d1 = d1 d2 = d2 q1 = q1 g1 = g1 g2 = g2
  NoRoute = NoRoute
  Subjects = {"routes", "budget", "sandbox", "rollout"}
  Deployments = {d1}
  EndpointAlias = d1
  Generations = {1, 2, 3, 4, 5}
  Requests = {q1}
  Plans <- OnePlan
  Fleets = {"none", "external", "direct", "a", "b"}
  FirstFleets <- OneFleet
  Deletable = {d1}
  MaxEvents = 2
  Gateways = {g1}
  Batch = 2
  Limits = {2}
  CostLimits = {3}
  Prices = {1, 2}
  Breach = 1
  Recovery = 2
  MaxPolicySets = 1
  MaxFailures = 2
  Lifetime = 2
  Grace = 1
  LastCreate = 1
  MaxClock = 3
  MaxCreates = 2
  MaxCalls = 0
  MaxSandboxFaults = 1
  MaxRevision = 3
  FirstActives = {1, 2}
  MinReplicas = 1
  MaxOperations = 3
  MaxRolloutFaults = 1
  CandidateCount = 1
  Decisions = {"select", "rejected", "inconclusive"}
  MaxCampaignFaults = 0
SPECIFICATION FairControlSpec
PROPERTIES
  HealthyIsServed
  DeleteFinishes
  DryPoolRefills
  HoldsAreClosedUnlessDeleted
  OperationsConclude
CHECK_DEADLOCK FALSE
