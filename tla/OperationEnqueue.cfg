CONSTANTS
  c1 = c1 c2 = c2 c3 = c3 c4 = c4 w1 = w1 w2 = w2 k1 = k1 d1 = d1 r1 = r1 r2 = r2 p1 = p1
  None = None
  Subjects = {"operations", "scaling"}
  Calls = {c1, c2, c3, c4}
  Workers = {w1, w2}
  MaxAttempts = 2
  MaxProgress = 2
  Keys = {k1}
  Deployments = {d1}
  KeyOf <- RaceKeyOf
  ResourceOf <- RaceResourceOf
  RequestOf <- RaceRequestOf
  Handled = {c1}
  Cleanable = {}
  Steps = {0, 1}
  Payloads = {r1, r2}
  MaxFaults = 0
  MaxEvents = 2
  FewestReplicas = 1
  MostReplicas = 3
  Controllers = {p1}
  MaxDecisions = 3
  MaxScaleFaults = 1
SPECIFICATION DeploymentsSpec
SYMMETRY WorkerSymmetry
INVARIANTS
  IdempotentEnqueue
  FleetIsExact
  FailsOnlyOnReuse
PROPERTIES
  ReplayIsHarmless
  ImplementsLifecycle
CHECK_DEADLOCK FALSE
