CONSTANTS
  c1 = c1 w1 = w1 w2 = w2 k1 = k1 d1 = d1 r1 = r1
  None = None
  Subjects = {"operations", "campaign"}
  Calls = {c1}
  Workers = {w1, w2}
  MaxAttempts = 3
  MaxProgress = 2
  Keys = {k1}
  Deployments = {d1}
  KeyOf <- OneKeyOf
  ResourceOf <- OneResourceOf
  RequestOf <- OneRequestOf
  Handled = {c1}
  Cleanable = {c1}
  Steps = {}
  Payloads = {}
  MaxFaults = 3
  MaxEvents = 0
  CandidateCount = 1
  Decisions = {"select", "rejected", "inconclusive"}
  MaxCampaignFaults = 0
SPECIFICATION FairWorkSpec
INVARIANTS
  OneExecutorPerGeneration
  SuccessIsEarned
PROPERTIES
  ResolvedOrStranded
  CancelledIsCleanedUp
CHECK_DEADLOCK FALSE
