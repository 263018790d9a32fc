CONSTANTS
  Subjects = {"sandbox", "rollout", "campaign"}
  Lifetime = 2
  Grace = 1
  LastCreate = 1
  MaxClock = 3
  MaxCreates = 2
  MaxCalls = 1
  MaxSandboxFaults = 1
  MaxRevision = 3
  FirstActives = {1, 2}
  MinReplicas = 1
  MaxOperations = 4
  MaxRolloutFaults = 1
  CandidateCount = 2
  Decisions = {"select"}
  MaxCampaignFaults = 0
SPECIFICATION ProvisioningSpec
INVARIANTS
  BillIsExact
  OneActiveRevision
  CapacityIsTracked
  OneMeasuredWinner
  
PROPERTIES
  ClosedAfterCleanup
  PromotionDeletesReplaced
CHECK_DEADLOCK FALSE
