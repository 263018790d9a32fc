CONSTANTS
  CandidateCount = 1
  Decisions = {"select", "rejected", "inconclusive"}
  MaxCampaignFaults = 0
SPECIFICATION CampaignFairSpec
PROPERTY ExpiredIsCleanedUp
CHECK_DEADLOCK FALSE
