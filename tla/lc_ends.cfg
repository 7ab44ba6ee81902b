SPECIFICATION FairSpec
CONSTANTS
  Grace = 1
  Retention = 1
  Prepaid = 1
  Term = 1
  MaxAttempts = 1
  MaxNow = 2
  MaxPlans = 2
  InitStatus = {"stopped", "deployment_failed"}
  MaxEvents = 2
PROPERTIES DestroyJustified DataKept DueDestroyEnds DuePurgeEnds
CHECK_DEADLOCK FALSE
