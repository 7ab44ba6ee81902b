SPECIFICATION FairSpec
CONSTANTS
  t1 = t1
  t2 = t2
  t3 = t3
  t4 = t4
  i1 = i1
  w1 = w1
  w2 = w2
  None = None
  Tasks <- TwoTasks
  Instances <- OneInstance
  InstanceOf <- OfOne
  ActionOf <- StopRestart
  Workers = {w1}
  Tokens = {1, 2, 3, 4, 5}
  Generated = {}
  Lease = 2
  MaxAttempts = 2
  MaxTasks = 2
  MaxCopies = 1
  Prompt = {"start", "reload", "execute"}
  Events = {"crash"}
  SelfHosted = {}
  InitStatus = {"running"}
PROPERTIES Settles
CHECK_DEADLOCK FALSE
