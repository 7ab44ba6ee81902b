SPECIFICATION Spec
CONSTANTS
  t1 = t1
  t2 = t2
  t3 = t3
  t4 = t4
  i1 = i1
  w1 = w1
  w2 = w2
  None = None
  Tasks <- ThreeTasks
  Instances <- OneInstance
  InstanceOf <- OfOne
  ActionOf <- WholeLife
  Workers = {w1, w2}
  Tokens = {1, 2, 3, 4, 5}
  Generated = {}
  Lease = 1
  MaxAttempts = 1
  MaxTasks = 2
  MaxCopies = 1
  Prompt = {}
  Events = {"move", "cancel"}
  SelfHosted = {i1}
  InitStatus = {"none", "running"}
PROPERTIES DestroyedForGood
SYMMETRY Handlers
CHECK_DEADLOCK FALSE
