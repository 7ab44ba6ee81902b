SPECIFICATION Spec
CONSTANTS
  t1 = t1
  t2 = t2
  t3 = t3
  t4 = t4
  i1 = i1
  w1 = w1
  w2 = w2
  None = None
  Tasks <- FourTasks
  Instances <- OneInstance
  InstanceOf <- OfOne
  ActionOf <- Changing
  Workers = {w1, w2}
  Tokens = {1, 2, 3, 4, 5}
  Generated = {t2, t3, t4}
  Lease = 2
  MaxAttempts = 1
  MaxTasks = 2
  MaxCopies = 1
  Prompt = {"reload", "execute"}
  Events = {"crash", "disable", "supersede", "cancel", "discard"}
  SelfHosted = {}
  InitStatus = {"running"}
SYMMETRY Handlers
INVARIANTS TypeOK OneAgentCall CancelHonest

CHECK_DEADLOCK FALSE
