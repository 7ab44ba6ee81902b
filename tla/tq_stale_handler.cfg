SPECIFICATION Spec
CONSTANTS
  t1 = t1
  t2 = t2
  t3 = t3
  t4 = t4
  i1 = i1
  w1 = w1
  w2 = w2
  None = None
  Tasks <- OneTask
  Instances <- OneInstance
  InstanceOf <- OfOne
  ActionOf <- Stop
  Workers = {w1, w2}
  Tokens = {1, 2, 3, 4, 5}
  Generated = {}
  Lease = 1
  MaxAttempts = 3
  MaxTasks = 1
  MaxCopies = 1
  Prompt = {"reload"}
  Events = {"crash", "reconnect", "retry", "resume", "discard", "cancel"}
  SelfHosted = {}
  InitStatus = {"running"}
SYMMETRY Handlers
INVARIANTS FencedExclusive TokensInv NoBlindReplay
PROPERTIES OnlyClaimantFinishes FinalStaysFinal
CHECK_DEADLOCK FALSE
