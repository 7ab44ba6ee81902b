SPECIFICATION Spec
CONSTANTS
  t1 = t1
  g1 = g1
  g2 = g2
  k1 = k1
  k2 = k2
  None = None
  Gateways = {g1, g2}
  Conns = {k1, k2}
  Tasks = {t1}
  ActionOf <- OneStop
  MaxAttempts = 2
  MaxFaults = 2
  Events = {"break", "client", "gateway", "timeout", "crash"}
INVARIANTS TypeOK AnswersTrue NoOrphans
PROPERTIES RegistrationKept
SYMMETRY Sym
CHECK_DEADLOCK FALSE
