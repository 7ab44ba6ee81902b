SPECIFICATION FairSpec
CONSTANTS
  t1 = t1
  g1 = g1
  g2 = g2
  k1 = k1
  k2 = k2
  None = None
  Gateways = {g1, g2}
  Conns = {k1, k2}
  Tasks = {t1}
  ActionOf <- OneStop
  MaxAttempts = 1
  MaxFaults = 1
  Events = {"break", "gateway", "revoke"}
PROPERTIES Reachable CallsEnd RevokedEnds
CHECK_DEADLOCK FALSE
