SPECIFICATION FairSpec
CONSTANTS
  token = token
  pairing = pairing
  none = none
  c1 = c1
  c2 = c2
  s1 = s1
  s2 = s2
  i1 = i1
  i2 = i2
  r1 = r1
  r2 = r2
  Tokens = {token}
  Pairings = {pairing}
  Clients = {c1, c2}
  Sessions = {s1, s2}
  Devices = {1, 2}
  Instances = {i1, i2}
  Requests = {r1, r2}
  Detected = {2, 4}
  Installed = 4
  Quotas = {1}
  MaxFaults = 1
  None = none
INVARIANTS TypeOK OneIdentity QuotaKept
PROPERTIES ReadyReported LossReported
CHECK_DEADLOCK FALSE
