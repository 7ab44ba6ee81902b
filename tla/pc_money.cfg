SPECIFICATION Spec
CONSTANTS
  c1 = c1
  c2 = c2
  h1 = h1
  h2 = h2
  free = free
  small = small
  large = large
  None = None
  Changes = {c1}
  Plans = {free, small, large}
  Price <- Prices
  Resources <- AllDiffer
  FirstPlan = small
  Funds = 4
  Handlers = {h1}
  MaxAttempts = 1
  MaxOrders = 2
  Events = {"crash", "latecrash", "overtake", "txfail", "markfail", "outage", "cancel", "renew", "refund", "newer", "resume", "discard", "late", "stall"}
INVARIANTS FundsInv
PROPERTIES MoneyConserved SettledOnce
CHECK_DEADLOCK FALSE
