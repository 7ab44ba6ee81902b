SPECIFICATION Spec
CONSTANTS
  c1 = c1
  c2 = c2
  h1 = h1
  h2 = h2
  free = free
  small = small
  large = large
  None = None
  Changes = {c1}
  Plans = {free, small, large}
  Price <- Prices
  Resources <- AllDiffer
  FirstPlan = small
  Funds = 4
  Handlers = {h1, h2}
  MaxAttempts = 2
  MaxOrders = 1
  Events = {"crash", "latecrash", "loopcrash", "outage", "cancelled", "txfail", "cancel", "refund", "newer"}
INVARIANTS OrdersMatchContainer
PROPERTIES ReleasedOnSource SettledOnTarget
CHECK_DEADLOCK FALSE
