SPECIFICATION FairSpec
CONSTANTS
  c1 = c1
  c2 = c2
  h1 = h1
  h2 = h2
  free = free
  small = small
  large = large
  None = None
  Changes = {c1}
  Plans = {free, small, large}
  Price <- Prices
  Resources <- AllDiffer
  FirstPlan = small
  Funds = 4
  Handlers = {h1}
  MaxAttempts = 2
  MaxOrders = 2
  Events = {"outage", "cancel", "overtake", "late", "renew"}
PROPERTIES Resolves
CHECK_DEADLOCK FALSE
