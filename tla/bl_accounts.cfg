SPECIFICATION Spec
CONSTANTS
  small = small
  large = large
  first = first
  back = back
  loyal = loyal
  nobody = nobody
  noplan = noplan
  Plans = {small, large}
  NoPlan = noplan
  Monthly <- MCMonthly
  Months = {1, 2}
  TierBps <- MCTierBps
  Month = 2
  PrepaidDays = 1
  Soon = 1
  Programs = {first, back, loyal}
  NoProgram = nobody
  Offer <- MCOffer
  Limits <- MCLimits
  Deposit = 8
  Instances = {1, 2}
  MaxNow = 3
  MaxOrders = 3
  MaxExtras = 1
INVARIANTS TypeOK NoDoubleReturn NoDayTwice PaidDaysServed BenefitOnce BudgetKept
PROPERTIES RefundFinal
CHECK_DEADLOCK FALSE
