SPECIFICATION Spec
CONSTANTS
  Requests = {r1}
  PassPayments = {p1, p2}
  PackPayments = {k1}
  GrantPayments = {}
  NoPayment = NoPayment
  PassCount = 2
  PassCredits = 2
  PackCredits = 2
  RefundInputs = {"COMPLETED"}
  Handlers = {"approve", "refund", "read", "use"}
  UseAmounts = {3}
  DayTicks = 1
  MonthDays = 2
  PackDays = 3
  RetryLimit = 3
  Price = 999
  Horizon = 5
INVARIANTS
  OneActivePass
  PassesDisjoint
  RevokedOnce
  NoCreditsOfCanceledPass
  LedgerExplainsBalance
  RefundFitsUse
PROPERTIES
  RefundsNewestFirst
  AccessFollowsPass
