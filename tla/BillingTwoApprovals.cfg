SPECIFICATION Spec
SYMMETRY RequestSymmetry
CONSTANTS
  Requests = {r1, r2}
  PassPayments = {p1, p2}
  PackPayments = {}
  GrantPayments = {}
  NoPayment = NoPayment
  PassCount = 1
  PassCredits = 2
  PackCredits = 2
  RefundInputs = {"COMPLETED"}
  Handlers = {"approve"}
  UseAmounts = {1, 3}
  DayTicks = 1
  MonthDays = 2
  PackDays = 2
  RetryLimit = 3
  Price = 999
  Horizon = 2
INVARIANTS
  OneActivePass
