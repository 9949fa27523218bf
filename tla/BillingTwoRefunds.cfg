SPECIFICATION Spec
SYMMETRY RequestSymmetry
CONSTANTS
  Requests = {r1, r2}
  PassPayments = {}
  PackPayments = {}
  GrantPayments = {g1}
  NoPayment = NoPayment
  PassCount = 1
  PassCredits = 2
  PackCredits = 2
  RefundInputs = {"COMPLETED"}
  Handlers = {"grant", "refund"}
  UseAmounts = {1, 3}
  DayTicks = 1
  MonthDays = 2
  PackDays = 2
  RetryLimit = 3
  Price = 999
  Horizon = 2
INVARIANTS
  RevokedOnce
