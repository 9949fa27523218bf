SPECIFICATION SteadySpec
CONSTANTS
  Requests = {r1}
  PassPayments = {p1}
  PackPayments = {}
  GrantPayments = {}
  NoPayment = NoPayment
  PassCount = 2
  PassCredits = 2
  PackCredits = 2
  RefundInputs = {"COMPLETED"}
  Handlers = {"approve", "read"}
  UseAmounts = {1, 3}
  DayTicks = 1
  MonthDays = 2
  PackDays = 2
  RetryLimit = 3
  Price = 999
  Horizon = 2
PROPERTIES
  ReadyPassIsActivated
