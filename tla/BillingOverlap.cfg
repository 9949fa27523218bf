SPECIFICATION Spec
SYMMETRY RequestSymmetry
CONSTANTS
  Requests = {r1, r2}
  PassPayments = {p1}
  PackPayments = {}
  GrantPayments = {g1}
  NoPayment = NoPayment
  PassCount = 1
  PassCredits = 1
  PackCredits = 2
  RefundInputs = {"COMPLETED"}
  Handlers = {"approve", "reject", "cancel", "grant", "refund", "read", "use"}
  UseAmounts = {2}
  DayTicks = 1
  MonthDays = 2
  PackDays = 3
  RetryLimit = 2
  Price = 999
  Horizon = 2
INVARIANTS
  TypeOK
  DecidedOnce
  BenefitsFollowApproval
  NeverOverspent
PROPERTIES
  DecisionIsFinal
  NearestExpiryFirst
  KeepsContract
