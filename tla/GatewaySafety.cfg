SPECIFICATION OneLeavesFairSpec
CONSTANTS
  Servers = {bff, payments, contracts}
  Bff = bff
  Publishing = {payments}
  Consuming = {contracts}
  PoolWaits = {payments}
  Requests = {r1, r2}
  Dashboard = {r1}
  Targets <- AllOrPayments
  Users = {u}
  UserOf <- OneUser
  Burst = 1
  None = None
INVARIANTS TypeOK WorkersInside CutHasCause NoTransactionCut OneBudget
PROPERTIES AnswerIsFinal EveryStopEnds EveryRequestAnswered
CHECK_DEADLOCK FALSE
