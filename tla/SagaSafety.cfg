SPECIFICATION EventSpec
CONSTANTS
  Contracts = {c1}
  Handlers = {h1, h2, h3}
  None = None
INVARIANTS TypeOK MoneyFollowsStatus HistoryToldOnce HeldOnce
PROPERTIES ImplementsEngagement PaymentsIsEscrow HeldGoesOn
CHECK_DEADLOCK FALSE
