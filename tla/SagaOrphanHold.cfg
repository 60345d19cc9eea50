SPECIFICATION Spec
CONSTANTS
  Contracts = {c1}
  Handlers = {h1}
  None = None
INVARIANT CancelledHoldsNothing
CHECK_DEADLOCK FALSE
