SPECIFICATION RetrySpec
CONSTANTS
  Contracts = {c1}
  Handlers = {h1}
  None = None
PROPERTY RetrySettles
CHECK_DEADLOCK FALSE
