SPECIFICATION EventSpec
CONSTANTS
  Contracts = {c1}
  Handlers = {h1}
  None = None
PROPERTY FailedEventsDrain
CHECK_DEADLOCK FALSE
