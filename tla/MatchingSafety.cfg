SPECIFICATION Spec
CONSTANTS
  N = 3
  Jobs = {j}
  Profiles = {p}
  Columns = {text}
  Skills = {go}
  None = None
  Fetch = 2
  InFlight = 2
  Faults = 2
INVARIANTS TypeOK IndexedWasCommitted StaleHasCause
PROPERTY PayloadCommitted
CHECK_DEADLOCK FALSE
