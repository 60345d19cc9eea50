SPECIFICATION Spec
CONSTANTS
  N = 3
  Jobs = {j}
  Profiles = {p}
  Columns = {text}
  Skills = {go}
  None = None
  Fetch = 2
  InFlight = 2
  Faults = 2
INVARIANT IndexFollows
CHECK_DEADLOCK FALSE
