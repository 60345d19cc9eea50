SPECIFICATION FairSpec
CONSTANTS
  N = 2
  Jobs = {j}
  Profiles = {p}
  Columns = {text}
  Skills = {go}
  None = None
  Fetch = 2
  InFlight = 2
  Faults = 4
PROPERTY EveryItemIndexed
CHECK_DEADLOCK FALSE
