SPECIFICATION InOrderFairSpec
CONSTANTS
  Entries = {1, 2, 3}
  Publishers = {p1, p2}
  Batch = 2
  Poison = {1}
  None = None
INVARIANTS TypeOK SendersApart RepeatsDoubted
PROPERTIES ImplementsDelivery CausalOrder EveryRowPublished
CHECK_DEADLOCK FALSE
