SPECIFICATION Spec
CONSTANTS
  Requests = {r1, r2, r3, r4}
  Wallets = {wa, wb}
  Amounts = {1, 2}
  Opening = 2
  OpeningBalance <- OpeningEverywhere
  None = None
SYMMETRY Interchangeable
INVARIANT NoOverdraft
CHECK_DEADLOCK FALSE
