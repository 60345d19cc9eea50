SPECIFICATION TwoAndTwoFairSpec
CONSTANTS
  Requests = {1, 2, 3, 4}
  Wallets = {wa, wb}
  Amounts = {1, 2}
  Opening = 2
  OpeningBalance <- OpeningEverywhere
  None = None
INVARIANTS TypeOK BalanceIsLedger EventsTellHolds DeadlockIsCrossing
PROPERTIES ImplementsRequests RefusedOnlyByRace OverdraftOnlyByRace Answered
CHECK_DEADLOCK FALSE
