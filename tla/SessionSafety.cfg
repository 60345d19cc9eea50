SPECIFICATION FormsFairSpec
CONSTANTS
  A = A
  Pages = {A, B}
  Calls = {a1, a2}
  PageOf <- AllInA
  AccessTTL = 3
  RefreshTTL = 4
  Forms = {a2}
  None = None
INVARIANTS TypeOK OverlapHasCause NoEffectTwice RetryIsAuthorized SessionSlides
PROPERTY EveryCallSettles
CHECK_DEADLOCK FALSE
