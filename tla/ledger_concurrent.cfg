SPECIFICATION LedgerSpec
CONSTANTS
  Appenders = {a1, a2, a3}
  Contents = {c1, c2}
  MaxClock = 4
INVARIANTS
  LedgerTypeOK
  PreviousIsEarlier
  BrokenMeansForked
PROPERTIES
  ForkIsForever
  SerialAppendsVerify
CHECK_DEADLOCK FALSE
