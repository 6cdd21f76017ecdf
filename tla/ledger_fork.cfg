SPECIFICATION LedgerSpec
CONSTANTS
  Appenders = {a1, a2}
  Contents = {c1, c2}
  MaxClock = 3
INVARIANT ChainVerifies
CHECK_DEADLOCK FALSE
