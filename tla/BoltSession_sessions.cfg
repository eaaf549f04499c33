SPECIFICATION Spec
CONSTANTS
  Conns = {c1, c2}
  FlushOps = 2
  MaxTxn = 2
  MaxDepth = 3
INVARIANTS UnsyncedIsHeld OpenTxnImpliesBound OpenTxnIsLive
CHECK_DEADLOCK FALSE
