SPECIFICATION Spec
CONSTANTS
  Conns = {c1, c2}
  FlushOps = 2
  MaxTxn = 2
  MaxDepth = 3
INVARIANTS DisconnectIsDurable
CHECK_DEADLOCK FALSE
