SPECIFICATION SpecMC
CONSTANTS
  MaxNode = 1
  MaxEdge = 1
  Ends <- Loop
  Values = {a}
  Absent = absent
  MaxTxn = 2
  MaxClock = 5
  MemCap = 2
  Budgets <- MCBudgets
PROPERTY RecoveryIsExact
CHECK_DEADLOCK FALSE
