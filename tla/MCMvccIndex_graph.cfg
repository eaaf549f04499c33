SPECIFICATION SpecIndex
CONSTANTS
  a = a
  b = b
  c = c
  MaxNode = 1
  MaxEdge = 1
  Ends <- Loop
  Values = {a, c}
  LabelOf <- TwoLabels
  PropsOf <- TwoProps
  Absent = absent
  MaxTxn = 2
  MaxClock = 5
  MemCap = 2
INVARIANTS NoOrphanDelta CommitIsAtomic ExistenceCovers CountsAreExact
PROPERTIES ReadsAreRepeatable LabelEntriesKept
CHECK_DEADLOCK FALSE
