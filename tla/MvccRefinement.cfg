SPECIFICATION FairSpec
CONSTANTS
  MaxNode = 2
  MaxEdge = 0
  Ends <- NoEdges
  Values = {a, b}
  Absent = absent
  MaxTxn = 2
  MaxClock = 5
  MemCap = 2
  NotWritten = notWritten
  NoSnapshot = noSnapshot
INVARIANT ReadYourWrites
PROPERTIES RefinesSnapshotStore VacuumCatchesUp
CHECK_DEADLOCK FALSE
