SPECIFICATION Spec
CONSTANTS
  Pages = {1, 2, 3}
  Values = {0, 1}
  ZeroValue = 0
  Readers = {r1, r2}
  MaxPages = 2
  Nil = Nil
  Entities = {"n1", "n2"}
  BlobLens = {0, 2, 4, 9}
  Payload = 10
  BlobDirEntry = 2
  BlobDirCount = 1
  FirstCap = 6
  ContCap = 2
  DirRoom = 1
  MaxPuts = 4
  Strings <- HeapStrings
  HeapPayload = 4
  HeaderLen = 2
  MaxOffset = 20
  MaxHeapOpens = 2
  RecordLens = {1, 2, 3}
  Threshold = 4
  MaxRecords = 3
  MaxDamage = 2
  MaxWalOpens = 2
  Labels <- LabelNames
  Entries <- EntryNames
  PropertyMaps <- PropMaps
  Projections <- KeySets
  SlotLabels <- LabelsOfLens
  SlotMaps <- SlotPropMaps
  Heads <- TwoHeads
  BoundBytes = 4
  MaxNodeId = 1
  MaxDdl = 3
  MaxOpens = 1
  MaxChanges = 1
  MaxBackupCalls = 2
  MaxIoErrors = 1
  MaxKills = 2
INVARIANTS
  PoolIsSound
  OverflowIsSound
  ReferencesStay
  LogIsReadWhole
  CatalogIsSound
  RecordsReadBack
  RestoreIsAtomic
CHECK_DEADLOCK FALSE
