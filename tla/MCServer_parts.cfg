SPECIFICATION Spec
CONSTANTS
  Conns = {c1, c2, c3}
  Addresses = {1, 2}
  NoAddress = 0
  MaxConnections = 3
  ConnCap = 2
  AuthCap = 2
  IpCap = 1
  AuthWindow = 1
  MaxClockTick = 1
  MaxFailures = 2
  Rate = 2
  Period = 2
  Sizes = {1, 4}
  MaxTime = 5
  MaxIo = 5
  EventLens = {1, 3}
  ReportLen = 2
  ChannelCap = 2
  MaxBytes = 4
  KeepFiles = 2
  FsyncEvery = 2
  SlowCap = 1
  SlowWindow = 2
  MaxEvents = 4
  MaxSlow = 4
  MaxFaults = 2
  Names = {"admin", "bob"}
  Sessions = {a1, a2}
  Hashes = {h1, h2}
  RootName = "admin"
  MaxStatements = 4
  Servers = {s1, s2}
  Tools = {t1}
  NoProcess = none
  MaxCrashes = 2
  Statements = 4
  BatchSize = 3
  QueueCap = 2
  IntWidths <- MCWidths
  MaxDecodeDepth = 5
  PackValues <- MCPackValues
  PackBuffers <- MCPackBuffers
  ChunkMax = 7
  MessageMax = 24
  Results <- MCResults
  Scripts <- MCScripts
INVARIANTS
  AddressesAreTreatedRight
  RatesHold
  EventsAreAccounted
  IdentitiesAreSound
  ImportIsTrue
  ConnectionIsFaithful
  ValuesAreFaithful
PROPERTIES StartIsSafe NobodyWaitsForever
CHECK_DEADLOCK FALSE
