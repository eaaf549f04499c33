SPECIFICATION Spec
CONSTANTS
  IntBits = 8
  RangeMax = 4
  HopCap = 4
  Graphs <- MCGraphs
  Queries <- MCQueries
  Hashes <- MCHashes
  Nodes <- Three
  Edges <- MCEdges
  Tasks <- MCTasks
  NoLimit = 9
  MaxExprDepth = 3
  Texts <- MCTexts
  WrittenTokens <- MCWrittenTokens
  IndexBits = 4
  Written <- MCWritten
  Parameters <- MCParameters
  Clients <- MCClients
  Statements <- MCStatements
  Pastures <- MCPastures
  UniqueKeys <- MCUniqueKeys
  Themes <- MCThemes
  MaxAtoms = 6
INVARIANTS SearchesAreExact StatementsReadBack TokensAreExact SharedGraphIsSound RewritingIsFaithful
PROPERTY StatementsDoWhatTheySay
CHECK_DEADLOCK FALSE
