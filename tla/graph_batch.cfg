SPECIFICATION Spec
CONSTANTS
  p = p
  a = a
  b = b
  Tag = {"request", "reconciliation", "command", "function", "fact", "content", "payload", "semantics", "value"}
  Path = {p}
  Rest = {a, b}
  NoNode = NoNode
  NoId = NoId
  NoEdge = NoEdge
  NoPath = NoPath
  AnyPath = AnyPath
  Implicit = Implicit
  Parsed <- MCParsed
  Staged <- MCStaged
  Deltas <- MCDeltas
  MaxSequence = 2
  MaxBatch = 4
  MaxEdges = 3
INVARIANTS FailedCommitLeavesGraph StagedLookupsAreCommitted GraphCanBeRestored
PROPERTY ImplementsBatches
CHECK_DEADLOCK FALSE
