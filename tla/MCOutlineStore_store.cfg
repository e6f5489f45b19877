CONSTANTS
  a = a
  b = b
  c = c
  v1 = v1
  v2 = v2
  Id = {a, b, c}
  Val = {v1, v2}
  Root = Root
  AtStart = AtStart
  AtEnd = AtEnd
  NoRequest = NoRequest
  Batch <- Batches
  RequestId = {r1}
  MaxRevision = 3
  MaxProposals = 1
  MaxCrashes = 1

SPECIFICATION Spec
INVARIANTS
  CommittedForest
  CommitsAreWhole
  AppliedOnce
  AckedIsDurable
  LogReplays
  ReviewAccounting
PROPERTIES
  NoStaleOverwrite
  DeletedForGood
  WholeBatches
