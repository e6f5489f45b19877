CONSTANTS
  v1 = v1
  v2 = v2
  Id = {1, 2, 3, 4}
  Val = {v1, v2}
  Root = Root
  AtStart = AtStart
  AtEnd = AtEnd
  Undefined = Undefined
  MaxDocument = 3
  AtRevision = 1
  Document <- Documents
  Wanted <- Trees

SPECIFICATION SaveSpec
INVARIANTS
  ReplayFollowsStore
PROPERTIES
  ReachesTree
CHECK_DEADLOCK FALSE
