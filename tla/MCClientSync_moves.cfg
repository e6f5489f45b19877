CONSTANTS
  v1 = v1
  v2 = v2
  Id = {1, 2, 3, 4, 5, 6, 7}
  Val = {v1, v2}
  Root = Root
  AtStart = AtStart
  AtEnd = AtEnd
  Undefined = Undefined
  Tab = {t1}
  NoRequest = NoRequest
  First <- TwoBullets
  EditKinds = {"update", "move"}
  OtherBatch <- OtherMoves
  MaxEdits = 2
  MaxUndos = 0
  MaxRetries = 0
  MaxOthers = 1
  MaxDrops = 0
  MaxFailures = 0
  MaxEvents = 4

SPECIFICATION Spec
PROPERTIES
  NoBulletLost
CHECK_DEADLOCK FALSE
