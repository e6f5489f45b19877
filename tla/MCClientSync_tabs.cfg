CONSTANTS
  v1 = v1
  v2 = v2
  Id = {1, 2, 3, 4, 5, 6, 7}
  Val = {v1, v2}
  Root = Root
  AtStart = AtStart
  AtEnd = AtEnd
  Undefined = Undefined
  Tab = {t1}
  NoRequest = NoRequest
  First <- OneBullet
  EditKinds = {"insert", "update", "move", "delete"}
  OtherBatch <- OtherEdits
  MaxEdits = 2
  MaxUndos = 1
  MaxRetries = 1
  MaxOthers = 1
  MaxDrops = 1
  MaxFailures = 1
  MaxEvents = 4

SPECIFICATION Spec
INVARIANTS
  SavedIsShown
  SavesNameTheirBase
  RefusedForOthers
PROPERTIES
  KeystrokesKept
  Settles
CHECK_DEADLOCK FALSE
