CONSTANTS
  r1 = r1
  r2 = r2
  q = q
  Runs = {r1, r2}
  Request = {q}
  EventId = {1, 2, 3, 4}
  Process = {p1, p2}
  NoProcess = NoProcess
  NoEvent = NoEvent
  Offered <- Lives
  CrashPoints = {"waiting", "truncating", "appending", "checkpointing"}
  MaxCrashes = 1

SYMMETRY Alike

SPECIFICATION Spec
INVARIANTS
  AckedIsKept
  LoggedOnce
  EndedIsClosed
  CheckpointIsPast
  ProjectionIsLatest
PROPERTIES
  AppendOnly
CHECK_DEADLOCK FALSE
