CONSTANTS
  r1 = r1
  r2 = r2
  q = q
  Runs = {r1, r2}
  Request = {q}
  EventId = {1, 2}
  Process = {p1, p2}
  NoProcess = NoProcess
  NoEvent = NoEvent
  Offered <- Lives
  CrashPoints = {"waiting", "truncating", "rewriting", "appending", "checkpointing"}
  MaxCrashes = 2

SPECIFICATION Spec
INVARIANT
  AckedIsKept
CHECK_DEADLOCK FALSE
