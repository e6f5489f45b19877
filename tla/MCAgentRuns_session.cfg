SPECIFICATION Spec
CONSTANTS
  server = server
  user = user
  edit = edit
  ask = ask
  none = none
  Caller = {server, user}
  Starter = server
  OpsOf <- Answering
  Request = {edit, ask}
  Permission = {edit}
  NoRequest = none
  MaxCalls = 2
  LoadSession = FALSE
  Persistent = FALSE
  Slow = FALSE
  MaxDeaths = 1
INVARIANTS EndedIsGone LiveIsAwaited
PROPERTIES StartingIsSpared StopEnds
CHECK_DEADLOCK FALSE
