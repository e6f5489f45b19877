SPECIFICATION Spec
CONSTANTS
  server = server
  user = user
  edit = edit
  ask = ask
  none = none
  Caller = {server, user}
  Starter = server
  OpsOf <- Resuming
  Request = {edit}
  Permission = {edit}
  NoRequest = none
  MaxCalls = 2
  LoadSession = TRUE
  Persistent = TRUE
  Slow = TRUE
  MaxDeaths = 1
INVARIANTS AnsweredOnce
PROPERTIES NoReplayedApproval GoneIsNoticed
CHECK_DEADLOCK FALSE
