CONSTANTS
  n1 = n1
  n2 = n2
  q1 = q1
  here = here
  gone = gone
  none = none
  Node = {n1, n2}
  First = {n1}
  Request = {q1, q2}
  q2 = q2
  NoRequest = none
  Agent = {here, gone}
  Installed = {here}
  Parents = {0, 3}
  Logs <- Started
  File0 <- Delegated
  MaxRuns = 2
  MaxMessages = 3
  MaxOthers = 2
  MaxCrashes = 1
  MaxEvents = 3

SPECIFICATION Spec
INVARIANTS
  OneWorkerPerNode
  HiddenWasPassedOn
  PassedOnce
PROPERTIES
  QuestionsAreShown
CHECK_DEADLOCK FALSE
