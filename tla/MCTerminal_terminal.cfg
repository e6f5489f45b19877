SPECIFICATION Spec
CONSTANTS
  None = None
  t1 = t1
  t2 = t2
  Tab = {t1, t2}
  Opener <- InTurns
  small = small
  First = small
  Size = {small, large}
  MaxConns = 3
  MaxEvents = 2
INVARIANTS
  OneTerminal
  SizeSettles
PROPERTY EndsTogether
CHECK_DEADLOCK FALSE
