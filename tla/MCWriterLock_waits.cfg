CONSTANTS
  t1 = t1
  t2 = t2
  t3 = t3
  p1 = p1
  p2 = p2
  p3 = p3
  NoPid = NoPid
  Task = {t1, t2, t3}
  Proc = {p1, p2, p3}
  ProcOf <- ThreeProcesses
  MaxDeaths = 1
  MayStall = FALSE
SPECIFICATION FairSpec
INVARIANTS
  CalmExclusion
  CalmCleanup
PROPERTIES
  AbandonedLockIsBroken
  AcquireEnds
