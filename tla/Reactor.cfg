SPECIFICATION FairSpec
CONSTANTS
  Job = {j1, j2}
  Timer = {t1, t2}
  Fd = {f1, f2}
  Limit = {l1}
  None = None
  MaxCount = 2
  MaxResults = 2
  MaxDepth = 3
  MaxOps = 5
  MaxTime = 2
INVARIANT QueuesExact
PROPERTIES
  LimitsReset
  TimersFire
