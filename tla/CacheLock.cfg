SPECIFICATION FairSpec
CONSTANTS
  Thread = {t1, t2, t3, t4}
  Ctl = {ctl}
  Buckets = 2
  MaxTries = 2
INVARIANTS
  LockAgrees
  NoLostWakeup
PROPERTY NobodyStuck
