SPECIFICATION Spec
CONSTANTS
  Socket = {s1, s2}
  Query = {q1}
  MaxLogins = 2
  MaxData = 1
INVARIANTS
  Consistent
  SocksDialogue
  ReloginPending
  RequestUnderWay
  StopReleases
