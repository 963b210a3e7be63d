SPECIFICATION Spec
CONSTANTS
  s = s
  r = r
  v1 = v1
  v2 = v2
  Edges = {s, r}
  Keys = {k}
  Info = {v1, v2}
  Absent = Absent
  NULL = NULL
  Contents <- MCContents
  MonitoredVictimsetcnt = 1
  MaxSeqnum <- MCMaxSeqnum
  MaxLost = 1
SYMMETRY Infos
CHECK_DEADLOCK FALSE
INVARIANTS
  ViewIsSent
  MonitorAsserts
  WaitingIsAnsweredIfNoneLost
PROPERTY NeverGoesBack
