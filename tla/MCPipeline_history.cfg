\* A session with more rows than the history limit.
SPECIFICATION Spec
CONSTANTS
  r1 = r1
  r2 = r2
  k1 = k1
  t1 = t1
  t2 = t2
  Requests = {r1}
  Keys = {k1}
  KeyOf <- OneRequest
  ClientRoles = {"user"}
  Tools = {t1}
  MaxIter = 1
  HistoryLimit = 2
  ChanCap = 1
  EarlierTurns = {0, 1, 2}
  MaxChunks = 1
  UsageReports = 1
PROPERTY
  LatestRowLoaded
CHECK_DEADLOCK FALSE
