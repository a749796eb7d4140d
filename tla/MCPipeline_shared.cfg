\* Two requests on one session implement Turn.
SPECIFICATION Spec
CONSTANTS
  r1 = r1
  r2 = r2
  k1 = k1
  t1 = t1
  t2 = t2
  Requests = {r1, r2}
  Keys = {k1}
  KeyOf <- TwoRequests
  ClientRoles = {"user"}
  Tools = {t1}
  MaxIter = 1
  HistoryLimit = 1
  ChanCap = 1
  EarlierTurns = {0}
  MaxChunks = 1
  UsageReports = 0
SYMMETRY RequestSymmetry
PROPERTIES
  TurnSafety
CHECK_DEADLOCK FALSE
