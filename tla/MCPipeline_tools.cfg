\* One request through the tool loop up to its limit.
SPECIFICATION FairSpec
CONSTANTS
  r1 = r1
  r2 = r2
  k1 = k1
  t1 = t1
  t2 = t2
  Requests = {r1}
  Keys = {k1}
  KeyOf <- OneRequest
  ClientRoles = {"user", "tool"}
  Tools = {t1}
  MaxIter = 2
  HistoryLimit = 4
  ChanCap = 1
  EarlierTurns = {2}
  MaxChunks = 2
  UsageReports = 1
INVARIANTS
  TypeOK
  ToolUsePaired
  PromptEndsWithQuestion
  AnswerIsFinalText
  UsageIsSpent
CHECK_DEADLOCK FALSE
PROPERTY TurnLiveness
