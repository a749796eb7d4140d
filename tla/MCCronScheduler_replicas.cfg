\* Two replicas, one job, two admin calls.
SPECIFICATION Spec
CONSTANTS
  a = a
  b = b
  j1 = j1
  c1 = c1
  c2 = c2
  t1 = t1
  Replicas = {a, b}
  Jobs = {j1}
  Parses = {j1}
  Calls = {c1, c2}
  JobOf <- OneJob
  TaskIDs = {t1}
  MaxRetry = 1
  MaxCrashes = 1
  Nowhere = Nowhere
INVARIANTS TypeOK MappedEntryLive OneEntryUnlessDisturbed StopsUnlessDisturbed
PROPERTY TasksEnd
CHECK_DEADLOCK FALSE
