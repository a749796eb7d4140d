\* One replica, one job, two admin calls.
SPECIFICATION Spec
CONSTANTS
  a = a
  b = b
  j1 = j1
  c1 = c1
  c2 = c2
  t1 = t1
  Replicas = {a}
  Jobs = {j1}
  Parses = {j1}
  Calls = {c1, c2}
  JobOf <- OneJob
  TaskIDs = {t1}
  MaxRetry = 1
  MaxCrashes = 0
  Nowhere = Nowhere
INVARIANT Stops
CHECK_DEADLOCK FALSE
