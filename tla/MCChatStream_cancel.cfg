SPECIFICATION Spec
CONSTANTS
  s1 = s1
  s2 = s2
  x1 = x1
  q1 = q1
  p1 = p1
  k1 = k1
  NoStream = NoStream
  Requests <- TwoTurns
  Keys = {k1}
  MethodOf <- Methods
  KeyOf <- OneSession
  SendCap = 2
  MaxChunks = 1
INVARIANT Cancellable
CHECK_DEADLOCK FALSE
