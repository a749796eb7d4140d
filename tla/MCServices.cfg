\* The herd, the memories, device pairing, the rate limit and the audit export.
SPECIFICATION ServicesSpec
CONSTANTS
  HerdSlugs <- Slugs
  HerdStopMax = 1
  MemTypes <- RowTypes
  MemAlike <- Alike
  MemLimit = 2
  MemCap = 2
  MemReplicas = {p, q}
  MemUseMax = 1
  DevPolls = {p1, p2}
  DevDecisions = {d1, d2}
  DevLoopback = TRUE
  RateReqs = {r1, r2, r3, r4}
  RateLimits <- Limits
  AudEvents = 4
  AudLimit = 2
  AudRestartMax = 1
SYMMETRY Interchange
INVARIANTS
  ServicesTypeOK
  HerdResults
  HerdChildren
  MemNothingLost
  GatewayKeys
  AudDelivered
CHECK_DEADLOCK FALSE
