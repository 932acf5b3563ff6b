CONSTANTS
  e1 = e1
  e2 = e2
  w1 = w1
  w2 = w2
  Entity <- TwoEntities
  Worker <- TwoWorkers
  MaxTtl = 1
  TtlRequests <- TwoTtls
  MaxId = 3
  MaxConcurrentLocks = 1

SPECIFICATION RoutesSpec

PROPERTY TeardownSparesNewHolder
