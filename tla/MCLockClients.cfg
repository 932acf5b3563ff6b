CONSTANTS
  e1 = e1
  e2 = e2
  g1 = g1
  t1 = t1
  Nowhere = Nowhere
  Entity <- TwoEntities
  Guard <- OneGuard
  Tab <- OneTab
  MaxTtl = 2
  TtlRequests <- OneTtl
  Ttl = 2
  MaxId = 2
  MaxRetries = 1
  MaxActive = 1
  MaxStrays = 2
  MaxFaults = 1

SPECIFICATION ClientsFairSpec

INVARIANT ClientsTypeOK
INVARIANT OneRequestPerGuard
INVARIANT HoldersKeepTheirLock
PROPERTY CutShortOnlyByHolder
PROPERTY AbandonedLockExpires
PROPERTY ForgottenLockExpires
PROPERTY DestructorReturns
