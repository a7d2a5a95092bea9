SPECIFICATION FairSpec
CONSTANTS
  r1 = r1  r2 = r2  r3 = r3  r4 = r4
  Logins = {r1, r2, r3, r4}
  MaxAttempts = 2
  LockDuration = 1
  MaxSessions = 2
  Statuses = {"ACTIVE"}
  MaxConcurrent = 1
  MaxTime = 3
PROPERTIES
  EvictsOldest
