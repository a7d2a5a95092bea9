SPECIFICATION Spec
CONSTANTS
  r1 = r1  r2 = r2  r3 = r3  r4 = r4
  Logins = {r1, r2, r3}
  MaxAttempts = 2
  LockDuration = 1
  MaxSessions = 1
  Statuses = {"ACTIVE"}
  MaxConcurrent = 3
  MaxTime = 2
INVARIANTS
  SessionCap
