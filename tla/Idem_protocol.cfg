SPECIFICATION FairSpec
CONSTANTS
  a1 = a1  a2 = a2  a3 = a3
  k1 = k1  k2 = k2  h1 = h1  h2 = h2
  Attempts = {a1, a2}
  Keys = {k1, k2}
  Hashes = {h1, h2}
  LockOf <- LockShared
  TTL = 2
  RedisDelay = 1
  MaxTime = 3
INVARIANTS
  TypeOK
  LockExclusive
  StoreNeverConflicts
  AtMostOncePerWindow
  NewestExecutionRecorded
  ReplayFaithful
  MirrorLifeBounded
PROPERTIES
  ImplementsPromise
  EventuallyAnswered
