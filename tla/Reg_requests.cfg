SPECIFICATION FairSpec
CONSTANTS
  q1 = q1  q2 = q2
  p1 = p1  p2 = p2  e1 = e1  e2 = e2
  k1 = k1  k2 = k2
  Requests = {q1, q2}
  Wants <- Mixed
  LockOf <- LockShared
  MaxStudents = 1
INVARIANTS
  TypeOK
  ContactLimits
PROPERTIES
  ImplementsRegistry
  EventuallyAnswered
