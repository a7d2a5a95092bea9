SPECIFICATION FairSpec
CONSTANTS
  w1 = w1
  Emails = {1, 2, 3}
  Workers = {w1}
  MaxRetries = 2
  BatchSize = 2
  MaxDisruptions = 2
  MaxAttempts = 6
INVARIANTS
  TypeOK
  SentMeansDelivered
  DuplicatesNeedDisruption
  GivenUpWhenExhausted
  AttemptsBounded
  BatchCurrent
PROPERTIES
  OutcomeFinal
  EventuallySettled
