SPECIFICATION Spec
CONSTANTS
  s1 = s1  s2 = s2  r1 = r1  r2 = r2  r3 = r3
  Sessions = {s1, s2}
  Requests = {r1, r2, r3}
  TokenLife = 2
  RequestTime = 1
  MaxTime = 4
SYMMETRY MCSymmetry
INVARIANTS
  TypeOK
  DisagreementBounded
  NoLateRefill
PROPERTIES
  AcceptsRecentlyLive
