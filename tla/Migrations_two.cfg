SPECIFICATION Spec
CONSTANTS
  o1 = o1  o2 = o2
  Operators = {o1, o2}
  Targets = {0, 2, 7, 8, 10, 13, 14}
INVARIANTS
  TypeOK
  SchemaFollowsRevision
  HeadMatchesModels
PROPERTIES
  RecordsSurvive
