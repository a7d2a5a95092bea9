SPECIFICATION FairSpec
CONSTANTS
  r1 = r1  r2 = r2
  Requests = {r1, r2}
  Inputs <- MCInputs
INVARIANTS
  UsersHaveResources
  AnswersComplete
PROPERTIES
  ShutdownReleases
