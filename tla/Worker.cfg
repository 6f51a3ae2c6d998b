\* Three requests, a pool of two connections; fairness.
CONSTANTS
  r1 = r1
  r2 = r2
  r3 = r3
  Requests = {r1, r2, r3}
  Routes <- MCRoutes
  Limit = 2
  ProbeTimeout = 1
  NoOne = NoOne
  Elsewhere = Elsewhere
SPECIFICATION FairSpec
INVARIANTS
  TypeOK
  HealthHonest
  WaitsAreShort
PROPERTIES
  HealthAnswers
  RequestsEnd
