\* The refinement, at a limit of two sessions, and termination, with fairness.
CONSTANTS
  Users = {alice}
  Requests = {r1, r2}
  MaxSessions = 2
  ExpiresIn = 1
  MaxTime = 1
  MaxLogins = 3
  NoToken = NoToken
SPECIFICATION HFairSpec
PROPERTIES
  ImplementsSessions
  RequestsComplete
