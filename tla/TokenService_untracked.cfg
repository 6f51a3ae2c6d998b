\* A login in the same second as a logout.
CONSTANTS
  Users = {alice}
  Requests = {r1, r2}
  MaxSessions = 2
  ExpiresIn = 1
  MaxTime = 1
  MaxLogins = 2
  NoToken = NoToken
SPECIFICATION Spec
INVARIANTS
  ActiveSessionsTracked
