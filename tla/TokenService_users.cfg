\* Two users, two requests, at a limit of one session.
CONSTANTS
  Users = {alice, bob}
  Requests = {r1, r2}
  MaxSessions = 1
  ExpiresIn = 1
  MaxTime = 2
  MaxLogins = 3
  NoToken = NoToken
SPECIFICATION Spec
SYMMETRY UserAndRequestSymmetry
INVARIANTS
  SessionSetBounded
PROPERTIES
  UsersIsolated
