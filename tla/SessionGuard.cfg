\* An admin, and a user with two Cognito accounts of one address; two requests:
\* guard, deletions, logins and logouts.
CONSTANTS
  root = root
  ann = ann
  ann2 = ann2
  p0 = p0
  Subs = {root, ann, ann2}
  EmailOf <- MCEmailOf
  Lower <- MCLower
  Admins = {root}
  Profiles = {p0}
  NoProfile = p0
  Bodies <- MCBodies
  Requests = {r1, r2}
  NoRow = NoRow
  NoOne = NoOne
  MaxSessions = 1
  ExpiresIn = 1
  MaxTime = 1
  MaxLogins = 2
SPECIFICATION GSpec
SYMMETRY RequestSymmetry
INVARIANTS
  GTypeOK
  PassedWhileValid
  SessionsHaveRows
PROPERTIES
  SessionsBeginForUsers
