\* A login and a deletion of the same user at the same time.
CONSTANTS
  root = root
  ann = ann
  bob = bob
  ann2 = ann2
  p0 = p0
  p1 = p1
  Subs = {root, ann}
  EmailOf <- MCEmailOf
  Lower <- MCLower
  Admins = {root}
  Profiles = {p0, p1}
  NoProfile = p0
  Bodies <- MCBodies
  Requests = {r1, r2}
  NoRow = NoRow
  NoOne = NoOne
SPECIFICATION Spec
INVARIANTS
  NoLoginWhenDeleted
\* Once every account is deleted nobody can do anything.
CHECK_DEADLOCK FALSE
