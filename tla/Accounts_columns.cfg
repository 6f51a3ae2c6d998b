\* An admin and a user, two requests, all operations.
CONSTANTS
  root = root
  ann = ann
  bob = bob
  ann2 = ann2
  p0 = p0
  p1 = p1
  Subs = {root, ann}
  EmailOf <- MCEmailOf
  Lower <- MCLower
  Admins = {root}
  Profiles = {p0, p1}
  NoProfile = p0
  Bodies <- MCBodies
  Requests = {r1, r2}
  NoRow = NoRow
  NoOne = NoOne
SPECIFICATION Spec
SYMMETRY RequestSymmetry
INVARIANTS
  TypeOK
PROPERTIES
  DeletionIsPermanent
  OnlyAskedColumnsChange
  ChangesAreAuthorised
  ImplementsDirectory
\* Once every account is deleted nobody can do anything.
CHECK_DEADLOCK FALSE
