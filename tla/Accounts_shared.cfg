\* Two Cognito accounts with the same address; fairness.
CONSTANTS
  root = root
  ann = ann
  bob = bob
  ann2 = ann2
  p0 = p0
  p1 = p1
  Subs = {root, ann, ann2}
  EmailOf <- MCSharedEmailOf
  Lower <- MCLower
  Admins = {root}
  Profiles = {p0, p1}
  NoProfile = p0
  Bodies <- MCSharedBodies
  Requests = {r1, r2}
  NoRow = NoRow
  NoOne = NoOne
SPECIFICATION FairSpec
INVARIANTS
  DeletedIsDisabled
  NoLoginAfterDeletion
  NobodyWaitsForAWaiter
PROPERTIES
  ImplementsDirectory
  RequestsComplete
\* Once every account is deleted nobody can do anything.
CHECK_DEADLOCK FALSE
