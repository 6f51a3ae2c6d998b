\* Both probes of a health request time out.
CONSTANTS
  r1 = r1
  r2 = r2
  r3 = r3
  Requests = {r1, r2}
  Routes <- MCAnyRoute
  Limit = 1
  ProbeTimeout = 1
  NoOne = NoOne
  Elsewhere = Elsewhere
SPECIFICATION Spec
INVARIANTS
  HealthWithinTimeout
