\* Two concurrent requests of one user, at a limit of two sessions.
CONSTANTS
  Users = {alice}
  Requests = {r1, r2}
  MaxSessions = 2
  ExpiresIn = 2
  MaxTime = 2
  MaxLogins = 3
  NoToken = NoToken
SPECIFICATION Spec
SYMMETRY RequestSymmetry
INVARIANTS
  TypeOK
  GrantedTokensTracked
  LogoutEndsSession
  RecordOutlivesToken
  EvictionJustified
  RoomForOneMore
PROPERTIES
  EvictsOldestFirst
  WorkDescends
