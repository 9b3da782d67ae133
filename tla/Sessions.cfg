SPECIFICATION Spec
CONSTANTS
  SessionIds = {s1, s2}
  Requests = {r1, r2}
  Sockets = {c1, c2}
  TTL = 3
  Threshold = 2
  Cap = 4
  MaxSockets = 1
  MaxTime = 6
INVARIANTS TypeOK HardCap ActiveUsersStay RevokedForGood SlotsMatchSockets
PROPERTY RevokedSocketsClose
CHECK_DEADLOCK FALSE
