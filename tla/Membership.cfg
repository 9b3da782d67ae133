SPECIFICATION FairSpec
CONSTANTS
  a = 1  b = 2  c = 3
  m1 = m1  m2 = m2  m3 = m3
  MemberIds = {m1, m2, m3}
  Founder = m1
  Free = Free
  Users = {1, 2}
  UserOf <- Rejoining
  Granted = {"owner", "admin", "viewer"}
  Items = {x}
  Teams = {{1, 2}}
  Requests = {r1, r2}
INVARIANTS TypeOK LastOwner TargetStable DeadlocksStayApart OneRowPerUser
PROPERTIES ImplementsRoster RequestsFinish
CHECK_DEADLOCK FALSE
