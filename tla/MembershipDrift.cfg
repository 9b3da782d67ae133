SPECIFICATION Spec
CONSTANTS
  a = 1  b = 2  c = 3
  m1 = m1  m2 = m2  m3 = m3
  MemberIds = {m1, m2, m3}
  Founder = m1
  Free = Free
  Users = {1, 2, 3}
  UserOf <- ThreeUsers
  Granted = {"owner", "admin", "member", "viewer"}
  Items = {}
  Teams = {}
  Requests = {r1, r2}
PROPERTY AuthorityDoesNotDrift
CHECK_DEADLOCK FALSE
