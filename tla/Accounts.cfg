SPECIFICATION Spec
CONSTANTS
  x = x  y = y
  home = home  office = office  proxy = proxy
  Emails = {x, y}
  Demo = x
  Tokens = {k1, k2}
  Offered = {"admin"}
  Requests = {r1, r2}
  Clients = {home, office}
  Proxies = {proxy}
  Trusted = {office, proxy}
  MaxHashes = 1
  MaxAttempts = 2
  Window = 2
  MaxTime = 3
  MaxCrashes = 1
  None = None
SYMMETRY AccountSymmetry
CONSTRAINT LimiterOrRows
INVARIANTS TypeOK OnlyFirstUser HandedTokensStayGood RegistrationsComplete LimiterHolds StartsAgain
CHECK_DEADLOCK FALSE
