SPECIFICATION FairRevokeSpec
CONSTANTS
  n1 = n1
  t2 = t2
  a1 = a1
  Names = {n1}
  Tokens = {t1, t2}
  Accounts = {a1}
  Grants <- MCGrants
  AccountOf <- MCAccountOf
  NoConn = NoConn
  Conns = {c1, c2}
  Requests = {}
  MaxAgents = 1
  StreamLimit = 1
INVARIANT RevokeMissesOnlyInFlight
PROPERTY RevokedSessionsEnd
