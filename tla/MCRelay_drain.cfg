SPECIFICATION DrainSpec
CONSTANTS
  n1 = n1
  t2 = t2
  a1 = a1
  Names = {n1, n2}
  Tokens = {t1}
  Accounts = {a1}
  Grants <- MCGrants
  AccountOf <- MCAccountOf
  NoConn = NoConn
  Conns = {c1, c2, c3}
  Requests = {}
  MaxAgents = 2
  StreamLimit = 1
SYMMETRY Symmetry
INVARIANT DrainMissesOnlyInFlight
