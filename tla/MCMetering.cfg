SPECIFICATION FairSpec
CONSTANTS
  u1 = u1
  u2 = u2
  u3 = u3
  a1 = a1
  a2 = a2
  Units = {u1, u2, u3}
  Accounts = {a1, a2}
  AccountOf <- MCAccountOf
  MaxAccounts = 1
  MaxRetryBatches = 1
  MaxBoots = 2
CHECK_DEADLOCK FALSE
INVARIANT TypeOK
INVARIANT NeverBilledTwice
INVARIANT AckedIsBilled
INVARIANT NothingVanishes
INVARIANT MeterIsBounded
PROPERTY UsageSettles
