SPECIFICATION AccountSpec
CONSTANTS
  Account = {a1, a2}
  NoAccount = NoAccount
  MaxForms = 3
  MaxDrops = 0
  MaxLoads = 0
INVARIANT AddressOfIdentity
CHECK_DEADLOCK FALSE
