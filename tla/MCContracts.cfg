SPECIFICATION MCSpec
CONSTANTS
  Host = {d1, n2}
  Browser = {d1}
  Bio = {b1}
  PublicMeta = {pins}
  Blank = blank
  Mail = {m1, m2}
  Notice = {s1}
  MaxInbox = 2
  KeepNotices = 1
  LegacySeq = 1
  MaxProfileSeq = 3
  NoProfile = NoProfile
  MetaHost = {c1, n2}
  MetaClient = {c1}
  MetaOwner = {alice, bob}
  SignsAs <- MCSignsAs
  Settings = {x1}
  NoSettings = NoSettings
  Public = {p1, p2}
  Private = {q1}
  MaxChannel = 1
  MaxMetaSeq = 2
  NoMeta = NoMeta
  StarHost = {h1, h2, h3}
  Stargazer = {alice, bob}
  Fickle = {bob}
  MaxStarTime = 2
  VaultHost = {h1, h2}
  MaxVaultSeq = 3
  Prefix = {p}
  ApiKey = {k}
  Scope <- MCScope
  Owner = owner
  None = none
  Account = {a1}
  NoAccount = NoAccount
  MaxForms = 2
  MaxDrops = 1
  MaxLoads = 1
INVARIANT ContractsTypeOK
PROPERTIES
  BlindPutReplacesNothing
  InboxWritesKeepBio
  MetaOnlyAdvances
  StarsStay
  KeysKeepToScope
  ReplicasMeet
  AccountCompletes
CHECK_DEADLOCK FALSE
