SPECIFICATION BrowserSpec
CONSTANTS
  Prefix = {p, q}
  ApiKey = {k}
  Device = {d1}
  Owner = Owner
  Scope <- MCScope
  MaxSeq = 3
  None = None
  kairos = kairos
  Service = {kairos, tyche}
  a1 = a1
  a2 = a2
  Account = {a1, a2}
  Node = {n1}
  SignedOut = SignedOut
  NoNode = NoNode
  NoAuth = NoAuth
  MaxSaves = 1
  MaxStarts = 2
  MaxRuns = 2
  Tab = {t1, t2}
  Round = {r1}
  NoTab = NoTab
  MaxSecrets = 2
  Edit = {e1}
  Get = {g1, g2}
  NoState = NoState
  NoGet = NoGet
  MaxFieldSeq = 2
  large = large
  small = small
  c1 = c1
  c2 = c2
  Page = {b1, b2}
  Pack = {large, small}
  Chunk = {c1, c2}
  ChunksOf <- MCChunksOf
  NoPack = NoPack
  MaxEvictions = 1
  i1 = i1
  w1 = w1
  w2 = w2
  Window = {w1, w2}
  Self = Self
  Unlisted = Unlisted
  MaxTime = 2
  Lister = Lister
  Invitee = {i1}
  Nobody = Nobody
  MaxSign = 6
SYMMETRY Alike
CONSTRAINTS
  OneTakesDown
  OneHasCopy
  OneVault
  RestoresTwo
  WaitsAlone
  RunsAlone
INVARIANTS
  BrowserTypeOK
  SeenIsPast
  WorkerNeedsConsent
  SecretOpensCommit
  EditSeesOwnPush
  TipIsWhole
PROPERTIES
  ActsAsRegister
  ComparedPushKeepsKeys
  SignsOnlyWhileOn
  
  KeyGoesLast
  KeyFollowsGrant
CHECK_DEADLOCK FALSE
