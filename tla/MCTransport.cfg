SPECIFICATION TransportSpec
CONSTANTS
  tip1 = tip1
  tip2 = tip2
  soft1 = soft1
  soft2 = soft2
  repoA = repoA
  High = {tip1, tip2}
  Low = {soft1, soft2}
  Scope <- MCScope
  MaxAttempts <- MCMaxAttempts
  None = None
  bio = bio
  keys = keys
  profile = profile
  vault = vault
  Write = {bio, keys}
  Key = {profile, vault}
  KeyOf <- MCKeyOf
  Foreign = {profile}
  WRITE_MAX_ATTEMPTS = 2
  Slot = {s1}
  Chunk = {k1, k2, k3}
  MaxOpens = 2
  Load = {l1, l2}
  NoLoad = NoLoad
  View = {v1}
  MaxVersion = 2
  Repo = {r1, r2}
  Busy = {r1}
  MaxTip = 2
  MaxOps = 1
  MaxFaults = 1
  Device = {d1}
  Area = {site}
  Repository = repo
  NoIntent = NoIntent
  Snapshot = TRUE
  LastN = 2
  MaxPack = 2
  MaxPinOps = 1
  MaxPinFaults = 1
INVARIANTS TransportTypeOK NoGetLost HandleIsOfAttempt AbortedNotAnswered
  DoneMeansChanged OneRequestPerConnection GivesOwnChunk
  TipsAreLive
PROPERTIES HighServedFirst EveryCallEnds BackupsHeal PinsCatchUp
CHECK_DEADLOCK FALSE
