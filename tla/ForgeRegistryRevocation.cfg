SPECIFICATION HistorySpec
CONSTANTS
  Replica = {n1, n2}
  Identity = {alice, bob}
  SiteKeyHolder = {alice}
  UpsertSeq = {1}
  RemoveSeq = {2}
  GrantSeq = {1, 2}
  StrayTo = {}
  StraySeq = {}
  None = None
INVARIANTS RevokedGrantStaysRevoked
