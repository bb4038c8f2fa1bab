SPECIFICATION Spec
CONSTANTS
  Replica = {n1, n2}
  Identity = {alice, bob}
  SiteKeyHolder = {alice, bob}
  UpsertSeq = {1, 3}
  RemoveSeq = {2}
  GrantSeq = {1, 2}
  StrayTo = {bob}
  StraySeq = {2}
  None = None
INVARIANTS TypeOK ListedXorRemoved InviteeNotContributor RedeliveryChangesNothing
PROPERTIES VersionAdvances OwnerKeepsListing HostedRosters HostedCopiesAgree
