SPECIFICATION Spec
CONSTANTS
  Prefix = {p, q}
  ApiKey = {k}
  Device = {d1}
  Owner = Owner
  Scope <- MCScope
  MaxSeq = 4
  None = None
SYMMETRY Symmetry
PROPERTIES KeyAdminKeepsPages
