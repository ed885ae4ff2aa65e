SPECIFICATION Spec
CONSTANTS
  Account = {a1, a2}
  Role = {user, admin}
  Call = {c1, c2}
  None = None
INVARIANTS TypeOK OneIdentity
PROPERTY OneRefreshServesAll
SYMMETRY Symmetry
