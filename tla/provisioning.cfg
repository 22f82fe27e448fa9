SPECIFICATION Spec
CONSTANTS
  Sites = {s1, s2}
  Tokens = {t1, t2}
  Nodes = {n1, n2}
  Agents = {a1, a2}
  Requests = {r1, r2, r3}
  None = None
  Overlap = FALSE
INVARIANTS TypeOK SingleUse OwnIdentity SiteOwnsAll NothingStranded
PROPERTY EnrollsByInvitation
SYMMETRY Interchangeable
CHECK_DEADLOCK FALSE
