SPECIFICATION Spec
CONSTANTS
  Sites = {s1}
  Tokens = {t1}
  Nodes = {n1, n2}
  Agents = {a1}
  Requests = {r1, r2}
  None = None
  Overlap = TRUE
INVARIANT SingleUse
CHECK_DEADLOCK FALSE
