SPECIFICATION Spec
CONSTANTS
  Jtis = {j1, j2, j3}
  NoJti = NoJti
  Handlers = {h1}
  NoHandler = NoHandler
  Renewals = {r1, r2}
  SecretPersisted = TRUE
  max401Attempts = 3
  DiskFaults = FALSE
  AlwaysRestart = FALSE
INVARIANT AgentAccepted
