SPECIFICATION Spec
CONSTANTS
  Jtis = {j1, j2, j3}
  NoJti = NoJti
  Handlers = {h1, h2}
  NoHandler = NoHandler
  Renewals = {r1, r2}
  SecretPersisted = TRUE
  max401Attempts = 3
  DiskFaults = TRUE
  AlwaysRestart = TRUE
INVARIANTS ActiveAcknowledged Provenance
SYMMETRY Interchangeable
