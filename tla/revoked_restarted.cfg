SPECIFICATION FairSpec
CONSTANTS
  Jtis = {j1, j2}
  NoJti = NoJti
  Handlers = {h1}
  NoHandler = NoHandler
  Renewals = {r1}
  SecretPersisted = TRUE
  max401Attempts = 3
  DiskFaults = FALSE
  AlwaysRestart = TRUE
PROPERTY RevocationStops
