SPECIFICATION FairSpec
CONSTANTS
  Jtis = {j1, j2, j3}
  NoJti = NoJti
  Handlers = {h1}
  NoHandler = NoHandler
  Renewals = {r1}
  SecretPersisted = FALSE
  max401Attempts = 3
  DiskFaults = FALSE
  AlwaysRestart = FALSE
INVARIANTS TypeOK AgentAccepted NoFalseRevocation SerialInv
PROPERTIES RotatedOutForGood OnlyAKillLocksOut RollsCredential RevocationStops RenewalProgresses
