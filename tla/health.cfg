SPECIFICATION FairSpec
CONSTANTS
  Nodes = {n1, n2}
  Handlers = {h1}
  NoNode = NoNode
  Overlap = FALSE
  HubCrashes = TRUE
INVARIANTS TypeOK AlertsPaired CountsToThree
PROPERTIES AlertsInTurn SilentNodeReported RecoveryReported
CHECK_DEADLOCK FALSE
