SPECIFICATION FairSpec
CONSTANTS
  Nodes = {n1}
  Handlers = {h1}
  NoNode = NoNode
  Overlap = FALSE
  HubCrashes = FALSE
PROPERTY SilentNodeOffline
CHECK_DEADLOCK FALSE
