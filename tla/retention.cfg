SPECIFICATION FairSpec
CONSTANTS
  Nodes = {n1, n2}
  Rows = {r1, r2, r3, r4}
  NoNode = NoNode
  BATCH_SIZE = 2
INVARIANTS TypeOK CycleCleans
PROPERTIES CycleEnds OldRowsGo
