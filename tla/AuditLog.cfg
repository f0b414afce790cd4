SPECIFICATION FairSpec
CONSTANTS
  Last = 11
  LastRough = 7
  Newline = {2, 6, 8, 11}
  MaxLine = 2
  MaxBytes = 4
  MaxLines = 1
  Bootstrap = 6
  MaxFiles = 3
  MaxAborts = 1
  Disturbances = {"skip", "delete", "late", "truncate"}
INVARIANTS TypeOK ExactDelivery InOrder
PROPERTY CatchesUp
