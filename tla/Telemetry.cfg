SPECIFICATION FairSpec
CONSTANTS
  MaxPatches = 3
  MaxFailures = 1
INVARIANTS SingleFlight NeverStalls ServiceInv
PROPERTIES SuccessIsKept OffIsReported Exits
CHECK_DEADLOCK FALSE
