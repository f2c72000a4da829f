SPECIFICATION FairSpec
CONSTANTS
  Procs = {"w", "x", "y"}
  Ids = {"w.pid", "x.pid", "y.pid"}
  Nobody = "nobody"
  Placements <- MCPlacements
  NodeOf <- MCNodeOf
  Messages = {"stop"}
  MaxDeliveries = 2
  MaxFaults = 2
INVARIANTS TypeOK CompletedMeansTold Exclusive
PROPERTY ShutdownArrives
