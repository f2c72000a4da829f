SPECIFICATION Spec
CONSTANTS
  NRegions = 2
  MaxNodes <- MCNodes
  Stages <- MCThreeStages
  BatchSize = 2
  MaxRetries = 1
  MaxJobs <- MCJobs
  MaxFaults = 1
  LazyChoices = {TRUE, FALSE}
  MaxNumWorkers = 2
  WorkersPerJob = 1
  QueueSizes = {0, 1, 11}
  ManualHires <- MCManual
  ScaleTargets = {1}
VIEW FleetView
INVARIANTS
  TypeOK
  CeilingKept
  PlansAddUp
  RunningLaidOffForOthers
  ZeroMeansZero
