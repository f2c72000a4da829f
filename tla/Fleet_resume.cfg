SPECIFICATION FairSpec
CONSTANTS
  NRegions = 1
  MaxNodes <- MCOneRegion
  Stages <- MCThreeStages
  BatchSize = 2
  MaxRetries = 1
  MaxJobs <- MCOneRegion
  MaxFaults = 0
  LazyChoices = {FALSE}
  MaxNumWorkers = 2
  WorkersPerJob = 1
  QueueSizes = {1}
  ManualHires = {}
  ScaleTargets = {}
PROPERTY PausedAreResumed
CHECK_DEADLOCK FALSE
