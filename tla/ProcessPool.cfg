\* Two workers on one pool, two calls, one lost process or failed wait.
SPECIFICATION FairSpec
CONSTANTS
  w1 = w1
  w2 = w2
  Workers = {w1, w2}
  Nobody = Nobody
  Kinds <- MCKinds
  NPools = 3
  KillTimeout = TRUE
  MaxTasks = 2
  MaxShutdowns = 1
  MaxFaults = 1
INVARIANTS TypeOK InterruptedIsGivenBack PoolReplacedWhenDone ShutdownFlagClears
PROPERTY ShutdownReturns
