\* Two workers; the first failure is one too many.
SPECIFICATION FairSpec
CONSTANTS
  w1 = w1
  w2 = w2
  Workers = {w1, w2}
  MaxConsecutiveFailures = 0
  MaxDisturbances = 2
INVARIANTS TypeOK QuietWhenLeft GracefulNeverCancels StopStands
PROPERTY ShutdownEnds
CHECK_DEADLOCK FALSE
