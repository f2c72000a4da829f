\* One task, one call (other receivers are lost replies), every fault but error
\* statuses of a send.
SPECIFICATION FairSpec
CONSTANTS
  Messages = {m1}
  Calls = {c1}
  NoMessage = NoMessage
  NoCall = NoCall
  NoToken = 0
  Tokens = {1, 2, 3}
  MaxRetries = 1
  MaxDeliveries = 3
  AsyncKinds = {TRUE, FALSE}
  WithHeartbeat = TRUE
  Faults = {"crash", "cancelCallback", "cancelLate", "failedCall", "lostReply", "deadline", "clear"}
INVARIANTS
  NoTaskLost
PROPERTIES
  RemovedByItsOwner
  UnattendedTaskReappears
  CallReturns
  LostLockNoticed
CHECK_DEADLOCK FALSE
