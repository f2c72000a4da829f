\* Liveness: one message, one call, which may be cancelled while its callback executes.
SPECIFICATION FairSpec
CONSTANTS
  Messages = {m1}
  Calls = {c1}
  NoMessage = NoMessage
  NoCall = NoCall
  NoReceipt = 0
  Receipts = {1,2,3,4}
  MaxRetries = 0
  AsyncKinds = {TRUE}
  WithHeartbeat = TRUE
  Faults = {"cancelCallback"}
PROPERTIES
  UnattendedTaskReappears
CHECK_DEADLOCK FALSE
