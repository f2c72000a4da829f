\* Liveness: one message, one call (other receivers are lost replies): requests
\* fail with and without effect, processes crash, calls are cancelled while they settle.
SPECIFICATION FairSpec
CONSTANTS
  Messages = {m1}
  Calls = {c1}
  NoMessage = NoMessage
  NoCall = NoCall
  NoReceipt = 0
  Receipts = {1, 2, 3, 4}
  MaxRetries = 1
  AsyncKinds = {TRUE, FALSE}
  WithHeartbeat = TRUE
  Faults = {"crash", "cancelLate", "failedCall", "lostReply", "clear"}
PROPERTIES
  UnattendedTaskReappears
  CallReturns
CHECK_DEADLOCK FALSE
