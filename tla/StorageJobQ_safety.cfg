\* One message, two calls, every fault.
SPECIFICATION Spec
CONSTANTS
  Messages = {m1}
  Calls = {c1, c2}
  NoMessage = NoMessage
  NoCall = NoCall
  NoReceipt = 0
  Receipts = {1, 2, 3, 4, 5, 6}
  MaxRetries = 1
  AsyncKinds = {TRUE}
  WithHeartbeat = TRUE
  Faults = {"crash", "cancelCallback", "cancelLate", "failedCall", "lostReply", "clear"}
INVARIANTS
  IInv
  NoTaskLost
  OnlyOwnerCanSettle
  SettlesWithLatestReceipt
  RetriesCurrent
  DeadLetteredOutOfRetries
PROPERTIES
  ImplementsLedger
VIEW ValidityView
SYMMETRY CallSymmetry
CHECK_DEADLOCK FALSE
