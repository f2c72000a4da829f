------------------------- MODULE StorageQueueService -------------------------
(***************************************************************************)
(* The Azure Storage queue as backend/storage_queue.py uses it.  The        *)
(* service is external: the module says what send, receive, update, delete  *)
(* and clear do to a message, and that every receive and every update       *)
(* issues a new pop receipt, so that an older receipt no longer works.      *)
(***************************************************************************)
EXTENDS Integers

CONSTANTS
  Messages,      \* the tasks that may be pushed (one message each)
  Receipts,      \* the pop receipts of the service
  NoReceipt,     \* "no receipt"
  MaxRetries     \* bound: num_retries of a pushed task is at most this

ASSUME MaxRetriesAssumption == MaxRetries \in Nat
ASSUME NoReceiptAssumption == NoReceipt \notin Receipts

VARIABLE queue   \* queue[m]: the message of task m as the service keeps it

Places == {"new", "visible", "hidden", "gone"}

Message == [place   : Places,
            receipt : Receipts \cup {NoReceipt},
            retries : 0..MaxRetries]

QueueTypeOK == queue \in [Messages -> Message]

QueueInit ==
  queue = [m \in Messages |-> [place |-> "new", receipt |-> NoReceipt, retries |-> 0]]

Present(m) == queue[m].place \in {"visible", "hidden"}

(* A receipt works until the message is received or updated again.  That   *)
(* the message became visible meanwhile does not invalidate it.             *)
Valid(m, r) == Present(m) /\ queue[m].receipt = r

SendMessage(m, retries) ==
  /\ queue[m].place = "new"
  /\ queue' = [queue EXCEPT ![m].place = "visible", ![m].retries = retries]

ReceiveMessage(m, fresh) ==
  /\ queue[m].place = "visible"
  /\ queue' = [queue EXCEPT ![m].place = "hidden", ![m].receipt = fresh]

(* update_message: new content, new visibility timeout, new receipt.        *)
UpdateMessage(m, r, place, retries, fresh) ==
  /\ Valid(m, r)
  /\ queue' = [queue EXCEPT ![m] = [place |-> place, receipt |-> fresh, retries |-> retries]]

DeleteMessage(m, r) ==
  /\ Valid(m, r)
  /\ queue' = [queue EXCEPT ![m].place = "gone", ![m].receipt = NoReceipt]

VisibilityTimeout(m) ==
  /\ queue[m].place = "hidden"
  /\ queue' = [queue EXCEPT ![m].place = "visible"]

ClearMessages ==
  queue' = [m \in Messages |->
              IF Present(m) THEN [queue[m] EXCEPT !.place = "gone", !.receipt = NoReceipt]
                            ELSE queue[m]]
==============================================================================
