--------------------------- MODULE ServiceBusService ---------------------------
(***************************************************************************)
(* A Service Bus queue in peek-lock mode as backend/servicebus_rest.py uses *)
(* it.  The service is external.  Every delivery has a lock token of its    *)
(* own, which works until the message is settled or its lock expires.  The  *)
(* queue detects duplicates, and dead-letters by itself a message that was  *)
(* delivered MaxDeliveries times (create() asks for 1000).                  *)
(***************************************************************************)
EXTENDS Integers

CONSTANTS
  Messages,       \* the tasks that may be pushed (one MessageId each)
  Tokens,         \* lock tokens
  NoToken,        \* "not locked"
  MaxRetries,     \* bound: num_retries of a pushed task is at most this
  MaxDeliveries   \* max_delivery_count of the queue

ASSUME MaxRetriesAssumption == MaxRetries \in Nat
ASSUME MaxDeliveriesAssumption == MaxDeliveries \in Nat \ {0}
ASSUME NoTokenAssumption == NoToken \notin Tokens

VARIABLE queue   \* queue[m]: the message of task m as the service keeps it

Message == [place      : {"new", "visible", "locked", "gone", "dead"},
            token      : Tokens \cup {NoToken},
            deliveries : 0..MaxDeliveries,
            retries    : 0..MaxRetries]

QueueTypeOK == queue \in [Messages -> Message]

QueueInit ==
  queue = [m \in Messages |-> [place |-> "new", token |-> NoToken,
                               deliveries |-> 0, retries |-> 0]]

Present(m) == queue[m].place \in {"visible", "locked"}

Valid(m, t) == queue[m].place = "locked" /\ queue[m].token = t

(* A MessageId that the service has seen before is accepted and dropped.    *)
Accept(m, retries) ==
  queue' = IF queue[m].place = "new"
             THEN [queue EXCEPT ![m].place = "visible", ![m].retries = retries]
             ELSE queue

PeekLock(m, fresh) ==
  /\ queue[m].place = "visible"
  /\ queue' = [queue EXCEPT ![m].place = "locked", ![m].token = fresh,
                            ![m].deliveries = @ + 1]

Settle(m, t, place) ==
  /\ Valid(m, t)
  /\ queue' = [queue EXCEPT ![m].place = place, ![m].token = NoToken]

(* Unlocked or expired: back into the queue, unless it was the last         *)
(* delivery.                                                                *)
Returned(m) == IF queue[m].deliveries < MaxDeliveries THEN "visible" ELSE "dead"

Unlock(m, t) == Settle(m, t, Returned(m))

LockExpires(m) == queue[m].place = "locked" /\ Settle(m, queue[m].token, Returned(m))

(* Receive-and-delete of everything that is not locked.                     *)
Drain ==
  queue' = [m \in Messages |->
              IF queue[m].place = "visible" THEN [queue[m] EXCEPT !.place = "gone"] ELSE queue[m]]
==============================================================================
