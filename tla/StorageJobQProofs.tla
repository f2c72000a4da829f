-------------------------- MODULE StorageJobQProofs --------------------------
(***************************************************************************)
(* Theorems about StorageJobQ, for all constants: the inductive invariant   *)
(* IInv, what follows from it, and the refinement of TaskLedger.            *)
(***************************************************************************)
EXTENDS StorageJobQ, TLAPS

------------------------------------------------------------------------------
(* Facts about the constants, the receipts and the record types *)

LEMMA ConstantsDistinct ==
  /\ MaxRetries \in Nat
  /\ NoReceipt \notin Receipts /\ NoMessage \notin Messages /\ NoCall \notin Calls
BY MaxRetriesAssumption, NoReceiptAssumption, NoMessageAssumption, NoCallAssumption

(* A receipt the service issues is a receipt, and nobody holds it yet.      *)
LEMMA FreshReceipt == CanIssue => Fresh \in Receipts /\ Fresh \notin InUse
BY DEF CanIssue, Fresh

LEMMA HeldInUse ==
  \A m \in Messages, c \in Calls : {queue[m].receipt, env[c].rcpt, env[c].reply} \subseteq InUse
BY DEF InUse

(* The updates of single fields keep the type of an envelope.               *)
LEMMA EnvelopeFields ==
  ASSUME NEW e \in Envelope
  PROVE  /\ [e EXCEPT !.stop = TRUE] \in Envelope
         /\ \A l \in BOOLEAN : [e EXCEPT !.hb = "off", !.lockLost = l] \in Envelope
         /\ [e EXCEPT !.hb = "sent"] \in Envelope
         /\ [e EXCEPT !.hb = "sleep", !.reply = NoReceipt] \in Envelope
         /\ [e EXCEPT !.hb = "sleep", !.rcpt = e.reply, !.reply = NoReceipt] \in Envelope
         /\ \A r \in Receipts : [e EXCEPT !.hb = "applied", !.reply = r] \in Envelope
<1>1. [e EXCEPT !.stop = TRUE] \in Envelope
  BY DEF Envelope
<1>2. ASSUME NEW l \in BOOLEAN PROVE [e EXCEPT !.hb = "off", !.lockLost = l] \in Envelope
  <2>1. CASE l = TRUE
    BY <2>1 DEF Envelope
  <2>2. CASE l = FALSE
    BY <2>2 DEF Envelope
  <2> QED BY <2>1, <2>2
<1>3. [e EXCEPT !.hb = "sent"] \in Envelope
  BY DEF Envelope
<1>4. [e EXCEPT !.hb = "sleep", !.reply = NoReceipt] \in Envelope
  BY DEF Envelope
<1>5. [e EXCEPT !.hb = "sleep", !.rcpt = e.reply, !.reply = NoReceipt] \in Envelope
  BY DEF Envelope
<1>6. ASSUME NEW r \in Receipts PROVE [e EXCEPT !.hb = "applied", !.reply = r] \in Envelope
  BY DEF Envelope
<1> QED BY <1>1, <1>2, <1>3, <1>4, <1>5, <1>6

LEMMA MessageFields ==
  ASSUME NEW q \in Message, NEW p \in Places
  PROVE  /\ \A r \in Receipts \cup {NoReceipt} : [q EXCEPT !.place = p, !.receipt = r] \in Message
         /\ \A n \in 0..MaxRetries : [q EXCEPT !.place = p, !.retries = n] \in Message
         /\ [q EXCEPT !.place = p] \in Message
BY DEF Message

------------------------------------------------------------------------------
(* What the requests do to the queue *)

LEMMA ClearEffect ==
  ASSUME QueueTypeOK, ClearMessages
  PROVE  /\ QueueTypeOK'
         /\ \A m \in Messages :
              /\ queue'[m].retries = queue[m].retries
              /\ Present(m) => queue'[m].place = "gone"
              /\ ~Present(m) => queue'[m] = queue[m]
<1>1. \A m \in Messages : Present(m) =>
        [queue[m] EXCEPT !.place = "gone", !.receipt = NoReceipt] \in Message
  BY MessageFields DEF QueueTypeOK, Places
<1>2. QueueTypeOK'
  BY <1>1 DEF QueueTypeOK, ClearMessages
<1>3. \A m \in Messages :
        /\ queue'[m].retries = queue[m].retries
        /\ Present(m) => queue'[m].place = "gone"
        /\ ~Present(m) => queue'[m] = queue[m]
  BY DEF QueueTypeOK, ClearMessages, Message
<1> QED BY <1>2, <1>3

LEMMA PutBackEffect ==
  ASSUME QueueTypeOK, NEW c \in Calls, NEW n, PutBack(c, n)
  PROVE  \/ queue' = queue
         \/ /\ CanIssue /\ HoldsValid(c)
            /\ \A m \in Messages : m # env[c].msg => queue'[m] = queue[m]
            /\ env[c].msg \in Messages =>
                 /\ queue'[env[c].msg].place = "visible"
                 /\ queue'[env[c].msg].receipt = Fresh
                 /\ queue'[env[c].msg].retries = n
BY DEF PutBack, RequestFails, UpdateMessage, HoldsValid, QueueTypeOK, Message

------------------------------------------------------------------------------
(* Types *)

LEMMA QueueTypeStep == ASSUME IInv, Next PROVE QueueTypeOK'
<1> USE ConstantsDistinct DEF IInv, history, TypeOK, QueueTypeOK, Places,
     Envelope, Attached, Justified, Settling, Present, Valid, HoldsValid
<1>1. ASSUME NEW m \in Messages, Push(m) PROVE QueueTypeOK'
  <2>1. PICK n \in 0..MaxRetries : SendMessage(m, n)
    BY <1>1 DEF Push
  <2>2. [queue[m] EXCEPT !.place = "visible", !.retries = n] \in Message
    BY MessageFields
  <2> QED BY <2>1, <2>2 DEF SendMessage
<1>2. ASSUME NEW m \in Messages, Expire(m) PROVE QueueTypeOK'
  BY <1>2, MessageFields DEF Expire, VisibilityTimeout
<1>3. ASSUME NEW m \in Messages, ReceiveLost(m) PROVE QueueTypeOK'
  BY <1>3, MessageFields, FreshReceipt DEF ReceiveLost, ReceiveMessage
<1>4. CASE Clear
  BY <1>4, ClearEffect DEF Clear
<1>5. ASSUME NEW c \in Calls, NEW m \in Messages, Receive(c, m) PROVE QueueTypeOK'
  BY <1>5, MessageFields, FreshReceipt DEF Receive, ReceiveMessage
<1>6. ASSUME NEW c \in Calls, Delete(c) PROVE QueueTypeOK'
  <2>1. env[c].msg \in Messages
    BY <1>6 DEF Delete, Settled
  <2>2. [queue[env[c].msg] EXCEPT !.place = "gone", !.receipt = NoReceipt] \in Message
    BY <2>1, MessageFields
  <2> QED BY <1>6, <2>1, <2>2 DEF Delete, DeleteMessage, RequestFails
<1>7. ASSUME NEW c \in Calls, Requeue(c) PROVE QueueTypeOK'
  BY <1>7, FreshReceipt DEF Requeue, Settled, Message, PutBack,
       UpdateMessage, RequestFails
<1>8. ASSUME NEW c \in Calls, Replace(c) PROVE QueueTypeOK'
  BY <1>8, FreshReceipt DEF Replace, Settled, Message, PutBack,
       UpdateMessage, RequestFails
<1>9. ASSUME NEW c \in Calls, HeartbeatApplied(c) PROVE QueueTypeOK'
  BY <1>9, FreshReceipt DEF HeartbeatApplied, UpdateMessage, Message
<1> QED BY <1>1, <1>2, <1>3, <1>4, <1>5, <1>6, <1>7, <1>8, <1>9 DEF Next,
     CallStep, HeartbeatStep, Execute, ObserveCallback, ObserveLockLoss,
     Abandon, CancelCall, ObserveCancelledCallback, PropagateCancellation,
     CancelLate, GiveUpLockLost, StartSettlement, SendDeadLetter,
     SendDeadLetterFails, HeartbeatSends, HeartbeatReturns, HeartbeatFails,
     HeartbeatRefused, HeartbeatStops, Crash


LEMMA CallUpdates ==
  ASSUME CallTypeOK, NEW c \in Calls
  PROVE  /\ Finish(c) => CallTypeOK'
         /\ \A p \in Executing \cup Stopping \cup Settling : GoTo(c, p) => CallTypeOK'
         /\ \A p \in Stopping, l \in BOOLEAN : Stop(c, p, l) => CallTypeOK'
<1> USE DEF CallTypeOK, Invocation
<1>1. Finish(c) => CallTypeOK'
  BY DEF Finish, Idle
<1>2. ASSUME NEW p \in Executing \cup Stopping \cup Settling, GoTo(c, p) PROVE CallTypeOK'
  BY <1>2 DEF GoTo
<1>3. ASSUME NEW p \in Stopping, NEW l \in BOOLEAN, Stop(c, p, l) PROVE CallTypeOK'
  BY <1>3 DEF Stop
<1> QED BY <1>1, <1>2, <1>3

LEMMA CallTypeStep == ASSUME TypeOK, Next PROVE CallTypeOK'
<1>1. CallTypeOK /\ \A c \in Calls : env[c].lockLost \in BOOLEAN
  BY DEF TypeOK, Envelope
<1>2. ASSUME NEW c \in Calls, NEW m \in Messages, Receive(c, m) PROVE CallTypeOK'
  BY <1>1, <1>2, AsyncKindsAssumption DEF Receive, Begin, CallTypeOK, Invocation, Executing
<1>3. ASSUME NEW c \in Calls, Execute(c) PROVE CallTypeOK'
  BY <1>1, <1>3 DEF Execute, CallbackEnds, CallTypeOK, Invocation
<1>4. ASSUME NEW c \in Calls, ObserveCallback(c) PROVE CallTypeOK'
  <2>1. \E p \in Stopping : Stop(c, p, env[c].lockLost) \/ Stop(c, p, FALSE)
    BY <1>4 DEF ObserveCallback, CallbackObserved, Stopping
  <2> QED BY <1>1, <2>1, CallUpdates
<1>5. ASSUME NEW c \in Calls, ObserveCancelledCallback(c) PROVE CallTypeOK'
  <2>1. \E p \in Stopping : Stop(c, p, env[c].lockLost) \/ Stop(c, p, FALSE)
    BY <1>5 DEF ObserveCancelledCallback, CancelledCallbackObserved, Stopping
  <2> QED BY <1>1, <2>1, CallUpdates
<1>6. ASSUME NEW c \in Calls, Abandon(c) PROVE CallTypeOK'
  BY <1>1, <1>6, CallUpdates DEF Abandon, Abandoned, Stopping
<1>7. ASSUME NEW c \in Calls,
             ObserveLockLoss(c) \/ CancelCall(c) \/ SendDeadLetter(c) \/ StartSettlement(c)
      PROVE  CallTypeOK'
  <2>1. \E p \in Executing \cup Stopping \cup Settling : GoTo(c, p)
    BY <1>7 DEF ObserveLockLoss, LockLossObserved, CancelCall, OuterCancelled, SendDeadLetter,
                DeadLetterSent, StartSettlement, ChooseSettlement, Executing, Settling
  <2> QED BY <1>1, <2>1, CallUpdates
<1>8. ASSUME NEW c \in Calls, Finish(c) PROVE CallTypeOK'
  BY <1>1, <1>8, CallUpdates
<1>9. CASE UNCHANGED call
  BY <1>1, <1>9 DEF CallTypeOK
<1> QED BY <1>2, <1>3, <1>4, <1>5, <1>6, <1>7, <1>8, <1>9
        DEF Next, CallStep, HeartbeatStep, Push, Expire, ReceiveLost, Clear, PropagateCancellation,
            CancelledCallbackRaised, CancelLate, CancelledLate, GiveUpLockLost, RaiseLockLost,
            Delete, Settled, SendDeadLetterFails, Requeue, Replace, Crash, HeartbeatSends,
            HeartbeatApplied, HeartbeatReturns, HeartbeatFails, HeartbeatRefused, HeartbeatStops

LEMMA EnvTypeStep == ASSUME TypeOK, Next PROVE (env \in [Calls -> Envelope])'
<1>1. env \in [Calls -> Envelope]
  BY DEF TypeOK
<1>2. NoEnvelope \in Envelope
  BY ConstantsDistinct DEF NoEnvelope, Envelope
<1>3. ASSUME NEW c \in Calls, SetStop(c) PROVE (env \in [Calls -> Envelope])'
  BY <1>1, <1>3, EnvelopeFields, Zenon DEF SetStop
<1>4. ASSUME NEW c \in Calls, Release(c) PROVE (env \in [Calls -> Envelope])'
  BY <1>1, <1>2, <1>4 DEF Release
<1>5. ASSUME NEW c \in Calls, NEW l \in BOOLEAN, HeartbeatEnds(c, l)
      PROVE  (env \in [Calls -> Envelope])'
  <2>1. [env[c] EXCEPT !.hb = "off", !.lockLost = l] \in Envelope
    BY <1>1, EnvelopeFields
  <2> QED BY <1>1, <1>2, <1>5, <2>1 DEF HeartbeatEnds
<1>6. ASSUME NEW c \in Calls, NEW m \in Messages, Receive(c, m)
      PROVE  (env \in [Calls -> Envelope])'
  <2>1. queue[m].retries \in 0..MaxRetries
    BY DEF TypeOK, QueueTypeOK, Message
  <2>2. [NoEnvelope EXCEPT !.msg = m, !.rcpt = Fresh, !.retries = queue[m].retries,
                           !.hb = IF WithHeartbeat THEN "sleep" ELSE "off"] \in Envelope
    BY <1>6, <2>1, FreshReceipt DEF Receive, NoEnvelope, Envelope
  <2> QED BY <1>1, <1>6, <2>2 DEF Receive
<1>7. ASSUME NEW c \in Calls, HeartbeatSends(c) PROVE (env \in [Calls -> Envelope])'
  BY <1>1, <1>7, EnvelopeFields, Zenon DEF HeartbeatSends
<1>8. ASSUME NEW c \in Calls, HeartbeatApplied(c) PROVE (env \in [Calls -> Envelope])'
  BY <1>1, <1>8, EnvelopeFields, FreshReceipt, Zenon DEF HeartbeatApplied
<1>9. ASSUME NEW c \in Calls, HeartbeatReturns(c) PROVE (env \in [Calls -> Envelope])'
  BY <1>1, <1>9, EnvelopeFields, Zenon DEF HeartbeatReturns
<1>10. ASSUME NEW c \in Calls, HeartbeatFails(c) PROVE (env \in [Calls -> Envelope])'
  BY <1>1, <1>10, EnvelopeFields, Zenon DEF HeartbeatFails
<1>11. ASSUME NEW c \in Calls, HeartbeatRefused(c) \/ HeartbeatStops(c)
       PROVE  (env \in [Calls -> Envelope])'
  <2>1. env[c].lockLost \in BOOLEAN
    BY <1>1 DEF Envelope
  <2> QED BY <1>5, <1>11, <2>1 DEF HeartbeatRefused, HeartbeatStops
<1>12. ASSUME NEW c \in Calls, Crash(c) PROVE (env \in [Calls -> Envelope])'
  BY <1>1, <1>2, <1>12 DEF Crash
<1>13. CASE UNCHANGED env
  BY <1>1, <1>13
<1> QED BY <1>3, <1>4, <1>6, <1>7, <1>8, <1>9, <1>10, <1>11, <1>12, <1>13
        DEF Next, CallStep, HeartbeatStep, Push, Expire, ReceiveLost, Clear, Execute,
            ObserveCallback, ObserveLockLoss, Abandon, CancelCall, ObserveCancelledCallback,
            PropagateCancellation, CancelLate, GiveUpLockLost, StartSettlement, Delete,
            SendDeadLetter, SendDeadLetterFails, Requeue, Replace

LEMMA TypeOKStep == ASSUME IInv, Next PROVE TypeOK'
<1>1. QueueTypeOK' /\ CallTypeOK' /\ (env \in [Calls -> Envelope])'
  BY QueueTypeStep, CallTypeStep, EnvTypeStep DEF IInv
<1> USE DEF IInv, TypeOK, history
<1>2. ASSUME NEW c \in Calls, SendDeadLetter(c) \/ SendDeadLetterFails(c)
      PROVE  env[c].msg \in Messages
  BY <1>2 DEF Attached, Envelope, CallTypeOK, Invocation, SendDeadLetter, DeadLetterSent,
              SendDeadLetterFails, Settled
<1>3. ASSUME NEW c \in Calls, Execute(c) PROVE env[c].msg \in Messages
  BY <1>3 DEF Attached, Envelope, CallTypeOK, Invocation, Execute, CallbackEnds, Executing
<1>4. (dlq \subseteq Messages)'
  <2>1. ASSUME NEW c \in Calls, SendDeadLetter(c) \/ SendDeadLetterFails(c)
        PROVE  (dlq \subseteq Messages)'
    BY <1>2, <2>1 DEF SendDeadLetter, SendDeadLetterFails
  <2> QED BY <2>1 DEF Next, CallStep, HeartbeatStep, Push, Expire, ReceiveLost, Clear, Receive, Execute, ObserveCallback,
         ObserveLockLoss, Abandon, CancelCall, ObserveCancelledCallback,
         PropagateCancellation, CancelLate, GiveUpLockLost, StartSettlement, Delete,
         Requeue, Replace, HeartbeatSends, HeartbeatApplied, HeartbeatReturns,
         HeartbeatFails, HeartbeatRefused, HeartbeatStops, Crash
<1>5. (done \subseteq Messages /\ cleared \subseteq Messages)'
  BY <1>3 DEF Next, CallStep, HeartbeatStep, Push, Expire, ReceiveLost, Clear, Receive, Execute, ObserveCallback,
         ObserveLockLoss, Abandon, CancelCall, ObserveCancelledCallback,
         PropagateCancellation, CancelLate, GiveUpLockLost, StartSettlement, Delete,
         SendDeadLetter, SendDeadLetterFails, Requeue, Replace, HeartbeatSends,
         HeartbeatApplied, HeartbeatReturns, HeartbeatFails, HeartbeatRefused,
         HeartbeatStops, Crash
<1>6. (owner \in [Messages -> Calls \cup {NoCall}] /\ unsure \subseteq Calls)'
  BY DEF Next, CallStep, HeartbeatStep, Push, Expire, ReceiveLost, Clear, Receive, Execute, ObserveCallback,
         ObserveLockLoss, Abandon, CancelCall, ObserveCancelledCallback,
         PropagateCancellation, CancelLate, GiveUpLockLost, StartSettlement, Delete,
         SendDeadLetter, SendDeadLetterFails, Requeue, Replace, HeartbeatSends,
         HeartbeatApplied, HeartbeatReturns, HeartbeatFails, HeartbeatRefused,
         HeartbeatStops, Crash
<1> QED BY <1>1, <1>4, <1>5, <1>6


------------------------------------------------------------------------------
(* The conjuncts of IInv, one lemma each with one step per action that can disturb it *)

(* An invocation or a heartbeat at work keeps its message and its receipt. *)
LEMMA AttachedStep == ASSUME IInv, TypeOK', Next PROVE Attached'
<1> USE ConstantsDistinct DEF IInv, history, Attached, TypeOK, CallTypeOK,
     QueueTypeOK, Message, Invocation, Envelope, Idle, Settling, Stopping,
     Executing, Ended
<1>1. ASSUME NEW m \in Messages, Push(m) PROVE Attached'
  BY <1>1 DEF Push, SendMessage
<1>2. ASSUME NEW m \in Messages, Expire(m) PROVE Attached'
  BY <1>2 DEF Expire, VisibilityTimeout
<1>3. ASSUME NEW m \in Messages, ReceiveLost(m) PROVE Attached'
  BY <1>3, FreshReceipt, HeldInUse DEF ReceiveLost, ReceiveMessage
<1>4. CASE Clear
  BY <1>4, ClearEffect DEF Clear
<1>5. ASSUME NEW c \in Calls, NEW m \in Messages, Receive(c, m) PROVE Attached'
  BY <1>5, FreshReceipt, HeldInUse DEF Receive, ReceiveMessage, Begin,
       NoEnvelope
<1>6. ASSUME NEW c \in Calls, Execute(c) PROVE Attached'
  BY <1>6 DEF Execute, CallbackEnds
<1>7. ASSUME NEW c \in Calls, ObserveCallback(c) PROVE Attached'
  BY <1>7 DEF ObserveCallback, CallbackObserved, Stop, SetStop
<1>8. ASSUME NEW c \in Calls, ObserveLockLoss(c) PROVE Attached'
  BY <1>8 DEF ObserveLockLoss, LockLossObserved, GoTo
<1>9. ASSUME NEW c \in Calls, Abandon(c) PROVE Attached'
  BY <1>9 DEF Abandon, Abandoned, Stop, SetStop
<1>10. ASSUME NEW c \in Calls, CancelCall(c) PROVE Attached'
  BY <1>10 DEF CancelCall, OuterCancelled, GoTo
<1>11. ASSUME NEW c \in Calls, ObserveCancelledCallback(c) PROVE Attached'
  BY <1>11 DEF ObserveCancelledCallback, CancelledCallbackObserved, Stop,
       SetStop
<1>12. ASSUME NEW c \in Calls, PropagateCancellation(c) PROVE Attached'
  BY <1>12 DEF PropagateCancellation, CancelledCallbackRaised, Finish,
       Release, NoEnvelope
<1>13. ASSUME NEW c \in Calls, CancelLate(c) PROVE Attached'
  BY <1>13 DEF CancelLate, CancelledLate, Finish, Release, NoEnvelope
<1>14. ASSUME NEW c \in Calls, GiveUpLockLost(c) PROVE Attached'
  BY <1>14 DEF GiveUpLockLost, HeartbeatCancelled, RaiseLockLost, Finish,
       Release, NoEnvelope
<1>15. ASSUME NEW c \in Calls, StartSettlement(c) PROVE Attached'
  BY <1>15 DEF StartSettlement, HeartbeatCancelled, ChooseSettlement, GoTo
<1>16. ASSUME NEW c \in Calls, Delete(c) PROVE Attached'
  BY <1>16 DEF Delete, Settled, Finish, DeleteMessage, RequestFails,
       Release, NoEnvelope
<1>17. ASSUME NEW c \in Calls, SendDeadLetter(c) PROVE Attached'
  BY <1>17 DEF SendDeadLetter, DeadLetterSent, GoTo
<1>18. ASSUME NEW c \in Calls, SendDeadLetterFails(c) PROVE Attached'
  BY <1>18 DEF SendDeadLetterFails, Settled, Finish, Release, NoEnvelope
<1>19. ASSUME NEW c \in Calls, Requeue(c) PROVE Attached'
  BY <1>19, PutBackEffect, FreshReceipt, HeldInUse DEF Requeue, Settled,
       Finish, Release, NoEnvelope
<1>20. ASSUME NEW c \in Calls, Replace(c) PROVE Attached'
  BY <1>20, PutBackEffect, FreshReceipt, HeldInUse DEF Replace, Settled,
       Finish, Release, NoEnvelope
<1>21. ASSUME NEW c \in Calls, HeartbeatSends(c) PROVE Attached'
  BY <1>21 DEF HeartbeatSends
<1>22. ASSUME NEW c \in Calls, HeartbeatApplied(c) PROVE Attached'
  BY <1>22, FreshReceipt, HeldInUse DEF HeartbeatApplied, UpdateMessage
<1>23. ASSUME NEW c \in Calls, HeartbeatReturns(c) PROVE Attached'
  BY <1>23 DEF HeartbeatReturns
<1>24. ASSUME NEW c \in Calls, HeartbeatFails(c) PROVE Attached'
  BY <1>24 DEF HeartbeatFails
<1>25. ASSUME NEW c \in Calls, HeartbeatRefused(c) PROVE Attached'
  BY <1>25 DEF HeartbeatRefused, HeartbeatEnds, NoEnvelope
<1>26. ASSUME NEW c \in Calls, HeartbeatStops(c) PROVE Attached'
  BY <1>26 DEF HeartbeatStops, HeartbeatEnds, NoEnvelope
<1>27. ASSUME NEW c \in Calls, Crash(c) PROVE Attached'
  BY <1>27 DEF Crash, Finish, NoEnvelope
<1> QED BY <1>1, <1>2, <1>3, <1>4, <1>5, <1>6, <1>7, <1>8, <1>9, <1>10,
     <1>11, <1>12, <1>13, <1>14, <1>15, <1>16, <1>17, <1>18, <1>19, <1>20,
     <1>21, <1>22, <1>23, <1>24, <1>25, <1>26, <1>27 DEF Next, CallStep,
     HeartbeatStep

(* A new receipt goes to the new owner and is held by nobody else. *)
LEMMA FencedStep == ASSUME IInv, TypeOK', Next PROVE Fenced'
<1> USE ConstantsDistinct DEF IInv, history, Fenced, TypeOK, QueueTypeOK,
     Message, Envelope, Attached, Present, Valid, HoldsValid
<1>1. ASSUME NEW m \in Messages, Push(m) PROVE Fenced'
  BY <1>1 DEF Push, SendMessage
<1>2. ASSUME NEW m \in Messages, Expire(m) PROVE Fenced'
  BY <1>2 DEF Expire, VisibilityTimeout
<1>3. ASSUME NEW m \in Messages, ReceiveLost(m) PROVE Fenced'
  BY <1>3, FreshReceipt, HeldInUse DEF ReceiveLost, ReceiveMessage
<1>4. CASE Clear
  BY <1>4, ClearEffect DEF Clear
<1>5. ASSUME NEW c \in Calls, NEW m \in Messages, Receive(c, m) PROVE Fenced'
  BY <1>5, FreshReceipt, HeldInUse DEF Receive, ReceiveMessage, Begin,
       NoEnvelope
<1>6. ASSUME NEW c \in Calls, ObserveCallback(c) PROVE Fenced'
  BY <1>6 DEF ObserveCallback, CallbackObserved, Stop, SetStop
<1>7. ASSUME NEW c \in Calls, Abandon(c) PROVE Fenced'
  BY <1>7 DEF Abandon, Abandoned, Stop, SetStop
<1>8. ASSUME NEW c \in Calls, ObserveCancelledCallback(c) PROVE Fenced'
  BY <1>8 DEF ObserveCancelledCallback, CancelledCallbackObserved, Stop,
       SetStop
<1>9. ASSUME NEW c \in Calls, PropagateCancellation(c) PROVE Fenced'
  BY <1>9 DEF PropagateCancellation, CancelledCallbackRaised, Finish,
       Release, NoEnvelope
<1>10. ASSUME NEW c \in Calls, CancelLate(c) PROVE Fenced'
  BY <1>10 DEF CancelLate, CancelledLate, Finish, Release, NoEnvelope
<1>11. ASSUME NEW c \in Calls, GiveUpLockLost(c) PROVE Fenced'
  BY <1>11 DEF GiveUpLockLost, HeartbeatCancelled, RaiseLockLost, Finish,
       Release, NoEnvelope
<1>12. ASSUME NEW c \in Calls, Delete(c) PROVE Fenced'
  BY <1>12 DEF Delete, Settled, Finish, DeleteMessage, RequestFails,
       Release, NoEnvelope
<1>13. ASSUME NEW c \in Calls, SendDeadLetterFails(c) PROVE Fenced'
  BY <1>13 DEF SendDeadLetterFails, Settled, Finish, Release, NoEnvelope
<1>14. ASSUME NEW c \in Calls, Requeue(c) PROVE Fenced'

  <2>0. env[c].hb = "off"
    BY <1>14 DEF Requeue, Settled, Settling
  <2>1. env' = [env EXCEPT ![c] = NoEnvelope] /\ UNCHANGED <<owner, unsure>>
    BY <1>14, <2>0 DEF Requeue, Release
  <2>2. PutBack(c, env[c].retries)
    BY <1>14 DEF Requeue
  <2>3. CASE queue' = queue
    BY <2>1, <2>3 DEF NoEnvelope
  <2>4. CASE queue' # queue
    BY <2>1, <2>2, <2>4, PutBackEffect, FreshReceipt, HeldInUse DEF NoEnvelope
  <2> QED BY <2>3, <2>4
<1>15. ASSUME NEW c \in Calls, Replace(c) PROVE Fenced'

  <2>0. env[c].hb = "off"
    BY <1>15 DEF Replace, Settled, Settling
  <2>1. env' = [env EXCEPT ![c] = NoEnvelope] /\ UNCHANGED <<owner, unsure>>
    BY <1>15, <2>0 DEF Replace, Release
  <2>2. PutBack(c, env[c].retries - 1)
    BY <1>15 DEF Replace
  <2>3. CASE queue' = queue
    BY <2>1, <2>3 DEF NoEnvelope
  <2>4. CASE queue' # queue
    BY <2>1, <2>2, <2>4, PutBackEffect, FreshReceipt, HeldInUse DEF NoEnvelope
  <2> QED BY <2>3, <2>4
<1>16. ASSUME NEW c \in Calls, HeartbeatSends(c) PROVE Fenced'
  BY <1>16 DEF HeartbeatSends
<1>17. ASSUME NEW c \in Calls, HeartbeatApplied(c) PROVE Fenced'
  BY <1>17, FreshReceipt, HeldInUse DEF HeartbeatApplied, UpdateMessage
<1>18. ASSUME NEW c \in Calls, HeartbeatReturns(c) PROVE Fenced'
  BY <1>18 DEF HeartbeatReturns
<1>19. ASSUME NEW c \in Calls, HeartbeatFails(c) PROVE Fenced'
  BY <1>19 DEF HeartbeatFails
<1>20. ASSUME NEW c \in Calls, HeartbeatRefused(c) PROVE Fenced'
  BY <1>20 DEF HeartbeatRefused, HeartbeatEnds, NoEnvelope
<1>21. ASSUME NEW c \in Calls, HeartbeatStops(c) PROVE Fenced'
  BY <1>21 DEF HeartbeatStops, HeartbeatEnds, NoEnvelope
<1>22. ASSUME NEW c \in Calls, Crash(c) PROVE Fenced'
  BY <1>22 DEF Crash, Finish, NoEnvelope
<1> QED BY <1>1, <1>2, <1>3, <1>4, <1>5, <1>6, <1>7, <1>8, <1>9, <1>10,
     <1>11, <1>12, <1>13, <1>14, <1>15, <1>16, <1>17, <1>18, <1>19, <1>20,
     <1>21, <1>22 DEF Next, CallStep, HeartbeatStep, Execute,
     ObserveLockLoss, CancelCall, StartSettlement, SendDeadLetter

(* Only the owner makes the service issue another receipt, and it waits for it. *)
LEMMA LatestReceiptHeldStep == ASSUME IInv, TypeOK', Next PROVE LatestReceiptHeld'
<1> USE ConstantsDistinct DEF IInv, history, LatestReceiptHeld, TypeOK,
     QueueTypeOK, Message, Envelope, Attached, Present, Valid, HoldsValid,
     Fenced
<1>1. ASSUME NEW m \in Messages, Push(m) PROVE LatestReceiptHeld'
  BY <1>1 DEF Push, SendMessage
<1>2. ASSUME NEW m \in Messages, Expire(m) PROVE LatestReceiptHeld'
  BY <1>2 DEF Expire, VisibilityTimeout
<1>3. ASSUME NEW m \in Messages, ReceiveLost(m) PROVE LatestReceiptHeld'
  BY <1>3, FreshReceipt, HeldInUse DEF ReceiveLost, ReceiveMessage
<1>4. CASE Clear
  BY <1>4, ClearEffect DEF Clear
<1>5. ASSUME NEW c \in Calls, NEW m \in Messages, Receive(c, m) PROVE LatestReceiptHeld'
  BY <1>5, FreshReceipt, HeldInUse DEF Receive, ReceiveMessage, Begin,
       NoEnvelope
<1>6. ASSUME NEW c \in Calls, ObserveCallback(c) PROVE LatestReceiptHeld'
  BY <1>6 DEF ObserveCallback, CallbackObserved, Stop, SetStop
<1>7. ASSUME NEW c \in Calls, Abandon(c) PROVE LatestReceiptHeld'
  BY <1>7 DEF Abandon, Abandoned, Stop, SetStop
<1>8. ASSUME NEW c \in Calls, ObserveCancelledCallback(c) PROVE LatestReceiptHeld'
  BY <1>8 DEF ObserveCancelledCallback, CancelledCallbackObserved, Stop,
       SetStop
<1>9. ASSUME NEW c \in Calls, PropagateCancellation(c) PROVE LatestReceiptHeld'
  BY <1>9 DEF PropagateCancellation, CancelledCallbackRaised, Finish,
       Release, NoEnvelope
<1>10. ASSUME NEW c \in Calls, CancelLate(c) PROVE LatestReceiptHeld'
  BY <1>10 DEF CancelLate, CancelledLate, Finish, Release, NoEnvelope
<1>11. ASSUME NEW c \in Calls, GiveUpLockLost(c) PROVE LatestReceiptHeld'
  BY <1>11 DEF GiveUpLockLost, HeartbeatCancelled, RaiseLockLost, Finish,
       Release, NoEnvelope
<1>12. ASSUME NEW c \in Calls, Delete(c) PROVE LatestReceiptHeld'
  BY <1>12 DEF Delete, Settled, Finish, DeleteMessage, RequestFails,
       Release, NoEnvelope
<1>13. ASSUME NEW c \in Calls, SendDeadLetterFails(c) PROVE LatestReceiptHeld'
  BY <1>13 DEF SendDeadLetterFails, Settled, Finish, Release, NoEnvelope
<1>14. ASSUME NEW c \in Calls, Requeue(c) PROVE LatestReceiptHeld'

  <2>0. env[c].hb = "off"
    BY <1>14 DEF Requeue, Settled, Settling
  <2>1. env' = [env EXCEPT ![c] = NoEnvelope] /\ UNCHANGED <<owner, unsure>>
    BY <1>14, <2>0 DEF Requeue, Release
  <2>2. PutBack(c, env[c].retries)
    BY <1>14 DEF Requeue
  <2>3. CASE queue' = queue
    BY <2>1, <2>3 DEF NoEnvelope
  <2>4. CASE queue' # queue
    BY <2>1, <2>2, <2>4, PutBackEffect, FreshReceipt, HeldInUse DEF NoEnvelope
  <2> QED BY <2>3, <2>4
<1>15. ASSUME NEW c \in Calls, Replace(c) PROVE LatestReceiptHeld'

  <2>0. env[c].hb = "off"
    BY <1>15 DEF Replace, Settled, Settling
  <2>1. env' = [env EXCEPT ![c] = NoEnvelope] /\ UNCHANGED <<owner, unsure>>
    BY <1>15, <2>0 DEF Replace, Release
  <2>2. PutBack(c, env[c].retries - 1)
    BY <1>15 DEF Replace
  <2>3. CASE queue' = queue
    BY <2>1, <2>3 DEF NoEnvelope
  <2>4. CASE queue' # queue
    BY <2>1, <2>2, <2>4, PutBackEffect, FreshReceipt, HeldInUse DEF NoEnvelope
  <2> QED BY <2>3, <2>4
<1>16. ASSUME NEW c \in Calls, HeartbeatSends(c) PROVE LatestReceiptHeld'
  BY <1>16 DEF HeartbeatSends
<1>17. ASSUME NEW c \in Calls, HeartbeatApplied(c) PROVE LatestReceiptHeld'
  BY <1>17, FreshReceipt, HeldInUse DEF HeartbeatApplied, UpdateMessage
<1>18. ASSUME NEW c \in Calls, HeartbeatReturns(c) PROVE LatestReceiptHeld'
  BY <1>18 DEF HeartbeatReturns
<1>19. ASSUME NEW c \in Calls, HeartbeatFails(c) PROVE LatestReceiptHeld'
  BY <1>19 DEF HeartbeatFails
<1>20. ASSUME NEW c \in Calls, HeartbeatRefused(c) PROVE LatestReceiptHeld'
  BY <1>20 DEF HeartbeatRefused, HeartbeatEnds, NoEnvelope
<1>21. ASSUME NEW c \in Calls, HeartbeatStops(c) PROVE LatestReceiptHeld'
  BY <1>21 DEF HeartbeatStops, HeartbeatEnds, NoEnvelope
<1>22. ASSUME NEW c \in Calls, Crash(c) PROVE LatestReceiptHeld'
  BY <1>22 DEF Crash, Finish, NoEnvelope
<1> QED BY <1>1, <1>2, <1>3, <1>4, <1>5, <1>6, <1>7, <1>8, <1>9, <1>10,
     <1>11, <1>12, <1>13, <1>14, <1>15, <1>16, <1>17, <1>18, <1>19, <1>20,
     <1>21, <1>22 DEF Next, CallStep, HeartbeatStep, Execute,
     ObserveLockLoss, CancelCall, StartSettlement, SendDeadLetter

(* The control state tells the truth about the past of the task. *)
LEMMA JustifiedStep == ASSUME IInv, TypeOK', Next PROVE Justified'
<1> USE ConstantsDistinct DEF IInv, history, Justified, TypeOK, CallTypeOK,
     Invocation, Envelope, Idle, Attached, Executing, Stopping, Settling,
     Ended
<1>1. ASSUME NEW c \in Calls, NEW m \in Messages, Receive(c, m) PROVE Justified'
  BY <1>1 DEF Receive, ReceiveMessage, Begin, NoEnvelope
<1>2. ASSUME NEW c \in Calls, Execute(c) PROVE Justified'
  BY <1>2 DEF Execute, CallbackEnds
<1>3. ASSUME NEW c \in Calls, ObserveCallback(c) PROVE Justified'
  BY <1>3 DEF ObserveCallback, CallbackObserved, Stop, SetStop
<1>4. ASSUME NEW c \in Calls, ObserveLockLoss(c) PROVE Justified'
  BY <1>4 DEF ObserveLockLoss, LockLossObserved, GoTo
<1>5. ASSUME NEW c \in Calls, Abandon(c) PROVE Justified'
  BY <1>5 DEF Abandon, Abandoned, Stop, SetStop
<1>6. ASSUME NEW c \in Calls, CancelCall(c) PROVE Justified'
  BY <1>6 DEF CancelCall, OuterCancelled, GoTo
<1>7. ASSUME NEW c \in Calls, ObserveCancelledCallback(c) PROVE Justified'
  BY <1>7 DEF ObserveCancelledCallback, CancelledCallbackObserved, Stop,
       SetStop
<1>8. ASSUME NEW c \in Calls, PropagateCancellation(c) PROVE Justified'
  BY <1>8 DEF PropagateCancellation, CancelledCallbackRaised, Finish,
       Release, NoEnvelope
<1>9. ASSUME NEW c \in Calls, CancelLate(c) PROVE Justified'
  BY <1>9 DEF CancelLate, CancelledLate, Finish, Release, NoEnvelope
<1>10. ASSUME NEW c \in Calls, GiveUpLockLost(c) PROVE Justified'
  BY <1>10 DEF GiveUpLockLost, HeartbeatCancelled, RaiseLockLost, Finish,
       Release, NoEnvelope
<1>11. ASSUME NEW c \in Calls, StartSettlement(c) PROVE Justified'
  BY <1>11 DEF StartSettlement, HeartbeatCancelled, ChooseSettlement, GoTo
<1>12. ASSUME NEW c \in Calls, Delete(c) PROVE Justified'
  BY <1>12 DEF Delete, Settled, Finish, DeleteMessage, RequestFails,
       Release, NoEnvelope
<1>13. ASSUME NEW c \in Calls, SendDeadLetter(c) PROVE Justified'
  BY <1>13 DEF SendDeadLetter, DeadLetterSent, GoTo
<1>14. ASSUME NEW c \in Calls, SendDeadLetterFails(c) PROVE Justified'
  BY <1>14 DEF SendDeadLetterFails, Settled, Finish, Release, NoEnvelope
<1>15. ASSUME NEW c \in Calls, Requeue(c) PROVE Justified'
  BY <1>15 DEF Requeue, Settled, Finish, Release, NoEnvelope
<1>16. ASSUME NEW c \in Calls, Replace(c) PROVE Justified'
  BY <1>16 DEF Replace, Settled, Finish, Release, NoEnvelope
<1>17. ASSUME NEW c \in Calls, HeartbeatSends(c) PROVE Justified'
  BY <1>17 DEF HeartbeatSends
<1>18. ASSUME NEW c \in Calls, HeartbeatApplied(c) PROVE Justified'
  BY <1>18 DEF HeartbeatApplied, UpdateMessage
<1>19. ASSUME NEW c \in Calls, HeartbeatReturns(c) PROVE Justified'
  BY <1>19 DEF HeartbeatReturns
<1>20. ASSUME NEW c \in Calls, HeartbeatFails(c) PROVE Justified'
  BY <1>20 DEF HeartbeatFails
<1>21. ASSUME NEW c \in Calls, HeartbeatRefused(c) PROVE Justified'
  BY <1>21 DEF HeartbeatRefused, HeartbeatEnds, NoEnvelope
<1>22. ASSUME NEW c \in Calls, HeartbeatStops(c) PROVE Justified'
  BY <1>22 DEF HeartbeatStops, HeartbeatEnds, NoEnvelope
<1>23. ASSUME NEW c \in Calls, Crash(c) PROVE Justified'
  BY <1>23 DEF Crash, Finish, NoEnvelope
<1> QED BY <1>1, <1>2, <1>3, <1>4, <1>5, <1>6, <1>7, <1>8, <1>9, <1>10,
     <1>11, <1>12, <1>13, <1>14, <1>15, <1>16, <1>17, <1>18, <1>19, <1>20,
     <1>21, <1>22, <1>23 DEF Next, CallStep, HeartbeatStep, Push, Expire,
     ReceiveLost, Clear

(* The receipt the heartbeat takes over is one the delivery held already.   *)
LEMMA HeartbeatReturnsRetries ==
  ASSUME TypeOK, RetriesKnown, NEW c \in Calls, HeartbeatReturns(c)
  PROVE  RetriesKnown'
<1>1. queue' = queue
  BY DEF HeartbeatReturns
<1>2. env' = [env EXCEPT ![c].hb = "sleep", ![c].rcpt = env[c].reply,
                         ![c].reply = NoReceipt]
  BY DEF HeartbeatReturns
<1>3. env \in [Calls -> Envelope]
  BY DEF TypeOK
<1>4. ASSUME NEW d \in Calls
      PROVE /\ env'[d].msg = env[d].msg /\ env'[d].retries = env[d].retries
            /\ {env'[d].rcpt, env'[d].reply} \cap Receipts
                 \subseteq {env[d].rcpt, env[d].reply} \cap Receipts
  <2>1. CASE d = c
    BY <1>2, <1>3, <2>1, ConstantsDistinct DEF Envelope
  <2>2. CASE d # c
    BY <1>2, <1>3, <2>2
  <2> QED BY <2>1, <2>2
<1>5. ASSUME NEW m, NEW r PROVE Valid(m, r)' = Valid(m, r)
  BY <1>1 DEF Valid, Present
<1> QED BY <1>1, <1>4, <1>5 DEF RetriesKnown

(* Retries are consumed by the holder of the valid receipt, which then lets go. *)
LEMMA RetriesKnownStep == ASSUME IInv, TypeOK', Next PROVE RetriesKnown'
<1> USE ConstantsDistinct DEF IInv, history, RetriesKnown, TypeOK,
     QueueTypeOK, Message, Envelope, Attached, Justified, Present, Valid,
     HoldsValid, Settling
<1>1. ASSUME NEW m \in Messages, Push(m) PROVE RetriesKnown'
  BY <1>1 DEF Push, SendMessage
<1>2. ASSUME NEW m \in Messages, Expire(m) PROVE RetriesKnown'
  BY <1>2 DEF Expire, VisibilityTimeout
<1>3. ASSUME NEW m \in Messages, ReceiveLost(m) PROVE RetriesKnown'
  BY <1>3, FreshReceipt, HeldInUse DEF ReceiveLost, ReceiveMessage
<1>4. CASE Clear
  BY <1>4, ClearEffect DEF Clear
<1>5. ASSUME NEW c \in Calls, NEW m \in Messages, Receive(c, m) PROVE RetriesKnown'
  BY SMTT(30), <1>5, FreshReceipt, HeldInUse DEF Receive, ReceiveMessage, Begin,
       NoEnvelope
<1>6. ASSUME NEW c \in Calls, ObserveCallback(c) PROVE RetriesKnown'
  BY <1>6 DEF ObserveCallback, CallbackObserved, Stop, SetStop
<1>7. ASSUME NEW c \in Calls, Abandon(c) PROVE RetriesKnown'
  BY <1>7 DEF Abandon, Abandoned, Stop, SetStop
<1>8. ASSUME NEW c \in Calls, ObserveCancelledCallback(c) PROVE RetriesKnown'
  BY <1>8 DEF ObserveCancelledCallback, CancelledCallbackObserved, Stop,
       SetStop
<1>9. ASSUME NEW c \in Calls, PropagateCancellation(c) PROVE RetriesKnown'
  BY <1>9 DEF PropagateCancellation, CancelledCallbackRaised, Finish,
       Release, NoEnvelope
<1>10. ASSUME NEW c \in Calls, CancelLate(c) PROVE RetriesKnown'
  BY <1>10 DEF CancelLate, CancelledLate, Finish, Release, NoEnvelope
<1>11. ASSUME NEW c \in Calls, GiveUpLockLost(c) PROVE RetriesKnown'
  BY <1>11 DEF GiveUpLockLost, HeartbeatCancelled, RaiseLockLost, Finish,
       Release, NoEnvelope
<1>12. ASSUME NEW c \in Calls, Delete(c) PROVE RetriesKnown'
  BY SMTT(30), <1>12 DEF Delete, Settled, Finish, DeleteMessage, RequestFails,
       Release, NoEnvelope
<1>13. ASSUME NEW c \in Calls, SendDeadLetterFails(c) PROVE RetriesKnown'
  BY <1>13 DEF SendDeadLetterFails, Settled, Finish, Release, NoEnvelope
<1>14. ASSUME NEW c \in Calls, Requeue(c) PROVE RetriesKnown'

  <2>0. env[c].hb = "off"
    BY <1>14 DEF Requeue, Settled, Settling
  <2>1. env' = [env EXCEPT ![c] = NoEnvelope] /\ UNCHANGED <<owner, unsure>>
    BY <1>14, <2>0 DEF Requeue, Release
  <2>2. PutBack(c, env[c].retries)
    BY <1>14 DEF Requeue
  <2>3. CASE queue' = queue
    BY <2>1, <2>3 DEF NoEnvelope
  <2>4. CASE queue' # queue
    BY <2>1, <2>2, <2>4, PutBackEffect, FreshReceipt, HeldInUse DEF NoEnvelope
  <2> QED BY <2>3, <2>4
<1>15. ASSUME NEW c \in Calls, Replace(c) PROVE RetriesKnown'

  <2>0. env[c].hb = "off"
    BY <1>15 DEF Replace, Settled, Settling
  <2>1. env' = [env EXCEPT ![c] = NoEnvelope] /\ UNCHANGED <<owner, unsure>>
    BY <1>15, <2>0 DEF Replace, Release
  <2>2. PutBack(c, env[c].retries - 1)
    BY <1>15 DEF Replace
  <2>3. CASE queue' = queue
    BY <2>1, <2>3 DEF NoEnvelope
  <2>4. CASE queue' # queue
    BY <2>1, <2>2, <2>4, PutBackEffect, FreshReceipt, HeldInUse DEF NoEnvelope
  <2> QED BY <2>3, <2>4
<1>16. ASSUME NEW c \in Calls, HeartbeatSends(c) PROVE RetriesKnown'
  BY <1>16 DEF HeartbeatSends
<1>17. ASSUME NEW c \in Calls, HeartbeatApplied(c) PROVE RetriesKnown'
  BY <1>17, FreshReceipt, HeldInUse DEF HeartbeatApplied, UpdateMessage
<1>18. ASSUME NEW c \in Calls, HeartbeatReturns(c) PROVE RetriesKnown'
  BY ONLY <1>18, IInv, HeartbeatReturnsRetries DEF IInv
<1>19. ASSUME NEW c \in Calls, HeartbeatFails(c) PROVE RetriesKnown'
  BY <1>19 DEF HeartbeatFails
<1>20. ASSUME NEW c \in Calls, HeartbeatRefused(c) PROVE RetriesKnown'
  BY <1>20 DEF HeartbeatRefused, HeartbeatEnds, NoEnvelope
<1>21. ASSUME NEW c \in Calls, HeartbeatStops(c) PROVE RetriesKnown'
  BY <1>21 DEF HeartbeatStops, HeartbeatEnds, NoEnvelope
<1>22. ASSUME NEW c \in Calls, Crash(c) PROVE RetriesKnown'
  BY <1>22 DEF Crash, Finish, NoEnvelope
<1> QED BY <1>1, <1>2, <1>3, <1>4, <1>5, <1>6, <1>7, <1>8, <1>9, <1>10,
     <1>11, <1>12, <1>13, <1>14, <1>15, <1>16, <1>17, <1>18, <1>19, <1>20,
     <1>21, <1>22 DEF Next, CallStep, HeartbeatStep, Execute,
     ObserveLockLoss, CancelCall, StartSettlement, SendDeadLetter

(* A call that sends a dead letter has no retry left, so neither has the queue. *)
LEMMA DeadLettersExhaustedStep == ASSUME IInv, TypeOK', Next PROVE DeadLettersExhausted'
<1> USE ConstantsDistinct DEF IInv, history, DeadLettersExhausted, TypeOK,
     QueueTypeOK, Message, Envelope, Attached, Justified, RetriesKnown,
     Present, Valid, HoldsValid, Settling
<1>1. ASSUME NEW m \in Messages, Push(m) PROVE DeadLettersExhausted'
  BY <1>1 DEF Push, SendMessage
<1>2. ASSUME NEW m \in Messages, Expire(m) PROVE DeadLettersExhausted'
  BY <1>2 DEF Expire, VisibilityTimeout
<1>3. ASSUME NEW m \in Messages, ReceiveLost(m) PROVE DeadLettersExhausted'
  BY <1>3, FreshReceipt, HeldInUse DEF ReceiveLost, ReceiveMessage
<1>4. CASE Clear
  BY <1>4, ClearEffect DEF Clear
<1>5. ASSUME NEW c \in Calls, NEW m \in Messages, Receive(c, m) PROVE DeadLettersExhausted'
  BY <1>5, FreshReceipt, HeldInUse DEF Receive, ReceiveMessage, Begin,
       NoEnvelope
<1>6. ASSUME NEW c \in Calls, Delete(c) PROVE DeadLettersExhausted'
  BY <1>6 DEF Delete, Settled, Finish, DeleteMessage, RequestFails, Release,
       NoEnvelope
<1>7. ASSUME NEW c \in Calls, SendDeadLetter(c) PROVE DeadLettersExhausted'
  BY <1>7 DEF SendDeadLetter, DeadLetterSent, GoTo
<1>8. ASSUME NEW c \in Calls, SendDeadLetterFails(c) PROVE DeadLettersExhausted'
  BY <1>8 DEF SendDeadLetterFails, Settled, Finish, Release, NoEnvelope
<1>9. ASSUME NEW c \in Calls, Requeue(c) PROVE DeadLettersExhausted'
  BY <1>9, PutBackEffect, FreshReceipt, HeldInUse DEF Requeue, Settled,
       Finish, Release, NoEnvelope
<1>10. ASSUME NEW c \in Calls, Replace(c) PROVE DeadLettersExhausted'
  BY <1>10, PutBackEffect, FreshReceipt, HeldInUse DEF Replace, Settled,
       Finish, Release, NoEnvelope
<1>11. ASSUME NEW c \in Calls, HeartbeatApplied(c) PROVE DeadLettersExhausted'
  BY <1>11, FreshReceipt, HeldInUse DEF HeartbeatApplied, UpdateMessage
<1> QED BY <1>1, <1>2, <1>3, <1>4, <1>5, <1>6, <1>7, <1>8, <1>9, <1>10,
     <1>11 DEF Next, CallStep, HeartbeatStep, Execute, ObserveCallback,
     ObserveLockLoss, Abandon, CancelCall, ObserveCancelledCallback,
     PropagateCancellation, CancelLate, GiveUpLockLost, StartSettlement,
     HeartbeatSends, HeartbeatReturns, HeartbeatFails, HeartbeatRefused,
     HeartbeatStops, Crash

(* Only a delete after a success or a dead letter, and clear(), remove a message. *)
LEMMA NoTaskLostStep == ASSUME IInv, TypeOK', Next PROVE NoTaskLost'
<1> USE ConstantsDistinct DEF IInv, history, NoTaskLost, TypeOK,
     QueueTypeOK, Message, Attached, Justified, Present, Valid, HoldsValid,
     Settling, Idle
<1>1. ASSUME NEW m \in Messages, Push(m) PROVE NoTaskLost'
  BY <1>1 DEF Push, SendMessage
<1>2. ASSUME NEW m \in Messages, Expire(m) PROVE NoTaskLost'
  BY <1>2 DEF Expire, VisibilityTimeout
<1>3. ASSUME NEW m \in Messages, ReceiveLost(m) PROVE NoTaskLost'
  BY <1>3, FreshReceipt, HeldInUse DEF ReceiveLost, ReceiveMessage
<1>4. CASE Clear
  BY <1>4, ClearEffect DEF Clear
<1>5. ASSUME NEW c \in Calls, NEW m \in Messages, Receive(c, m) PROVE NoTaskLost'
  BY <1>5, FreshReceipt, HeldInUse DEF Receive, ReceiveMessage, Begin,
       NoEnvelope
<1>6. ASSUME NEW c \in Calls, Execute(c) PROVE NoTaskLost'
  BY <1>6 DEF Execute, CallbackEnds
<1>7. ASSUME NEW c \in Calls, Delete(c) PROVE NoTaskLost'
  BY <1>7 DEF Delete, Settled, Finish, DeleteMessage, RequestFails, Release,
       NoEnvelope
<1>8. ASSUME NEW c \in Calls, SendDeadLetter(c) PROVE NoTaskLost'
  BY <1>8 DEF SendDeadLetter, DeadLetterSent, GoTo
<1>9. ASSUME NEW c \in Calls, SendDeadLetterFails(c) PROVE NoTaskLost'
  BY <1>9 DEF SendDeadLetterFails, Settled, Finish, Release, NoEnvelope
<1>10. ASSUME NEW c \in Calls, Requeue(c) PROVE NoTaskLost'
  BY <1>10, PutBackEffect, FreshReceipt, HeldInUse DEF Requeue, Settled,
       Finish, Release, NoEnvelope
<1>11. ASSUME NEW c \in Calls, Replace(c) PROVE NoTaskLost'
  BY <1>11, PutBackEffect, FreshReceipt, HeldInUse DEF Replace, Settled,
       Finish, Release, NoEnvelope
<1>12. ASSUME NEW c \in Calls, HeartbeatApplied(c) PROVE NoTaskLost'
  BY <1>12, FreshReceipt, HeldInUse DEF HeartbeatApplied, UpdateMessage
<1> QED BY <1>1, <1>2, <1>3, <1>4, <1>5, <1>6, <1>7, <1>8, <1>9, <1>10,
     <1>11, <1>12 DEF Next, CallStep, HeartbeatStep, ObserveCallback,
     ObserveLockLoss, Abandon, CancelCall, ObserveCancelledCallback,
     PropagateCancellation, CancelLate, GiveUpLockLost, StartSettlement,
     HeartbeatSends, HeartbeatReturns, HeartbeatFails, HeartbeatRefused,
     HeartbeatStops, Crash

------------------------------------------------------------------------------
(* The theorems *)

LEMMA InitIInv == Init => IInv
BY ConstantsDistinct
   DEF Init, IInv, TypeOK, Attached, Fenced, LatestReceiptHeld, Justified, RetriesKnown,
       DeadLettersExhausted, NoTaskLost, QueueInit, QueueTypeOK, Message, Places, CallInit,
       CallTypeOK, Invocation, Idle, NoEnvelope, Envelope, Executing, Stopping, Settling, Ended

LEMMA NextIInv == IInv /\ [Next]_vars => IInv'
<1> SUFFICES ASSUME IInv, [Next]_vars PROVE IInv'
  OBVIOUS
<1>1. CASE Next
  BY <1>1, TypeOKStep, AttachedStep, FencedStep, LatestReceiptHeldStep, JustifiedStep,
     RetriesKnownStep, DeadLettersExhaustedStep, NoTaskLostStep DEF IInv
<1>2. CASE UNCHANGED vars
  <2> USE <1>2 DEF vars, IInv
  <2>1. TypeOK'
    BY DEF TypeOK, QueueTypeOK, CallTypeOK
  <2>2. Attached' /\ Justified'
    BY DEF Attached, Justified
  <2>3. Fenced' /\ LatestReceiptHeld' /\ RetriesKnown'
    BY DEF Fenced, LatestReceiptHeld, RetriesKnown, Valid, Present
  <2>4. DeadLettersExhausted' /\ NoTaskLost'
    BY DEF DeadLettersExhausted, NoTaskLost
  <2> QED BY <2>1, <2>2, <2>3, <2>4
<1> QED BY <1>1, <1>2

(* IInv is an inductive invariant of the implementation.                    *)
THEOREM Invariance == Spec => []IInv
BY InitIInv, NextIInv, PTL DEF Spec

(* Every variable keeps its type, whatever the environment does.            *)
THEOREM TypeCorrectness == Spec => []TypeOK
<1>1. IInv => TypeOK
  BY DEF IInv
<1> QED BY <1>1, Invariance, PTL

(* A message leaves the queue only after its task succeeded, or was         *)
(* dead-lettered, or the queue was cleared.                                 *)
THEOREM NoTaskIsLost == Spec => []NoTaskLost
<1>1. IInv => NoTaskLost
  BY DEF IInv
<1> QED BY <1>1, Invariance, PTL

(* A call whose message was delivered again can no longer touch it.         *)
THEOREM Fencing == Spec => []OnlyOwnerCanSettle
<1>1. IInv => OnlyOwnerCanSettle
  <2> SUFFICES ASSUME IInv, NEW c \in Calls, env[c].msg # NoMessage, HoldsValid(c)
               PROVE  owner[env[c].msg] = c
    BY DEF OnlyOwnerCanSettle
  <2>1. env[c].rcpt \in Receipts
    BY DEF IInv, TypeOK, Envelope, Attached
  <2> QED BY <2>1 DEF IInv, Fenced, HoldsValid
<1> QED BY <1>1, Invariance, PTL

(* A call settles with the receipt its heartbeat obtained last.             *)
THEOREM HeartbeatJoinedBeforeSettling == Spec => []SettlesWithLatestReceipt
<1>1. IInv => SettlesWithLatestReceipt
  <2> SUFFICES ASSUME IInv, NEW c \in Calls, call[c].pc \in Settling, Present(env[c].msg),
                      owner[env[c].msg] = c, c \notin unsure
               PROVE  HoldsValid(c)
    BY DEF SettlesWithLatestReceipt
  <2>1. env[c].msg # NoMessage /\ env[c].hb = "off"
    BY DEF IInv, Attached, Settling
  <2> QED BY <2>1 DEF IInv, LatestReceiptHeld, HoldsValid
<1> QED BY <1>1, Invariance, PTL

(* A call that can still settle its message knows the retries left.         *)
THEOREM RetriesAreCurrent == Spec => []RetriesCurrent
<1>1. IInv => RetriesCurrent
  <2> SUFFICES ASSUME IInv, NEW c \in Calls, env[c].msg # NoMessage, HoldsValid(c)
               PROVE  env[c].retries = queue[env[c].msg].retries
    BY DEF RetriesCurrent
  <2>1. env[c].rcpt \in Receipts
    BY DEF IInv, TypeOK, Envelope, Attached
  <2> QED BY <2>1 DEF IInv, RetriesKnown, HoldsValid
<1> QED BY <1>1, Invariance, PTL

(* A dead-lettered task has used up its retries.                            *)
THEOREM DeadLettersAreExhausted == Spec => []DeadLetteredOutOfRetries
<1>1. IInv => DeadLetteredOutOfRetries
  BY DEF IInv, DeadLettersExhausted, DeadLetteredOutOfRetries
<1> QED BY <1>1, Invariance, PTL

------------------------------------------------------------------------------
(* StorageJobQ implements TaskLedger, for all constants, whatever the       *)
(* environment does; and its steps only consume retries.                    *)

(* The step changes nothing the ledger sees of message m; of any other.     *)
SameForLedger(m) ==
  /\ queue'[m].place = "new" <=> queue[m].place = "new"
  /\ queue'[m].place = "gone" <=> queue[m].place = "gone"
  /\ queue'[m].retries = queue[m].retries

SameForLedgerBut(m) == \A n \in Messages \ {m} : SameForLedger(n)

(* A step that the ledger sees nothing of maps to a stuttering step.        *)
LEMMA LedgerStutters ==
  ASSUME \A m \in Messages : SameForLedger(m), UNCHANGED <<dlq, done, cleared>>
  PROVE  UNCHANGED Ledger!ledger
<1>1. LedgerStatus' = LedgerStatus
  BY DEF LedgerStatus, SameForLedger
<1>2. [m \in Messages |-> queue[m].retries]' = [m \in Messages |-> queue[m].retries]
  BY DEF SameForLedger
<1> QED BY <1>1, <1>2 DEF Ledger!ledger

(* A message's new record, and what it is to the ledger.                    *)
LEMMA LedgerUpdates ==
  ASSUME NEW m \in Messages, SameForLedgerBut(m)
  PROVE  /\ \A s : LedgerStatus'[m] = s => LedgerStatus' = [LedgerStatus EXCEPT ![m] = s]
         /\ \A n : queue'[m].retries = n
                     => [k \in Messages |-> queue[k].retries]'
                          = [[k \in Messages |-> queue[k].retries] EXCEPT ![m] = n]
<1>1. ASSUME NEW s, LedgerStatus'[m] = s PROVE LedgerStatus' = [LedgerStatus EXCEPT ![m] = s]
  BY <1>1 DEF LedgerStatus, SameForLedgerBut, SameForLedger
<1>2. ASSUME NEW n, queue'[m].retries = n
      PROVE  [k \in Messages |-> queue[k].retries]'
               = [[k \in Messages |-> queue[k].retries] EXCEPT ![m] = n]
  BY <1>2 DEF SameForLedgerBut, SameForLedger
<1> QED BY <1>1, <1>2

------------------------------------------------------------------------------
(* The steps that reach the queue *)

(* A receive, a visibility timeout: the message moves between visible and   *)
(* hidden.                                                                  *)
LEMMA DeliveryUnseen ==
  ASSUME IInv, NEW m \in Messages,
         VisibilityTimeout(m) \/ \E r \in Receipts : ReceiveMessage(m, r)
  PROVE  \A n \in Messages : SameForLedger(n)
BY DEF IInv, TypeOK, QueueTypeOK, Message, SameForLedger, VisibilityTimeout, ReceiveMessage

(* A call that can still write its message writes the retries it read, or   *)
(* one less.                                                                *)
LEMMA HolderKnowsRetries ==
  ASSUME IInv, NEW c \in Calls, env[c].msg # NoMessage
  PROVE  /\ env[c].msg \in Messages
         /\ env[c].retries >= queue[env[c].msg].retries
         /\ HoldsValid(c) => env[c].retries = queue[env[c].msg].retries
<1>1. env[c].msg \in Messages /\ env[c].rcpt \in Receipts
  BY DEF IInv, TypeOK, Envelope, Attached
<1> QED BY <1>1 DEF IInv, RetriesKnown, HoldsValid

LEMMA RequeueUnseen ==
  ASSUME IInv, NEW c \in Calls, Requeue(c)
  PROVE  \A n \in Messages : SameForLedger(n)
<1>1. env[c].msg # NoMessage
  BY DEF IInv, Attached, Requeue, Settled
<1> QED BY <1>1, HolderKnowsRetries, PutBackEffect
     DEF IInv, TypeOK, Requeue, HoldsValid, Valid, Present, SameForLedger

LEMMA HeartbeatUnseen ==
  ASSUME IInv, NEW c \in Calls, HeartbeatApplied(c)
  PROVE  \A n \in Messages : SameForLedger(n)
<1>1. env[c].msg # NoMessage
  BY DEF IInv, Attached, HeartbeatApplied
<1> QED BY <1>1, HolderKnowsRetries
     DEF IInv, TypeOK, QueueTypeOK, HeartbeatApplied, UpdateMessage, HoldsValid, Valid, Present,
         SameForLedger

(* replace: nothing, or one retry less.                                     *)
LEMMA ReplaceEffect ==
  ASSUME IInv, NEW c \in Calls, Replace(c)
  PROVE  LET m == env[c].msg
         IN  \/ queue' = queue
             \/ /\ m \in Messages /\ Present(m) /\ queue[m].retries > 0
                /\ queue'[m].place = "visible" /\ queue'[m].retries = queue[m].retries - 1
                /\ SameForLedgerBut(m)
<1>1. env[c].msg # NoMessage /\ env[c].retries > 0
  BY DEF IInv, Attached, Justified, Replace, Settled
<1> QED BY <1>1, HolderKnowsRetries, PutBackEffect
     DEF IInv, TypeOK, Replace, HoldsValid, Valid, SameForLedgerBut, SameForLedger

(* delete: nothing, or the message is gone.                                 *)
LEMMA DeleteEffect ==
  ASSUME IInv, NEW c \in Calls, Delete(c)
  PROVE  LET m == env[c].msg
         IN  \/ queue' = queue
             \/ /\ m \in Messages /\ Present(m) /\ m \in done \cup dlq
                /\ queue'[m].place = "gone" /\ queue'[m].retries = queue[m].retries
                /\ SameForLedgerBut(m)
<1>1. env[c].msg # NoMessage /\ env[c].msg \in done \cup dlq
  BY DEF IInv, Attached, Justified, Delete, Settled
<1> QED BY <1>1, HolderKnowsRetries
     DEF IInv, TypeOK, QueueTypeOK, Message, Delete, DeleteMessage, RequestFails, Valid,
         SameForLedgerBut, SameForLedger

------------------------------------------------------------------------------
(* Retries *)

(* Every step leaves the retries of a message in the queue, or takes one.   *)
LEMMA RetriesStep ==
  ASSUME IInv, Next, NEW k \in Messages, queue[k].place # "new"
  PROVE  queue'[k].retries \in {queue[k].retries, queue[k].retries - 1}
<1>1. ASSUME NEW m \in Messages, Push(m)
      PROVE  queue'[k] = queue[k]
  BY <1>1 DEF Push, SendMessage, IInv, TypeOK, QueueTypeOK
<1>2. ASSUME NEW m \in Messages, Expire(m) \/ ReceiveLost(m)
      PROVE  SameForLedger(k)
  BY <1>2, DeliveryUnseen, FreshReceipt DEF Expire, ReceiveLost
<1>3. ASSUME NEW c \in Calls, NEW m \in Messages, Receive(c, m)
      PROVE  SameForLedger(k)
  BY <1>3, DeliveryUnseen, FreshReceipt DEF Receive
<1>4. CASE Clear
  BY <1>4, ClearEffect DEF Clear, IInv, TypeOK
<1>5. ASSUME NEW c \in Calls, Requeue(c) \/ HeartbeatApplied(c)
      PROVE  SameForLedger(k)
  BY <1>5, RequeueUnseen, HeartbeatUnseen
<1>6. ASSUME NEW c \in Calls, Replace(c)
      PROVE  queue'[k].retries \in {queue[k].retries, queue[k].retries - 1}
  BY <1>6, ReplaceEffect DEF SameForLedgerBut, SameForLedger
<1>7. ASSUME NEW c \in Calls, Delete(c)
      PROVE  queue'[k].retries = queue[k].retries
  BY <1>7, DeleteEffect DEF SameForLedgerBut, SameForLedger
<1> QED BY <1>1, <1>2, <1>3, <1>4, <1>5, <1>6, <1>7
     DEF SameForLedger, Next, CallStep, HeartbeatStep, Execute, ObserveCallback, ObserveLockLoss,
         Abandon, CancelCall, ObserveCancelledCallback, PropagateCancellation, CancelLate,
         GiveUpLockLost, StartSettlement, SendDeadLetter, SendDeadLetterFails, HeartbeatSends,
         HeartbeatReturns, HeartbeatFails, HeartbeatRefused, HeartbeatStops, Crash

(* Once a task is in the queue, a step changes its retries only by          *)
(* consuming one: a heartbeat, a requeue or a stale settlement restores     *)
(* none.                                                                    *)
THEOREM RetriesAreOnlyConsumed == Spec => RetriesOnlyConsumed
<1>1. IInv /\ [Next]_vars =>
        [\A m \in Messages : queue[m].place # "new" =>
           queue'[m].retries \in {queue[m].retries, queue[m].retries - 1}]_vars
  BY RetriesStep
<1> QED BY <1>1, Invariance, PTL DEF Spec, RetriesOnlyConsumed

------------------------------------------------------------------------------
(* The refinement *)

(* The initial states of the queue are the ledger's.                        *)
LEMMA LedgerInit == Init => Ledger!Init
BY DEF Init, QueueInit, Ledger!Init, LedgerStatus

(* A message's status and budget are read off its record.                   *)
LEMMA LedgerReads ==
  ASSUME NEW m \in Messages
  PROVE  /\ LedgerStatus[m] = "new" <=> queue[m].place = "new"
         /\ LedgerStatus[m] = "removed" <=> queue[m].place = "gone"
         /\ queue[m].place \in {"visible", "hidden"} => LedgerStatus[m] = "queued"
BY DEF LedgerStatus

LEMMA LedgerReadsNext ==
  ASSUME NEW m \in Messages
  PROVE  /\ queue'[m].place \in {"visible", "hidden"} => LedgerStatus'[m] = "queued"
         /\ queue'[m].place = "gone" => LedgerStatus'[m] = "removed"
BY DEF LedgerStatus

(* The step of each action is the ledger's, or unseen by it.                *)
LEMMA LedgerStep ==
  ASSUME IInv, Next
  PROVE  Ledger!Next \/ UNCHANGED Ledger!ledger
<1> DEFINE budget == [m \in Messages |-> queue[m].retries]
<1>1. ASSUME NEW m \in Messages, Push(m)
      PROVE  Ledger!Push(m)
  <2>1. PICK n \in 0..MaxRetries : SendMessage(m, n)
    BY <1>1 DEF Push
  <2>2. /\ SameForLedgerBut(m) /\ queue[m].place = "new"
        /\ queue'[m].place = "visible" /\ queue'[m].retries = n
    BY <2>1 DEF SendMessage, SameForLedgerBut, SameForLedger, IInv, TypeOK, QueueTypeOK, Message
  <2>3. /\ LedgerStatus' = [LedgerStatus EXCEPT ![m] = "queued"]
        /\ budget' = [budget EXCEPT ![m] = n]
    BY <2>2, LedgerUpdates, LedgerReadsNext
  <2> QED BY <1>1, <2>2, <2>3, LedgerReads DEF Push, history, Ledger!Push
<1>2. ASSUME NEW m \in Messages, Expire(m) \/ ReceiveLost(m)
      PROVE  UNCHANGED Ledger!ledger
  BY <1>2, DeliveryUnseen, FreshReceipt, LedgerStutters DEF Expire, ReceiveLost, history
<1>3. ASSUME NEW c \in Calls, NEW m \in Messages, Receive(c, m)
      PROVE  UNCHANGED Ledger!ledger
  BY <1>3, DeliveryUnseen, FreshReceipt, LedgerStutters DEF Receive
<1>4. CASE Clear
  <2>1. /\ \A m \in Messages : Present(m) => queue'[m].place = "gone"
        /\ \A m \in Messages : ~Present(m) => queue'[m] = queue[m]
        /\ budget' = budget
    BY <1>4, ClearEffect DEF Clear, IInv, TypeOK
  <2>2. \A m \in Messages : Present(m) <=> LedgerStatus[m] = "queued"
    BY DEF LedgerStatus, Present, IInv, TypeOK, QueueTypeOK, Message, Places
  <2>3. \A m \in Messages :
          LedgerStatus'[m] = IF LedgerStatus[m] = "queued" THEN "removed" ELSE LedgerStatus[m]
    BY <2>1, <2>2 DEF LedgerStatus
  <2>4. LedgerStatus' = [m \in Messages |->
           IF LedgerStatus[m] = "queued" THEN "removed" ELSE LedgerStatus[m]]
    BY <2>3 DEF LedgerStatus
  <2> QED BY <1>4, <2>1, <2>2, <2>4 DEF Clear, Ledger!Next, Ledger!Clear
<1>5. ASSUME NEW c \in Calls, Execute(c)
      PROVE  (\E m \in Messages : Ledger!Succeed(m)) \/ UNCHANGED Ledger!ledger
  <2>1. env[c].msg \in Messages /\ queue[env[c].msg].place # "new"
    BY <1>5, HolderKnowsRetries DEF Execute, CallbackEnds, Executing, IInv, Attached
  <2>2. CASE done' = done
    BY <1>5, <2>2, LedgerStutters DEF Execute, SameForLedger
  <2>3. CASE done' = done \cup {env[c].msg}
    <3>1. LedgerStatus' = LedgerStatus /\ budget' = budget
      BY <1>5 DEF Execute, LedgerStatus
    <3> QED BY <1>5, <2>1, <2>3, <3>1, LedgerReads DEF Execute, Ledger!Succeed
  <2> QED BY <1>5, <2>2, <2>3 DEF Execute
<1>6. ASSUME NEW c \in Calls, Delete(c)
      PROVE  (\E m \in Messages : Ledger!Remove(m)) \/ UNCHANGED Ledger!ledger
  <2> DEFINE m == env[c].msg
  <2>1. CASE queue' = queue
    BY <1>6, <2>1, LedgerStutters DEF Delete, history, SameForLedger
  <2>2. CASE queue' # queue
    <3>1. /\ m \in Messages /\ Present(m) /\ m \in done \cup dlq
          /\ queue'[m].place = "gone" /\ queue'[m].retries = queue[m].retries
          /\ SameForLedgerBut(m)
      BY <1>6, <2>2, DeleteEffect
    <3>2. LedgerStatus[m] = "queued"
      BY <3>1, LedgerReads DEF Present
    <3>3. LedgerStatus' = [LedgerStatus EXCEPT ![m] = "removed"]
      BY <3>1, LedgerUpdates, LedgerReadsNext
    <3>4. budget' = budget
      BY <3>1 DEF SameForLedgerBut, SameForLedger
    <3> QED BY <1>6, <3>1, <3>2, <3>3, <3>4 DEF Delete, history, Ledger!Remove
  <2> QED BY <2>1, <2>2
<1>7. ASSUME NEW c \in Calls, SendDeadLetter(c) \/ SendDeadLetterFails(c)
      PROVE  (\E m \in Messages : Ledger!DeadLetter(m)) \/ UNCHANGED Ledger!ledger
  <2> DEFINE m == env[c].msg
  <2>1. env[c].msg # NoMessage /\ env[c].retries = 0
    BY <1>7 DEF SendDeadLetter, DeadLetterSent, SendDeadLetterFails, Settled, IInv, Attached,
                Justified
  <2>2. m \in Messages /\ queue[m].place # "new" /\ queue[m].retries \in Nat
    BY <2>1, HolderKnowsRetries, ConstantsDistinct
       DEF IInv, Attached, TypeOK, QueueTypeOK, Message
  <2>3. queue[m].retries = 0
    BY <2>1, <2>2, HolderKnowsRetries
  <2>4. UNCHANGED <<queue, done, cleared>> /\ (dlq' = dlq \/ dlq' = dlq \cup {m})
    BY <1>7 DEF SendDeadLetter, SendDeadLetterFails, history
  <2>5. LedgerStatus' = LedgerStatus /\ budget' = budget
    BY <2>4 DEF LedgerStatus
  <2>6. CASE dlq' = dlq
    BY <2>4, <2>5, <2>6 DEF Ledger!ledger
  <2>7. CASE dlq' = dlq \cup {m}
    BY <2>2, <2>3, <2>4, <2>5, <2>7, LedgerReads DEF Ledger!DeadLetter
  <2> QED BY <2>4, <2>6, <2>7
<1>8. ASSUME NEW c \in Calls, Requeue(c) \/ HeartbeatApplied(c)
      PROVE  UNCHANGED Ledger!ledger
  BY <1>8, RequeueUnseen, HeartbeatUnseen, LedgerStutters DEF Requeue, HeartbeatApplied, history
<1>9. ASSUME NEW c \in Calls, Replace(c)
      PROVE  (\E m \in Messages : Ledger!Retry(m)) \/ UNCHANGED Ledger!ledger
  <2> DEFINE m == env[c].msg
  <2>1. CASE queue' = queue
    BY <1>9, <2>1, LedgerStutters DEF Replace, history, SameForLedger
  <2>2. CASE queue' # queue
    <3>1. /\ m \in Messages /\ Present(m) /\ queue[m].retries > 0
          /\ queue'[m].place = "visible" /\ queue'[m].retries = queue[m].retries - 1
          /\ SameForLedgerBut(m)
      BY <1>9, <2>2, ReplaceEffect
    <3>2. LedgerStatus[m] = "queued" /\ LedgerStatus'[m] = "queued"
      BY <3>1, LedgerReads, LedgerReadsNext DEF Present
    <3>3. LedgerStatus' = [LedgerStatus EXCEPT ![m] = LedgerStatus[m]]
      BY <3>1, <3>2, LedgerUpdates
    <3>4. LedgerStatus' = LedgerStatus
      BY <3>3 DEF LedgerStatus
    <3>5. budget' = [budget EXCEPT ![m] = queue[m].retries - 1]
      BY <3>1, LedgerUpdates
    <3> QED BY <1>9, <3>1, <3>2, <3>4, <3>5 DEF Replace, history, Ledger!Retry
  <2> QED BY <2>1, <2>2
<1>10. (UNCHANGED <<queue, dlq, done, cleared>>) => UNCHANGED Ledger!ledger
  BY LedgerStutters DEF SameForLedger
<1> QED BY <1>1, <1>2, <1>3, <1>4, <1>5, <1>6, <1>7, <1>8, <1>9, <1>10
     DEF Ledger!Next, history, Next, CallStep, HeartbeatStep, ObserveCallback,
         ObserveLockLoss, Abandon, CancelCall, ObserveCancelledCallback, PropagateCancellation,
         CancelLate, GiveUpLockLost, StartSettlement, HeartbeatSends, HeartbeatReturns,
         HeartbeatFails, HeartbeatRefused, HeartbeatStops, Crash

(* JobQ over Azure Storage queues keeps the promises of TaskLedger: every   *)
(* step, a crash and a lost request included, is a step of the ledger or    *)
(* unseen by it.                                                            *)
THEOREM ImplementsTaskLedger == Spec => ImplementsLedger
<1>1. IInv /\ [Next]_vars => [Ledger!Next]_(Ledger!ledger)
  <2> SUFFICES ASSUME IInv, [Next]_vars PROVE Ledger!Next \/ UNCHANGED Ledger!ledger
    OBVIOUS
  <2>1. CASE Next
    BY <2>1, LedgerStep
  <2>2. CASE UNCHANGED vars
    BY <2>2, LedgerStutters DEF vars, SameForLedger
  <2> QED BY <2>1, <2>2
<1> QED BY <1>1, LedgerInit, Invariance, PTL DEF Spec, ImplementsLedger, Ledger!Spec
=============================================================================
