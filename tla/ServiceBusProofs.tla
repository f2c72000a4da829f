--------------------------- MODULE ServiceBusProofs ---------------------------
(***************************************************************************)
(* Theorems about ServiceBusJobQ, for any tasks, calls, faults and bounds:  *)
(* its types, that no task is lost, and that a task is removed only by the  *)
(* call it is delivered to.                                                 *)
(***************************************************************************)
EXTENDS ServiceBusJobQ, TLAPS

(* A message that can be received has a delivery left.                      *)
Deliverable ==
  \A m \in Messages : queue[m].place \in {"new", "visible"} => queue[m].deliveries < MaxDeliveries

(* What a call works on was pushed, and how the call got to where it is.    *)
Working(c) ==
  /\ call[c].pc # "idle" => env[c].msg \in Messages
  /\ env[c].msg \in Messages => queue[env[c].msg].place # "new"
  /\ call[c].pc # "idle" /\ call[c].cb = "ok" => env[c].msg \in done
  /\ call[c].pc # "idle" /\ call[c].cb = "error" => failures[env[c].msg] > 0
  /\ call[c].pc = "stopOk" /\ ~call[c].lost => call[c].cb = "ok"
  /\ call[c].pc = "stopErr" => call[c].cb \in {"ok", "error"}
  /\ call[c].pc = "delete" => call[c].cb = "ok"
  /\ call[c].pc = "deadletter" => call[c].cb \in {"ok", "error"} /\ queue[env[c].msg].retries = 0

(* A token that still works is the one its owner got.                       *)
Owned(c) == env[c].msg \in Messages /\ HoldsValid(c) => owner[env[c].msg] = c

IInv == TypeOK /\ Deliverable /\ (\A c \in Calls : Working(c) /\ Owned(c)) /\ NoTaskLost

------------------------------------------------------------------------------
(* Steps by what they do *)

(* The renewal task alone.                                                  *)
RenewalAlone(c) == RenewalStep(c) \/ RenewalDeadline(c) \/ CancelAwaitedRenewal(c)

(* The call goes on, and keeps its message.                                 *)
CallGoesOn(c) ==
  \/ Execute(c) \/ ObserveCallback(c) \/ ObserveLockLoss(c) \/ Abandon(c) \/ CancelCall(c)
  \/ ObserveCancelledCallback(c) \/ StartSettlement(c)

(* The call is over.                                                        *)
CallEnds(c) ==
  \/ PropagateCancellation(c) \/ GiveUpLockLost(c) \/ CancelSettlement(c) \/ Crash(c)
  \/ Complete(c) \/ DeadLetter(c) \/ Requeue(c) \/ Replace(c)

(* Nobody's call.                                                           *)
QueueAlone ==
  \/ Clear
  \/ \E m \in Messages : SendReturns(m) \/ SendRaises(m) \/ Expire(m) \/ ReceiveLost(m)

LEMMA StepKinds ==
  ASSUME Next
  PROVE  \/ QueueAlone
         \/ \E c \in Calls, m \in Messages : Receive(c, m)
         \/ \E c \in Calls : RenewalAlone(c) \/ CallGoesOn(c) \/ CallEnds(c)
BY DEF Next, QueueAlone, RenewalAlone, CallGoesOn, CallEnds, CallStep

LEMMA Facts ==
  /\ MaxRetries \in Nat /\ MaxDeliveries \in Nat \ {0}
  /\ NoToken \notin Tokens /\ NoMessage \notin Messages /\ NoCall \notin Calls
  /\ WithHeartbeat \in BOOLEAN /\ AsyncKinds \subseteq BOOLEAN
  /\ CanIssue => Fresh \in Tokens /\ Fresh \notin InUse
  /\ NoEnvelope \in Envelope /\ Idle \in Invocation
<1>1. CanIssue => Fresh \in Tokens /\ Fresh \notin InUse
  BY DEF CanIssue, Fresh
<1>2. NoEnvelope \in Envelope /\ Idle \in Invocation
  BY DEF NoEnvelope, Envelope, Idle, Invocation, MaxFastRetries
<1> QED BY <1>1, <1>2, MaxRetriesAssumption, MaxDeliveriesAssumption, NoTokenAssumption,
           WithHeartbeatAssumption, NoMessageAssumption, NoCallAssumption, AsyncKindsAssumption

------------------------------------------------------------------------------
(* The queue *)

(* What a step may do to it.                                                *)
QueueSettles(m) ==
  \/ queue[m].place = "locked" /\ Settle(m, queue[m].token, Returned(m))
  \/ \E c \in Calls : /\ env[c].msg = m
                      /\ \/ Complete(c) /\ Settle(m, env[c].token, "gone")
                         \/ DeadLetter(c) /\ Settle(m, env[c].token, "dead")

LEMMA QueueEffect ==
  ASSUME Next, TypeOK, \A c \in Calls : Working(c)
  PROVE  \/ UNCHANGED queue
         \/ \E m \in Messages, n \in 0..MaxRetries : Accept(m, n)
         \/ CanIssue /\ \E m \in Messages : PeekLock(m, Fresh)
         \/ \E m \in Messages : QueueSettles(m)
         \/ Drain /\ Clear
<1>1. CASE QueueAlone
  BY <1>1 DEF QueueAlone, SendReturns, SendRaises, Expire, ReceiveLost, Clear, LockExpires,
              QueueSettles
<1>2. CASE \E c \in Calls, m \in Messages : Receive(c, m)
  BY <1>2 DEF Receive
<1>3. ASSUME NEW c \in Calls, RenewalAlone(c) \/ CallGoesOn(c) PROVE UNCHANGED queue
  BY <1>3 DEF RenewalAlone, RenewalStep, RenewSends, RenewSucceeds, RenewRefused, RenewFails,
              RenewStops, RenewalDeadline, CancelAwaitedRenewal, CallGoesOn, Execute,
              ObserveCallback, ObserveLockLoss, Abandon, CancelCall, ObserveCancelledCallback,
              StartSettlement
<1>4. ASSUME NEW c \in Calls, CallEnds(c)
      PROVE  UNCHANGED queue \/ \E m \in Messages : QueueSettles(m)
  <2>1. CASE Complete(c) \/ DeadLetter(c) \/ Requeue(c)
    <3>1. env[c].msg \in Messages
      BY <2>1 DEF Complete, DeadLetter, Requeue, Settled, Working
    <3> QED BY <2>1, <3>1 DEF Complete, DeadLetter, Requeue, RequestFails, Unlock, Settle, Valid,
                              QueueSettles
  <2>2. CASE ~(Complete(c) \/ DeadLetter(c) \/ Requeue(c))
    BY <1>4, <2>2 DEF CallEnds, PropagateCancellation, GiveUpLockLost, CancelSettlement, Crash,
                      Replace
  <2> QED BY <2>1, <2>2
<1> QED BY <1>1, <1>2, <1>3, <1>4, StepKinds

(* The message of one task over a step.                                     *)
MessageEffect(m) ==
  /\ queue'[m] \in Message
  /\ queue'[m].place \in {"new", "visible"} => queue'[m].deliveries < MaxDeliveries
  /\ queue[m].place # "new" => queue'[m].place # "new" /\ queue'[m].retries = queue[m].retries
  /\ queue'[m].place = "locked" => \/ queue[m].place = "locked" /\ queue'[m].token = queue[m].token
                                   \/ CanIssue /\ queue'[m].token = Fresh
  /\ queue'[m].place = "gone" =>
       \/ queue[m].place = "gone"
       \/ Clear /\ queue[m].place = "visible"
       \/ \E c \in Calls : env[c].msg = m /\ Complete(c) /\ Valid(m, env[c].token)
  /\ queue'[m].place = "dead" =>
       \/ queue'[m].deliveries = MaxDeliveries
       \/ queue[m].place = "dead" /\ queue'[m].deliveries = queue[m].deliveries
       \/ \E c \in Calls : env[c].msg = m /\ DeadLetter(c) /\ Valid(m, env[c].token)

LEMMA MessageStep ==
  ASSUME Next, TypeOK, Deliverable, \A c \in Calls : Working(c), NEW m \in Messages
  PROVE  MessageEffect(m) /\ queue' = [x \in Messages |-> queue'[x]]
<1> USE Facts
<1>1. /\ queue \in [Messages -> Message] /\ queue[m] \in Message
      /\ queue[m].place \in {"new", "visible"} => queue[m].deliveries < MaxDeliveries
  BY DEF TypeOK, QueueTypeOK, Deliverable
<1>2. ASSUME queue'[m] = queue[m] PROVE MessageEffect(m)
  BY <1>1, <1>2 DEF MessageEffect, Message
<1>3. ASSUME NEW x \in Messages, NEW n \in 0..MaxRetries, Accept(x, n)
      PROVE  MessageEffect(m) /\ queue' = [y \in Messages |-> queue'[y]]
  <2>1. queue' = [y \in Messages |-> queue'[y]]
    BY <1>1, <1>3 DEF Accept
  <2>2. \/ queue'[m] = queue[m]
        \/ /\ queue[m].place = "new"
           /\ queue'[m] = [queue[m] EXCEPT !.place = "visible", !.retries = n]
    BY <1>1, <1>3 DEF Accept
  <2>3. CASE queue[m].place = "new" /\ queue'[m] = [queue[m] EXCEPT !.place = "visible", !.retries = n]
    <3>1. /\ queue'[m] \in Message /\ queue'[m].place = "visible"
          /\ queue'[m].deliveries = queue[m].deliveries
      BY <1>1, <2>3 DEF Message
    <3> QED BY <1>1, <2>1, <2>3, <3>1 DEF MessageEffect
  <2> QED BY <1>2, <2>1, <2>2, <2>3
<1>4. ASSUME NEW x \in Messages, CanIssue, PeekLock(x, Fresh)
      PROVE  MessageEffect(m) /\ queue' = [y \in Messages |-> queue'[y]]
  <2>1. queue' = [y \in Messages |-> queue'[y]]
    BY <1>1, <1>4 DEF PeekLock
  <2>2. \/ queue'[m] = queue[m]
        \/ /\ queue[m].place = "visible"
           /\ queue'[m] = [queue[m] EXCEPT !.place = "locked", !.token = Fresh,
                                           !.deliveries = queue[m].deliveries + 1]
    BY <1>1, <1>4 DEF PeekLock
  <2>3. CASE /\ queue[m].place = "visible"
             /\ queue'[m] = [queue[m] EXCEPT !.place = "locked", !.token = Fresh,
                                             !.deliveries = queue[m].deliveries + 1]
    <3>1. queue[m].deliveries + 1 \in 0..MaxDeliveries
      BY <1>1, <2>3 DEF Message
    <3>2. /\ queue'[m] \in Message /\ queue'[m].place = "locked" /\ queue'[m].token = Fresh
          /\ queue'[m].retries = queue[m].retries
      BY <1>1, <1>4, <2>3, <3>1 DEF Message
    <3> QED BY <1>1, <1>4, <2>1, <2>3, <3>2 DEF MessageEffect
  <2> QED BY <1>2, <2>1, <2>2, <2>3
<1>5. ASSUME NEW x \in Messages, QueueSettles(x)
      PROVE  MessageEffect(m) /\ queue' = [y \in Messages |-> queue'[y]]
  <2>1. PICK place \in {"visible", "dead", "gone"} :
          /\ queue' = [queue EXCEPT ![x].place = place, ![x].token = NoToken]
          /\ queue[x].place = "locked"
          /\ \/ place = Returned(x)
             \/ \E c \in Calls : /\ env[c].msg = x /\ Valid(x, env[c].token)
                                 /\ \/ Complete(c) /\ place = "gone"
                                    \/ DeadLetter(c) /\ place = "dead"
    BY <1>5 DEF QueueSettles, Settle, Valid, Returned
  <2>2. queue' = [y \in Messages |-> queue'[y]]
    BY <1>1, <2>1
  <2>3. CASE x # m
    BY <1>1, <1>2, <2>1, <2>2, <2>3
  <2>4. CASE x = m
    <3>1. queue'[m] = [queue[m] EXCEPT !.place = place, !.token = NoToken]
      BY <1>1, <2>1, <2>4
    <3>2. /\ queue'[m] \in Message /\ queue'[m].place = place
          /\ queue'[m].retries = queue[m].retries /\ queue'[m].deliveries = queue[m].deliveries
      BY <1>1, <3>1 DEF Message
    <3>3. place = "visible" => queue[m].deliveries < MaxDeliveries
      BY <2>1, <2>4 DEF Returned
    <3>4. place = Returned(m) /\ place = "dead" => queue[m].deliveries = MaxDeliveries
      BY <1>1 DEF Returned, Message
    <3>5. place = Returned(m) => place # "gone"
      BY DEF Returned
    <3>6. place = "gone" => \E c \in Calls : env[c].msg = m /\ Complete(c) /\ Valid(m, env[c].token)
      BY <2>1, <2>4, <3>5
    <3>7. place = "dead" => \/ queue[m].deliveries = MaxDeliveries
                            \/ \E c \in Calls : env[c].msg = m /\ DeadLetter(c) /\ Valid(m, env[c].token)
      BY <2>1, <2>4, <3>4
    <3> QED BY <2>1, <2>2, <2>4, <3>2, <3>3, <3>6, <3>7 DEF MessageEffect
  <2> QED BY <2>2, <2>3, <2>4
<1>6. ASSUME Drain, Clear
      PROVE  MessageEffect(m) /\ queue' = [y \in Messages |-> queue'[y]]
  <2>1. queue' = [y \in Messages |-> queue'[y]]
    BY <1>1, <1>6 DEF Drain
  <2>2. \/ queue'[m] = queue[m]
        \/ queue[m].place = "visible" /\ queue'[m] = [queue[m] EXCEPT !.place = "gone"]
    BY <1>1, <1>6 DEF Drain
  <2>3. CASE queue[m].place = "visible" /\ queue'[m] = [queue[m] EXCEPT !.place = "gone"]
    <3>1. /\ queue'[m] \in Message /\ queue'[m].place = "gone"
          /\ queue'[m].retries = queue[m].retries
      BY <1>1, <2>3 DEF Message
    <3> QED BY <1>1, <1>6, <2>1, <2>3, <3>1 DEF MessageEffect
  <2> QED BY <1>2, <2>1, <2>2, <2>3
<1>7. CASE UNCHANGED queue
  BY <1>1, <1>2, <1>7
<1> QED BY <1>3, <1>4, <1>5, <1>6, <1>7, QueueEffect

------------------------------------------------------------------------------
(* The calls and their envelopes *)

SameDelivery(e, f) == e.msg = f.msg /\ e.token = f.token

EnvelopeEffect(c) ==
  \E e \in Envelope : /\ env' = [env EXCEPT ![c] = e]
                      /\ \/ SameDelivery(e, env[c])
                         \/ call'[c].pc = "idle" /\ e = NoEnvelope

(* A renewal task's fields, whatever it does to them.                       *)
LEMMA FieldUpdates ==
  ASSUME NEW e \in Envelope,
         NEW r \in {"off", "wait", "sent", "retry", "expired"},
         NEW a \in 0..MaxFastRetries, NEW n \in 0..1, NEW l \in BOOLEAN
  PROVE  /\ [e EXCEPT !.renew = r] \in Envelope
         /\ [e EXCEPT !.attempt = a] \in Envelope
         /\ [e EXCEPT !.missed = n] \in Envelope
         /\ [e EXCEPT !.lockLost = l] \in Envelope
         /\ [e EXCEPT !.stop = TRUE] \in Envelope
<1>1. [e EXCEPT !.renew = r] \in Envelope /\ [e EXCEPT !.attempt = a] \in Envelope
  BY DEF Envelope
<1>2. [e EXCEPT !.missed = n] \in Envelope
  BY DEF Envelope
<1>3. [e EXCEPT !.lockLost = l] \in Envelope
  BY DEF Envelope
<1>4. [e EXCEPT !.stop = TRUE] \in Envelope
  BY DEF Envelope
<1> QED BY <1>1, <1>2, <1>3, <1>4

LEMMA AllFields ==
  ASSUME NEW e \in Envelope,
         NEW r \in {"off", "wait", "sent", "retry", "expired"},
         NEW a \in 0..MaxFastRetries, NEW n \in 0..1, NEW l \in BOOLEAN
  PROVE  [e EXCEPT !.renew = r, !.attempt = a, !.missed = n, !.lockLost = l] \in Envelope
<1> DEFINE e1 == [e EXCEPT !.renew = r]
           e2 == [e1 EXCEPT !.attempt = a]
           e3 == [e2 EXCEPT !.missed = n]
           e4 == [e3 EXCEPT !.lockLost = l]
<1>1. e1 \in Envelope
  BY FieldUpdates
<1>2. e2 \in Envelope
  <2> HIDE DEF e1
  <2> QED BY <1>1, FieldUpdates
<1>3. e3 \in Envelope
  <2> HIDE DEF e2
  <2> QED BY <1>2, FieldUpdates
<1>4. e4 \in Envelope
  <2> HIDE DEF e3
  <2> QED BY <1>3, FieldUpdates
<1>5. [e EXCEPT !.renew = r, !.attempt = a, !.missed = n, !.lockLost = l] = e4
  OBVIOUS
<1> QED BY <1>4, <1>5

LEMMA EnvelopeUpdate ==
  ASSUME NEW c \in Calls, NEW e \in Envelope, env' = [env EXCEPT ![c] = e],
         SameDelivery(e, env[c]) \/ (call'[c].pc = "idle" /\ e = NoEnvelope)
  PROVE  EnvelopeEffect(c)
BY DEF EnvelopeEffect

LEMMA StopUpdate ==
  ASSUME TypeOK, NEW c \in Calls, env' = [env EXCEPT ![c].stop = TRUE]
  PROVE  EnvelopeEffect(c)
<1> DEFINE e == [env[c] EXCEPT !.stop = TRUE]
<1>1. env[c] \in Envelope
  BY DEF TypeOK
<1>2. env' = [env EXCEPT ![c] = e]
  OBVIOUS
<1>3. e \in Envelope
  BY <1>1 DEF Envelope
<1>4. SameDelivery(e, env[c])
  BY <1>1 DEF Envelope, SameDelivery
<1> HIDE DEF e
<1> QED BY <1>2, <1>3, <1>4, EnvelopeUpdate

LEMMA RenewalEffect ==
  ASSUME TypeOK, NEW c \in Calls, RenewalAlone(c)
  PROVE  UNCHANGED <<queue, call, producer, history>> /\ EnvelopeEffect(c)
<1>1. UNCHANGED <<queue, call, producer, history>>
  BY DEF RenewalAlone, RenewalStep, RenewSends, RenewSucceeds, RenewRefused, RenewFails, RenewStops,
         RenewalDeadline, CancelAwaitedRenewal
<1> SUFFICES EnvelopeEffect(c)
  BY <1>1
<1>2. /\ env[c] \in Envelope
      /\ env[c].attempt \in 0..MaxFastRetries /\ env[c].missed \in 0..1
      /\ env[c].lockLost \in BOOLEAN /\ env[c].stop \in BOOLEAN
      /\ env[c].renew \in {"off", "wait", "sent", "retry", "expired"}
  BY DEF TypeOK, Envelope
<1>3. 0 \in 0..MaxFastRetries /\ 0 \in 0..1 /\ 1 \in 0..1
  BY DEF MaxFastRetries
<1>4. ASSUME NEW r \in {"off", "wait", "sent", "retry", "expired"},
             NEW a \in 0..MaxFastRetries, NEW n \in 0..1, NEW l \in BOOLEAN,
             env' = [env EXCEPT ![c] = [env[c] EXCEPT !.renew = r, !.attempt = a, !.missed = n,
                                                      !.lockLost = l]]
      PROVE  EnvelopeEffect(c)
  <2> DEFINE e == [env[c] EXCEPT !.renew = r, !.attempt = a, !.missed = n, !.lockLost = l]
  <2>1. e \in Envelope
    BY <1>2, AllFields
  <2>2. SameDelivery(e, env[c])
    BY <1>2 DEF Envelope, SameDelivery
  <2>3. env' = [env EXCEPT ![c] = e]
    BY <1>4
  <2> HIDE DEF e
  <2> QED BY <2>1, <2>2, <2>3, EnvelopeUpdate
<1>5. ASSUME NEW l \in BOOLEAN, RenewalEnds(c, l) PROVE EnvelopeEffect(c)
  <2>1. CASE call[c].pc = "idle"
    <3>1. env' = [env EXCEPT ![c] = NoEnvelope] /\ call'[c].pc = "idle"
      BY <1>1, <1>5, <2>1 DEF RenewalEnds
    <3> QED BY <3>1, Facts, EnvelopeUpdate
  <2>2. CASE call[c].pc # "idle"
    <3>1. env' = [env EXCEPT ![c] = [env[c] EXCEPT !.renew = "off", !.attempt = 0, !.missed = 0,
                                                   !.lockLost = l]]
      BY <1>5, <2>2 DEF RenewalEnds, TypeOK
    <3> QED BY <1>3, <1>4, <3>1
  <2> QED BY <2>1, <2>2
<1>6. CASE RenewSends(c) \/ RenewalDeadline(c)
  <2>1. PICK r \in {"sent", "expired"} : env' = [env EXCEPT ![c].renew = r]
    BY <1>6 DEF RenewSends, RenewalDeadline
  <2> DEFINE e == [env[c] EXCEPT !.renew = r]
  <2>2. env' = [env EXCEPT ![c] = e]
    BY <2>1
  <2>3. e \in Envelope /\ SameDelivery(e, env[c])
    BY <1>2 DEF Envelope, SameDelivery
  <2> HIDE DEF e
  <2> QED BY <2>2, <2>3, EnvelopeUpdate
<1>7. CASE RenewSucceeds(c)
  <2>1. CASE env[c].stop
    BY <1>2, <1>5, <1>7, <2>1 DEF RenewSucceeds
  <2>2. CASE ~env[c].stop
    <3> DEFINE e == [env[c] EXCEPT !.renew = "wait", !.attempt = 0, !.missed = 0]
               f == [env[c] EXCEPT !.renew = "wait", !.attempt = 0, !.missed = 0,
                                   !.lockLost = env[c].lockLost]
    <3>1. env' = [env EXCEPT ![c] = e]
      BY <1>7, <2>2 DEF RenewSucceeds, TypeOK
    <3>2. e = f
      BY <1>2 DEF Envelope
    <3> HIDE DEF e
    <3> QED BY <1>2, <1>3, <1>4, <3>1, <3>2
  <2> QED BY <2>1, <2>2
<1>8. CASE RenewRefused(c)
  <2>1. (env[c].lockLost \/ ~env[c].stop) \in BOOLEAN
    OBVIOUS
  <2> QED BY <1>5, <1>8, <2>1 DEF RenewRefused
<1>9. CASE RenewStops(c) \/ CancelAwaitedRenewal(c)
  BY <1>2, <1>5, <1>9 DEF RenewStops, CancelAwaitedRenewal
<1>10. CASE RenewFails(c)
  <2>1. CASE env[c].stop /\ RenewalEnds(c, env[c].lockLost)
    BY <1>2, <1>5, <2>1
  <2>2. CASE /\ env[c].attempt < MaxFastRetries
             /\ env' = [env EXCEPT ![c].renew = "retry", ![c].attempt = @ + 1]
    <3> DEFINE e == [env[c] EXCEPT !.renew = "retry", !.attempt = env[c].attempt + 1]
    <3>1. env' = [env EXCEPT ![c] = e]
      BY <2>2 DEF TypeOK
    <3>2. env[c].attempt + 1 \in 0..MaxFastRetries
      BY <1>2, <2>2 DEF MaxFastRetries
    <3>3. e \in Envelope /\ SameDelivery(e, env[c])
      BY <1>2, <3>2 DEF Envelope, SameDelivery
    <3> HIDE DEF e
    <3> QED BY <3>1, <3>3, EnvelopeUpdate
  <2>3. ASSUME NEW overdue \in BOOLEAN,
               env' = [env EXCEPT ![c].renew = "wait", ![c].attempt = 0, ![c].missed = 1,
                                  ![c].lockLost = @ \/ overdue]
        PROVE  EnvelopeEffect(c)
    <3> DEFINE l == env[c].lockLost \/ overdue
    <3>1. env' = [env EXCEPT ![c] = [env[c] EXCEPT !.renew = "wait", !.attempt = 0, !.missed = 1,
                                                   !.lockLost = l]]
      BY <2>3 DEF TypeOK
    <3>2. l \in BOOLEAN
      OBVIOUS
    <3> HIDE DEF l
    <3> QED BY <1>3, <1>4, <3>1, <3>2
  <2> QED BY <1>10, <2>1, <2>2, <2>3 DEF RenewFails
<1> QED BY <1>6, <1>7, <1>8, <1>9, <1>10 DEF RenewalAlone, RenewalStep

LEMMA EndsEffect ==
  ASSUME TypeOK, NEW c \in Calls, CallEnds(c)
  PROVE  /\ UNCHANGED <<producer, history>> /\ call' = [call EXCEPT ![c] = Idle]
         /\ EnvelopeEffect(c)
<1>1. /\ UNCHANGED <<producer, history>> /\ Finish(c)
      /\ Release(c) \/ env' = [env EXCEPT ![c] = NoEnvelope]
  BY DEF CallEnds, PropagateCancellation, CancelledCallbackRaised, GiveUpLockLost, RaiseLockLost,
         CancelSettlement, CancelledLate, Crash, Complete, DeadLetter, Requeue, Replace, Settled
<1>2. call' = [call EXCEPT ![c] = Idle] /\ call'[c].pc = "idle"
  BY <1>1 DEF Finish, Idle, TypeOK, CallTypeOK
<1>3. ASSUME env' = [env EXCEPT ![c] = NoEnvelope] PROVE EnvelopeEffect(c)
  BY <1>2, <1>3, Facts, EnvelopeUpdate
<1>4. ASSUME Release(c) PROVE EnvelopeEffect(c)
  BY <1>3, <1>4, StopUpdate DEF Release
<1> QED BY <1>1, <1>2, <1>3, <1>4

(* The history over a step: it only grows.                                  *)
HistoryEffect ==
  /\ done \subseteq done' /\ done' \subseteq Messages
  /\ failures' \in [Messages -> 0..(MaxRetries + 2)]
  /\ \A m \in Messages : failures'[m] >= failures[m]
  /\ cleared \subseteq cleared' /\ cleared' \subseteq Messages

LEMMA HistoryKept == ASSUME TypeOK, UNCHANGED <<done, failures, cleared>> PROVE HistoryEffect
<1>1. failures \in [Messages -> 0..(MaxRetries + 2)]
  BY DEF TypeOK
<1>2. \A m \in Messages : failures[m] >= failures[m]
  BY <1>1, Facts
<1> QED BY <1>1, <1>2 DEF HistoryEffect, TypeOK

(* A call that goes on.                                                     *)
GoesOnEffect(c) ==
  /\ UNCHANGED <<queue, producer, cleared, owner>>
  /\ \E x \in Invocation : call' = [call EXCEPT ![c] = x] /\ x.pc # "idle"
  /\ EnvelopeEffect(c)
  /\ HistoryEffect

LEMMA EnvelopeKept == ASSUME TypeOK, NEW c \in Calls, UNCHANGED env PROVE EnvelopeEffect(c)
<1>1. env[c] \in Envelope /\ env' = [env EXCEPT ![c] = env[c]]
  BY DEF TypeOK
<1> QED BY <1>1, EnvelopeUpdate DEF SameDelivery

LEMMA GoesOn ==
  ASSUME TypeOK, NEW c \in Calls, Working(c), CallGoesOn(c)
  PROVE  GoesOnEffect(c) /\ call[c].pc # "idle"
<1>1. call[c] \in Invocation /\ call \in [Calls -> Invocation]
  BY DEF TypeOK, CallTypeOK
<1>2. ASSUME NEW p \in Executing \cup Stopping \cup Settling,
             GoTo(c, p) \/ \E l \in BOOLEAN : Stop(c, p, l)
      PROVE  \E x \in Invocation : call' = [call EXCEPT ![c] = x] /\ x.pc # "idle"
  <2>0. p # "idle"
    BY DEF Executing, Stopping, Settling
  <2>1. CASE GoTo(c, p)
    <3> DEFINE x == [call[c] EXCEPT !.pc = p]
    <3>1. call' = [call EXCEPT ![c] = x]
      BY <1>1, <2>1 DEF GoTo
    <3>2. x \in Invocation /\ x.pc # "idle"
      BY <1>1, <2>0 DEF Invocation
    <3> HIDE DEF x
    <3> QED BY <3>1, <3>2
  <2>2. ASSUME NEW l \in BOOLEAN, Stop(c, p, l)
        PROVE  \E x \in Invocation : call' = [call EXCEPT ![c] = x] /\ x.pc # "idle"
    <3> DEFINE x == [call[c] EXCEPT !.pc = p, !.lost = l]
    <3>1. call' = [call EXCEPT ![c] = x]
      BY <1>1, <2>2 DEF Stop
    <3>2. x \in Invocation /\ x.pc # "idle"
      BY <1>1, <2>0 DEF Invocation
    <3> HIDE DEF x
    <3> QED BY <3>1, <3>2
  <2> QED BY <1>2, <2>1, <2>2
<1>3. env[c].lockLost \in BOOLEAN
  BY DEF TypeOK, Envelope
<1>4. CASE ~Execute(c)
  <2>1. UNCHANGED <<queue, producer, history>>
    BY <1>4 DEF CallGoesOn, ObserveCallback, ObserveLockLoss, Abandon, CancelCall,
                ObserveCancelledCallback, StartSettlement
  <2>2. EnvelopeEffect(c)
    <3>1. env' = [env EXCEPT ![c].stop = TRUE] \/ UNCHANGED env
      BY <1>4 DEF CallGoesOn, ObserveCallback, ObserveLockLoss, Abandon, CancelCall,
                  ObserveCancelledCallback, StartSettlement, SetStop
    <3> QED BY <3>1, StopUpdate, EnvelopeKept
  <2>3. \E p \in Executing \cup Stopping \cup Settling :
           GoTo(c, p) \/ \E l \in BOOLEAN : Stop(c, p, l)
    BY <1>3, <1>4
       DEF CallGoesOn, ObserveCallback, CallbackObserved, ObserveLockLoss, LockLossObserved, Abandon,
           Abandoned, CancelCall, OuterCancelled, ObserveCancelledCallback,
           CancelledCallbackObserved, StartSettlement, ChooseSettlement, Executing, Stopping,
           Settling
  <2>4. call[c].pc # "idle"
    BY <1>4 DEF CallGoesOn, ObserveCallback, CallbackObserved, ObserveLockLoss, LockLossObserved,
                Abandon, Abandoned, CancelCall, OuterCancelled, ObserveCancelledCallback,
                CancelledCallbackObserved, StartSettlement, ChooseSettlement
  <2> QED BY <1>2, <2>1, <2>2, <2>3, <2>4, HistoryKept DEF GoesOnEffect, history
<1>5. CASE Execute(c)
  <2>1. PICK b \in Ended : call' = [call EXCEPT ![c].cb = b]
    BY <1>5 DEF Execute, CallbackEnds
  <2>2. call[c].pc # "idle" /\ env[c].msg \in Messages
    BY <1>5 DEF Execute, CallbackEnds, Executing, Working
  <2>3. \E x \in Invocation : call' = [call EXCEPT ![c] = x] /\ x.pc # "idle"
    <3> DEFINE x == [call[c] EXCEPT !.cb = b]
    <3>1. call' = [call EXCEPT ![c] = x]
      BY <1>1, <2>1
    <3>2. x \in Invocation /\ x.pc # "idle"
      BY <1>1, <2>2 DEF Invocation
    <3> HIDE DEF x
    <3> QED BY <3>1, <3>2
  <2>4. UNCHANGED <<queue, producer, env, cleared, owner>>
    BY <1>5 DEF Execute
  <2>5. done \subseteq done' /\ done' \subseteq Messages
    BY <1>5, <2>2 DEF Execute, TypeOK
  <2>6. /\ failures' \in [Messages -> 0..(MaxRetries + 2)]
        /\ \A m \in Messages : failures'[m] >= failures[m]
    <3>1. failures \in [Messages -> 0..(MaxRetries + 2)] /\ MaxRetries \in Nat
      BY Facts DEF TypeOK
    <3>2. \/ failures' = failures
          \/ /\ failures[env[c].msg] < MaxRetries + 2
             /\ failures' = [failures EXCEPT ![env[c].msg] = @ + 1]
      BY <1>5 DEF Execute
    <3> QED BY <2>2, <3>1, <3>2
  <2>7. cleared \subseteq cleared' /\ cleared' \subseteq Messages
    BY <2>4 DEF TypeOK
  <2> QED BY <2>2, <2>3, <2>4, <2>5, <2>6, <2>7, EnvelopeKept DEF GoesOnEffect, HistoryEffect
<1> QED BY <1>4, <1>5

LEMMA GoesOnWorks ==
  ASSUME TypeOK, NEW c \in Calls, Working(c), CallGoesOn(c)
  PROVE  Working(c)'
<1>1. GoesOnEffect(c) /\ call[c].pc # "idle" /\ env[c].msg \in Messages
  BY GoesOn DEF Working
<1>2. /\ call[c] \in Invocation /\ call \in [Calls -> Invocation] /\ queue' = queue
      /\ env'[c].msg = env[c].msg
  <2>1. PICK x \in Invocation : call' = [call EXCEPT ![c] = x] /\ x.pc # "idle"
    BY <1>1 DEF GoesOnEffect
  <2>2. call'[c].pc # "idle"
    BY <2>1 DEF TypeOK, CallTypeOK
  <2> QED BY <1>1, <2>2 DEF GoesOnEffect, EnvelopeEffect, SameDelivery, TypeOK, CallTypeOK
<1>3. /\ env[c].msg \in done => env[c].msg \in done'
      /\ failures[env[c].msg] > 0 => failures'[env[c].msg] > 0
  <2>1. failures[env[c].msg] \in Nat /\ failures'[env[c].msg] \in Nat
        /\ failures'[env[c].msg] >= failures[env[c].msg]
    BY <1>1, Facts DEF TypeOK, GoesOnEffect, HistoryEffect
  <2> QED BY <1>1, <2>1 DEF GoesOnEffect, HistoryEffect
(* What the rest of Working needs of the step.                              *)
<1> DEFINE Rest == /\ call'[c].cb = "ok" => env[c].msg \in done'
                   /\ call'[c].cb = "error" => failures'[env[c].msg] > 0
                   /\ call'[c].pc = "stopOk" /\ ~call'[c].lost => call'[c].cb = "ok"
                   /\ call'[c].pc = "stopErr" => call'[c].cb \in {"ok", "error"}
                   /\ call'[c].pc = "delete" => call'[c].cb = "ok"
                   /\ call'[c].pc = "deadletter" =>
                        call'[c].cb \in {"ok", "error"} /\ queue[env[c].msg].retries = 0
<1>5. CASE Execute(c)
  <2>1. PICK b \in Ended : call' = [call EXCEPT ![c].cb = b]
    BY <1>5 DEF Execute, CallbackEnds
  <2>2. call'[c].cb = b /\ call'[c].pc = call[c].pc /\ call[c].pc \in Executing
    BY <1>2, <1>5, <2>1 DEF Execute, CallbackEnds, Invocation
  <2>3. b = "ok" => env[c].msg \in done'
    BY <1>5, <2>2 DEF Execute
  <2>4. b = "error" => failures'[env[c].msg] > 0
    <3>1. failures[env[c].msg] \in 0..(MaxRetries + 2) /\ MaxRetries \in Nat
          /\ failures \in [Messages -> 0..(MaxRetries + 2)]
      BY <1>1, Facts DEF TypeOK
    <3> QED BY <1>1, <1>5, <2>2, <3>1 DEF Execute
  <2>5. Rest
    BY <2>2, <2>3, <2>4 DEF Executing
  <2> QED BY <1>1, <1>2, <2>5 DEF Working
<1>6. ASSUME NEW p \in Stopping \cup Settling \cup Executing, ~Execute(c),
             call'[c].pc = p, call'[c].cb = call[c].cb,
             p = "stopOk" /\ ~call'[c].lost => call[c].cb = "ok",
             p = "stopErr" => call[c].cb \in {"ok", "error"},
             p = "delete" => call[c].cb = "ok",
             p = "deadletter" => call[c].cb \in {"ok", "error"} /\ queue[env[c].msg].retries = 0
      PROVE  Working(c)'
  BY <1>1, <1>2, <1>3, <1>6 DEF Working
<1>7. ASSUME NEW p \in Stopping \cup Settling \cup Executing, NEW l \in BOOLEAN, Stop(c, p, l)
      PROVE  call'[c].pc = p /\ call'[c].cb = call[c].cb /\ call'[c].lost = l
  BY <1>2, <1>7 DEF Stop, Invocation
<1>8. ASSUME NEW p \in Stopping \cup Settling \cup Executing, GoTo(c, p)
      PROVE  call'[c].pc = p /\ call'[c].cb = call[c].cb /\ call'[c].lost = call[c].lost
  BY <1>2, <1>8 DEF GoTo, Invocation
<1>9. env[c].lockLost \in BOOLEAN
  BY DEF TypeOK, Envelope
<1>10. CASE ~Execute(c)
  <2>1. CASE ObserveCallback(c) \/ ObserveCancelledCallback(c)
    <3>1. PICK p \in Stopping, l \in BOOLEAN :
            /\ Stop(c, p, l)
            /\ p = "stopOk" => call[c].cb = "ok"
            /\ p = "stopErr" => call[c].cb \in {"ok", "error"}
      BY <1>9, <2>1 DEF ObserveCallback, CallbackObserved, ObserveCancelledCallback,
                        CancelledCallbackObserved, Stopping
    <3> QED BY <1>6, <1>7, <1>10, <3>1 DEF Stopping
  <2>2. CASE ObserveLockLoss(c) \/ CancelCall(c)
    <3>1. PICK p \in {"abandon", "cancelled"} : GoTo(c, p)
      BY <2>2 DEF ObserveLockLoss, LockLossObserved, CancelCall, OuterCancelled
    <3> QED BY <1>6, <1>8, <1>10, <3>1 DEF Executing
  <2>3. CASE Abandon(c)
    <3>1. Stop(c, "stopOk", TRUE)
      BY <2>3 DEF Abandon, Abandoned
    <3>2. call'[c].pc = "stopOk" /\ call'[c].cb = call[c].cb /\ call'[c].lost
      BY <1>7, <3>1 DEF Stopping
    <3> QED BY <1>6, <1>10, <3>2 DEF Stopping
  <2>4. CASE StartSettlement(c)
    <3>1. ~call[c].lost /\ queue[env[c].msg].retries \in Nat
      BY <1>1, <2>4, Facts
         DEF StartSettlement, ChooseSettlement, TypeOK, QueueTypeOK, Message
    <3>2. PICK p \in Settling :
            /\ GoTo(c, p)
            /\ p = "delete" => call[c].pc = "stopOk"
            /\ p = "deadletter" => call[c].pc = "stopErr" /\ queue[env[c].msg].retries <= 0
      BY <2>4 DEF StartSettlement, ChooseSettlement, Settling
    <3>3. /\ p = "delete" => call[c].cb = "ok"
          /\ p = "deadletter" => call[c].cb \in {"ok", "error"} /\ queue[env[c].msg].retries = 0
          /\ p \notin {"stopOk", "stopErr"}
      BY <3>1, <3>2 DEF Working, Settling
    <3> QED BY <1>6, <1>8, <1>10, <3>2, <3>3
  <2> QED BY <1>10, <2>1, <2>2, <2>3, <2>4 DEF CallGoesOn
<1> QED BY <1>5, <1>10

------------------------------------------------------------------------------
(* The invariant *)

LEMMA AloneEffect ==
  ASSUME TypeOK, QueueAlone
  PROVE  /\ UNCHANGED <<call, env>> /\ HistoryEffect
         /\ producer' \in [Messages -> {"idle", "sending", "returned", "raised"}]
         /\ owner' \in [Messages -> Calls \cup {NoCall}]
         /\ \A m \in Messages :
              owner'[m] = owner[m] \/ (CanIssue /\ queue[m].place = "visible" /\ queue'[m].token = Fresh)
<1>1. CASE Clear
  <2>1. UNCHANGED <<call, producer, env, done, failures, owner>>
    BY <1>1 DEF Clear
  <2>2. HistoryEffect
    <3>1. failures \in [Messages -> 0..(MaxRetries + 2)]
      BY DEF TypeOK
    <3>2. \A m \in Messages : failures[m] >= failures[m]
      BY <3>1, Facts
    <3>3. cleared \subseteq cleared' /\ cleared' \subseteq Messages
      BY <1>1 DEF Clear, TypeOK
    <3> QED BY <2>1, <3>1, <3>2, <3>3 DEF HistoryEffect, TypeOK
  <2> QED BY <2>1, <2>2 DEF TypeOK
<1>2. ASSUME NEW m \in Messages, SendReturns(m) \/ SendRaises(m) \/ Expire(m)
      PROVE  /\ UNCHANGED <<call, env, history>>
             /\ producer' \in [Messages -> {"idle", "sending", "returned", "raised"}]
  BY <1>2 DEF SendReturns, SendRaises, Expire, TypeOK
<1>3. ASSUME NEW m \in Messages, ReceiveLost(m)
      PROVE  /\ UNCHANGED <<call, producer, env, done, failures, cleared>>
             /\ owner' = [owner EXCEPT ![m] = NoCall]
             /\ CanIssue /\ PeekLock(m, Fresh)
  BY <1>3 DEF ReceiveLost
<1>4. CASE \E m \in Messages : SendReturns(m) \/ SendRaises(m) \/ Expire(m)
  BY <1>2, <1>4, HistoryKept DEF history, TypeOK
<1>5. ASSUME NEW m \in Messages, ReceiveLost(m)
      PROVE  /\ owner' \in [Messages -> Calls \cup {NoCall}]
             /\ \A x \in Messages :
                  owner'[x] = owner[x] \/ (CanIssue /\ queue[x].place = "visible" /\ queue'[x].token = Fresh)
  <2>1. queue[m] \in Message /\ queue \in [Messages -> Message]
    BY DEF TypeOK, QueueTypeOK
  <2>2. queue'[m] = [queue[m] EXCEPT !.place = "locked", !.token = Fresh,
                                     !.deliveries = queue[m].deliveries + 1]
    BY <1>3, <1>5, <2>1 DEF PeekLock
  <2>3. queue'[m].token = Fresh /\ queue[m].place = "visible" /\ CanIssue
    BY <1>3, <1>5, <2>1, <2>2 DEF PeekLock, Message
  <2> QED BY <1>3, <1>5, <2>3 DEF TypeOK
<1>6. CASE \E m \in Messages : ReceiveLost(m)
  BY <1>3, <1>5, <1>6, HistoryKept DEF TypeOK
<1> QED BY <1>1, <1>4, <1>6 DEF QueueAlone

LEMMA ReceiveEffect ==
  ASSUME TypeOK, NEW c \in Calls, NEW m \in Messages, Receive(c, m)
  PROVE  /\ UNCHANGED <<producer, done, failures, cleared>>
         /\ \E x \in Invocation : /\ call' = [call EXCEPT ![c] = x]
                                  /\ x.pc = "execute" /\ x.cb = "running"
         /\ \E e \in Envelope : /\ env' = [env EXCEPT ![c] = e]
                                /\ e.msg = m /\ e.token = Fresh
         /\ owner' = [owner EXCEPT ![m] = c]
         /\ CanIssue /\ queue[m].place = "visible"
         /\ queue'[m].place = "locked" /\ queue'[m].token = Fresh
<1>1. PICK async \in AsyncKinds :
        call' = [call EXCEPT ![c] = [pc |-> "execute", cb |-> "running", lost |-> FALSE,
                                     async |-> async]]
  BY DEF Receive, Begin
<1>2. async \in BOOLEAN
  BY Facts
<1> DEFINE x == [pc |-> "execute", cb |-> "running", lost |-> FALSE, async |-> async]
           r == IF WithHeartbeat THEN "wait" ELSE "off"
           e == [NoEnvelope EXCEPT !.msg = m, !.token = Fresh, !.renew = r]
<1>3. call' = [call EXCEPT ![c] = x] /\ x.pc = "execute" /\ x.cb = "running"
  BY <1>1
<1>4. x \in Invocation
  BY <1>2 DEF Invocation, Executing
<1>5. env' = [env EXCEPT ![c] = e]
  BY DEF Receive
<1>6. CanIssue /\ PeekLock(m, Fresh) /\ Fresh \in Tokens
  BY Facts DEF Receive
<1>7. e \in Envelope /\ e.msg = m /\ e.token = Fresh
  <2>1. r \in {"off", "wait", "sent", "retry", "expired"}
    OBVIOUS
  <2>2. NoEnvelope \in Envelope
    BY Facts
  <2> HIDE DEF r
  <2>3. e \in Envelope
    <3> DEFINE f == [NoEnvelope EXCEPT !.msg = m]
               g == [f EXCEPT !.token = Fresh]
    <3>1. f \in Envelope
      BY <2>2 DEF Envelope
    <3>2. g \in Envelope
      <4> HIDE DEF f
      <4> QED BY <1>6, <3>1 DEF Envelope
    <3>3. [g EXCEPT !.renew = r] \in Envelope
      <4> HIDE DEF g
      <4> QED BY <2>1, <3>2 DEF Envelope
    <3>4. e = [g EXCEPT !.renew = r]
      OBVIOUS
    <3> HIDE DEF e, g
    <3> QED BY <3>3, <3>4
  <2>4. e.msg = m /\ e.token = Fresh
    BY DEF NoEnvelope
  <2> QED BY <2>3, <2>4
<1>8. /\ queue[m].place = "visible" /\ queue'[m].place = "locked" /\ queue'[m].token = Fresh
  <2>1. queue[m] \in Message /\ queue \in [Messages -> Message]
    BY DEF TypeOK, QueueTypeOK
  <2>2. queue'[m] = [queue[m] EXCEPT !.place = "locked", !.token = Fresh,
                                     !.deliveries = queue[m].deliveries + 1]
    BY <1>6, <2>1 DEF PeekLock
  <2> QED BY <1>6, <2>1, <2>2 DEF PeekLock, Message
<1>9. /\ UNCHANGED <<producer, done, failures, cleared>> /\ owner' = [owner EXCEPT ![m] = c]
  BY DEF Receive
<1> HIDE DEF x, e
<1> QED BY <1>3, <1>4, <1>5, <1>6, <1>7, <1>8, <1>9

(* A step is somebody's: the others keep their calls and envelopes, and     *)
(* one's own may end, go on or begin.                                       *)
Keeps(d) ==
  /\ call'[d] = call[d] \/ call'[d] = Idle
  /\ SameDelivery(env'[d], env[d]) \/ (call'[d].pc = "idle" /\ env'[d] = NoEnvelope)

OwnersKept ==
  \A m \in Messages :
    owner'[m] = owner[m] \/ (CanIssue /\ queue[m].place = "visible" /\ queue'[m].token = Fresh)

LEMMA StepEffect ==
  ASSUME TypeOK, \A c \in Calls : Working(c), Next
  PROVE  /\ HistoryEffect /\ OwnersKept
         /\ owner' \in [Messages -> Calls \cup {NoCall}]
         /\ producer' \in [Messages -> {"idle", "sending", "returned", "raised"}]
         /\ call' \in [Calls -> Invocation] /\ env' \in [Calls -> Envelope]
         /\ \A d \in Calls : Keeps(d) \/ CallGoesOn(d) \/ \E m \in Messages : Receive(d, m)
<1>1. /\ call \in [Calls -> Invocation] /\ env \in [Calls -> Envelope]
      /\ owner \in [Messages -> Calls \cup {NoCall}]
      /\ producer \in [Messages -> {"idle", "sending", "returned", "raised"}]
      /\ Idle \in Invocation
  BY Facts DEF TypeOK, CallTypeOK
<1>2. CASE QueueAlone
  BY <1>1, <1>2, AloneEffect DEF Keeps, SameDelivery, OwnersKept
<1>3. ASSUME NEW c \in Calls, EnvelopeEffect(c)
      PROVE  /\ env' \in [Calls -> Envelope]
             /\ SameDelivery(env'[c], env[c]) \/ (call'[c].pc = "idle" /\ env'[c] = NoEnvelope)
             /\ \A d \in Calls \ {c} : env'[d] = env[d]
  BY <1>1, <1>3 DEF EnvelopeEffect
<1>4. CASE \E c \in Calls : RenewalAlone(c)
  <2>1. PICK c \in Calls : RenewalAlone(c)
    BY <1>4
  <2>2. UNCHANGED <<queue, call, producer, history>> /\ EnvelopeEffect(c)
    BY <2>1, RenewalEffect
  <2>3. \A d \in Calls : Keeps(d)
    BY <1>3, <2>2 DEF Keeps, SameDelivery
  <2> QED BY <1>1, <1>3, <2>2, <2>3, HistoryKept DEF history, OwnersKept
<1>5. CASE \E c \in Calls : CallEnds(c)
  <2>1. PICK c \in Calls : CallEnds(c)
    BY <1>5
  <2>2. UNCHANGED <<producer, history>> /\ call' = [call EXCEPT ![c] = Idle] /\ EnvelopeEffect(c)
    BY <2>1, EndsEffect
  <2>3. \A d \in Calls : call'[d] = call[d] \/ call'[d] = Idle
    BY <1>1, <2>2
  <2>4. \A d \in Calls : Keeps(d)
    BY <1>3, <2>2, <2>3 DEF Keeps, SameDelivery
  <2> QED BY <1>1, <1>3, <2>2, <2>4, HistoryKept DEF history, OwnersKept
<1>6. CASE \E c \in Calls : CallGoesOn(c)
  <2>1. PICK c \in Calls : CallGoesOn(c)
    BY <1>6
  <2>2. GoesOnEffect(c)
    BY <2>1, GoesOn
  <2>3. PICK x \in Invocation : call' = [call EXCEPT ![c] = x]
    BY <2>2 DEF GoesOnEffect
  <2>4. EnvelopeEffect(c) /\ UNCHANGED <<queue, producer, cleared, owner>> /\ HistoryEffect
    BY <2>2 DEF GoesOnEffect
  <2>5. \A d \in Calls \ {c} : Keeps(d)
    BY <1>1, <1>3, <2>3, <2>4 DEF Keeps, SameDelivery
  <2>6. call' \in [Calls -> Invocation] /\ env' \in [Calls -> Envelope]
    BY <1>1, <1>3, <2>3, <2>4
  <2> QED BY <1>1, <2>1, <2>4, <2>5, <2>6 DEF OwnersKept
<1>7. CASE \E c \in Calls, m \in Messages : Receive(c, m)
  <2>1. PICK c \in Calls, m \in Messages : Receive(c, m)
    BY <1>7
  <2>2. PICK x \in Invocation : call' = [call EXCEPT ![c] = x]
    BY <2>1, ReceiveEffect
  <2>3. PICK e \in Envelope : env' = [env EXCEPT ![c] = e]
    BY <2>1, ReceiveEffect
  <2>4. /\ UNCHANGED <<producer, done, failures, cleared>> /\ owner' = [owner EXCEPT ![m] = c]
        /\ CanIssue /\ queue[m].place = "visible" /\ queue'[m].token = Fresh
    BY <2>1, ReceiveEffect
  <2>5. \A d \in Calls \ {c} : Keeps(d)
    BY <1>1, <2>2, <2>3 DEF Keeps, SameDelivery
  <2> QED BY <1>1, <2>1, <2>2, <2>3, <2>4, <2>5, HistoryKept DEF OwnersKept
<1> QED BY <1>2, <1>4, <1>5, <1>6, <1>7, StepKinds

LEMMA TypeStep ==
  ASSUME TypeOK, Deliverable, \A c \in Calls : Working(c), Next
  PROVE  TypeOK' /\ Deliverable' /\ \A m \in Messages : MessageEffect(m)
<1>1. \A m \in Messages : MessageEffect(m)
  BY MessageStep
<1>2. queue' \in [Messages -> Message] /\ Deliverable'
  <2>1. \A m \in Messages : queue'[m] \in Message
    BY <1>1 DEF MessageEffect
  <2>2. CASE Messages # {}
    <3>1. queue' = [x \in Messages |-> queue'[x]]
      BY <2>2, MessageStep
    <3> QED BY <1>1, <2>1, <3>1 DEF MessageEffect, Deliverable
  <2>3. CASE Messages = {}
    <3>1. UNCHANGED queue \/ Drain
      BY <2>3, QueueEffect
    <3> QED BY <2>3, <3>1 DEF Drain, TypeOK, QueueTypeOK, Deliverable
  <2> QED BY <2>2, <2>3
<1>3. /\ call' \in [Calls -> Invocation] /\ env' \in [Calls -> Envelope] /\ HistoryEffect
      /\ owner' \in [Messages -> Calls \cup {NoCall}]
      /\ producer' \in [Messages -> {"idle", "sending", "returned", "raised"}]
  BY StepEffect
<1> QED BY <1>1, <1>2, <1>3 DEF TypeOK, QueueTypeOK, CallTypeOK, HistoryEffect

LEMMA KeepsWorking ==
  ASSUME TypeOK, NEW d \in Calls, Working(d), Keeps(d), HistoryEffect,
         \A m \in Messages : MessageEffect(m)
  PROVE  Working(d)'
<1>1. Idle.pc = "idle" /\ NoEnvelope.msg = NoMessage /\ NoMessage \notin Messages
  BY Facts DEF Idle, NoEnvelope
<1>2. CASE call'[d].pc = "idle"
  <2>1. env'[d].msg \in Messages => env'[d].msg = env[d].msg
    BY <1>1 DEF Keeps, SameDelivery
  <2> QED BY <1>2, <2>1 DEF Working, MessageEffect
<1>3. CASE call'[d].pc # "idle"
  <2>1. call'[d] = call[d] /\ env'[d].msg = env[d].msg /\ env[d].msg \in Messages
    BY <1>1, <1>3 DEF Keeps, SameDelivery, Working
  <2>2. /\ queue[env[d].msg].place # "new"
        /\ queue'[env[d].msg].place # "new"
        /\ queue'[env[d].msg].retries = queue[env[d].msg].retries
    BY <2>1 DEF Working, MessageEffect
  <2>3. /\ env[d].msg \in done => env[d].msg \in done'
        /\ failures[env[d].msg] > 0 => failures'[env[d].msg] > 0
    <3>1. /\ failures[env[d].msg] \in Nat /\ failures'[env[d].msg] \in Nat
          /\ failures'[env[d].msg] >= failures[env[d].msg]
      BY <2>1, Facts DEF TypeOK, HistoryEffect
    <3> QED BY <3>1 DEF HistoryEffect
  <2> QED BY <1>3, <2>1, <2>2, <2>3 DEF Working
<1> QED BY <1>2, <1>3

LEMMA WorkingStep ==
  ASSUME TypeOK, Deliverable, \A c \in Calls : Working(c), Next, NEW d \in Calls
  PROVE  Working(d)'
<1>1. (\A m \in Messages : MessageEffect(m)) /\ HistoryEffect
  BY TypeStep, StepEffect
<1>2. CASE Keeps(d)
  BY <1>1, <1>2, KeepsWorking
<1>3. CASE CallGoesOn(d)
  BY <1>3, GoesOnWorks
<1>4. ASSUME NEW m \in Messages, Receive(d, m) PROVE Working(d)'
  <2>1. call'[d].pc = "execute" /\ call'[d].cb = "running"
    BY <1>4, ReceiveEffect DEF TypeOK, CallTypeOK
  <2>2. env'[d].msg = m /\ queue'[m].place # "new"
    BY <1>4, ReceiveEffect DEF TypeOK
  <2> QED BY <1>4, <2>1, <2>2 DEF Working
<1> QED BY <1>2, <1>3, <1>4, StepEffect

(* A token that is issued is held by nobody, and the message it is issued   *)
(* for was not locked: nobody else's token works again.                     *)
LEMMA OwnedStep ==
  ASSUME TypeOK, Deliverable, \A c \in Calls : Working(c) /\ Owned(c), Next, NEW d \in Calls
  PROVE  Owned(d)'
<1> SUFFICES ASSUME env'[d].msg \in Messages, Valid(env[d].msg, env[d].token)'
             PROVE  owner'[env'[d].msg] = d
  BY DEF Owned, HoldsValid
<1> DEFINE m == env'[d].msg
<1>0. queue'[m].place = "locked" /\ queue'[m].token = env'[d].token
  BY DEF Valid
<1>1. MessageEffect(m) /\ OwnersKept
  BY TypeStep, StepEffect
<1>2. ASSUME SameDelivery(env'[d], env[d]), owner'[m] = owner[m] \/ OwnersKept
      PROVE  owner'[m] = d
  <2>1. m = env[d].msg /\ env'[d].token = env[d].token
    BY <1>2 DEF SameDelivery
  <2>2. queue'[m].token # Fresh \/ ~CanIssue
    BY <1>0, <2>1, Facts DEF InUse
  <2>3. queue[m].place = "locked" /\ queue'[m].token = queue[m].token
    BY <1>0, <1>1, <2>2 DEF MessageEffect
  <2>4. owner[m] = d
    BY <1>0, <2>1, <2>3 DEF Owned, HoldsValid, Valid
  <2> QED BY <1>1, <2>3, <2>4 DEF OwnersKept
<1>3. CASE Keeps(d)
  <2>1. SameDelivery(env'[d], env[d])
    BY <1>3, Facts DEF Keeps, NoEnvelope
  <2> QED BY <1>1, <1>2, <2>1
<1>4. CASE CallGoesOn(d)
  <2>1. PICK x \in Invocation : call' = [call EXCEPT ![d] = x] /\ x.pc # "idle"
    BY <1>4, GoesOn DEF GoesOnEffect
  <2>2. call'[d].pc # "idle"
    BY <2>1 DEF TypeOK, CallTypeOK
  <2>3. SameDelivery(env'[d], env[d])
    BY <1>4, <2>2, GoesOn DEF GoesOnEffect, EnvelopeEffect, TypeOK
  <2> QED BY <1>1, <1>2, <2>3
<1>5. ASSUME NEW x \in Messages, Receive(d, x) PROVE owner'[m] = d
  <2>1. m = x
    BY <1>5, ReceiveEffect DEF TypeOK
  <2> QED BY <1>5, <2>1, ReceiveEffect DEF TypeOK
<1> QED BY <1>3, <1>4, <1>5, StepEffect

LEMMA NoTaskLostStep ==
  ASSUME TypeOK, Deliverable, \A c \in Calls : Working(c), NoTaskLost, Next
  PROVE  NoTaskLost'
<1> SUFFICES ASSUME NEW m \in Messages
             PROVE  /\ queue'[m].place = "gone" => m \in done' \cup cleared'
                    /\ queue'[m].place = "dead" =>
                         \/ queue'[m].retries = 0 /\ (failures'[m] > 0 \/ m \in done')
                         \/ queue'[m].deliveries = MaxDeliveries
  BY DEF NoTaskLost
<1>1. MessageEffect(m) /\ HistoryEffect
  BY TypeStep, StepEffect
<1>2. failures[m] > 0 => failures'[m] > 0
  <2>1. failures[m] \in Nat /\ failures'[m] \in Nat /\ failures'[m] >= failures[m]
    BY <1>1, Facts DEF TypeOK, HistoryEffect
  <2> QED BY <2>1
<1>3. ASSUME queue'[m].place = "gone" PROVE m \in done' \cup cleared'
  <2>1. CASE queue[m].place = "gone"
    BY <1>1, <2>1 DEF NoTaskLost, HistoryEffect
  <2>2. CASE Clear /\ queue[m].place = "visible"
    BY <2>2 DEF Clear
  <2>3. ASSUME NEW c \in Calls, env[c].msg = m, Complete(c) PROVE m \in done'
    BY <1>1, <2>3 DEF Complete, Settled, Working, HistoryEffect
  <2> QED BY <1>1, <1>3, <2>1, <2>2, <2>3 DEF MessageEffect
<1>4. ASSUME queue'[m].place = "dead", queue'[m].deliveries # MaxDeliveries
      PROVE  queue'[m].retries = 0 /\ (failures'[m] > 0 \/ m \in done')
  <2>1. CASE queue[m].place = "dead" /\ queue'[m].deliveries = queue[m].deliveries
    BY <1>1, <1>2, <1>4, <2>1 DEF NoTaskLost, MessageEffect, HistoryEffect
  <2>2. ASSUME NEW c \in Calls, env[c].msg = m, DeadLetter(c), Valid(m, env[c].token)
        PROVE  queue'[m].retries = 0 /\ (failures'[m] > 0 \/ m \in done')
    <3>1. queue[m].retries = 0 /\ (failures[m] > 0 \/ m \in done)
      BY <2>2 DEF DeadLetter, Settled, Working
    <3>2. queue[m].place # "new"
      BY <2>2 DEF Valid
    <3> QED BY <1>1, <1>2, <3>1, <3>2 DEF MessageEffect, HistoryEffect
  <2> QED BY <1>1, <1>4, <2>1, <2>2 DEF MessageEffect
<1> QED BY <1>3, <1>4

LEMMA InitIInv == Init => IInv
<1> SUFFICES ASSUME Init PROVE IInv
  OBVIOUS
<1>1. TypeOK
  <2>1. queue \in [Messages -> Message]
    BY Facts DEF Init, QueueInit, Message
  <2>2. call \in [Calls -> Invocation] /\ env \in [Calls -> Envelope]
    BY Facts DEF Init, CallInit
  <2> QED BY <2>1, <2>2, Facts DEF Init, TypeOK, QueueTypeOK, CallTypeOK
<1>2. Deliverable /\ NoTaskLost
  BY Facts DEF Init, QueueInit, Deliverable, NoTaskLost
<1>3. ASSUME NEW c \in Calls PROVE Working(c) /\ Owned(c)
  <2>1. call[c].pc = "idle" /\ env[c].msg \notin Messages
    BY Facts DEF Init, CallInit, Idle, NoEnvelope
  <2> QED BY <2>1 DEF Working, Owned
<1> QED BY <1>1, <1>2, <1>3 DEF IInv

------------------------------------------------------------------------------
(* The theorems *)

LEMMA Stutter == IInv /\ UNCHANGED vars => IInv'
BY DEF vars, IInv, TypeOK, QueueTypeOK, CallTypeOK, Deliverable, Working, Owned, HoldsValid, Valid,
       NoTaskLost

(* All of it holds always.                                                  *)
THEOREM Invariance == Spec => []IInv
<1>1. IInv /\ Next => IInv'
  BY TypeStep, WorkingStep, OwnedStep, NoTaskLostStep DEF IInv
<1>2. IInv /\ [Next]_vars => IInv'
  BY <1>1, Stutter
<1> QED BY InitIInv, <1>2, PTL DEF Spec

(* The types of the queue, the calls and their renewal tasks.               *)
THEOREM TypeCorrectness == Spec => []TypeOK
<1>1. IInv => TypeOK
  BY DEF IInv
<1> QED BY Invariance, <1>1, PTL

(* A task leaves the queue after a success or a clear() only, and is        *)
(* dead-lettered without retries and after an execution only (or when the   *)
(* service gives up), whatever fails and whoever else has it.               *)
THEOREM TasksAreNotLost == Spec => []NoTaskLost
<1>1. IInv => NoTaskLost
  BY DEF IInv
<1> QED BY Invariance, <1>1, PTL

(* Only the call a task was last delivered to removes it.                   *)
THEOREM OnlyTheOwnerRemoves == Spec => RemovedByItsOwner
<1> DEFINE ByOwner ==
      \A m \in Messages :
        queue[m].place # "gone" /\ queue'[m].place = "gone" =>
          \/ m \in cleared'
          \/ \E c \in Calls : /\ owner[m] = c /\ env[c].msg = m
                              /\ call[c].pc = "delete" /\ call[c].cb = "ok"
<1>1. IInv /\ Next => ByOwner
  <2> SUFFICES ASSUME IInv, Next, NEW m \in Messages,
                      queue[m].place # "gone", queue'[m].place = "gone"
               PROVE  \/ m \in cleared'
                      \/ \E c \in Calls : /\ owner[m] = c /\ env[c].msg = m
                                          /\ call[c].pc = "delete" /\ call[c].cb = "ok"
    OBVIOUS
  <2>1. CASE Clear /\ queue[m].place = "visible"
    BY <2>1 DEF Clear
  <2>2. ASSUME NEW c \in Calls, env[c].msg = m, Complete(c), Valid(m, env[c].token)
        PROVE  owner[m] = c /\ call[c].pc = "delete" /\ call[c].cb = "ok"
    BY <2>2 DEF IInv, Owned, HoldsValid, Working, Complete, Settled
  <2>3. MessageEffect(m)
    BY TypeStep DEF IInv
  <2> QED BY <2>1, <2>2, <2>3 DEF MessageEffect
<1>2. IInv /\ UNCHANGED vars => ByOwner
  BY DEF vars
<1>3. IInv /\ [Next]_vars => [ByOwner]_vars
  BY <1>1, <1>2
<1> QED BY Invariance, <1>3, PTL DEF Spec, RemovedByItsOwner
==============================================================================
