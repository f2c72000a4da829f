---------------------------- MODULE ServiceBusJobQ ----------------------------
(***************************************************************************)
(* JobQ over Azure Service Bus: pull_and_execute (module PullAndExecute)    *)
(* with RESTServiceBusEnvelope and the lock-renewal task of                 *)
(* servicebus_rest.py, and the producer's push with its retries, against    *)
(* the service (module ServiceBusService).                                  *)
(*                                                                          *)
(* A call and its renewal task share an event loop: they interleave at      *)
(* awaits.  Unlike the heartbeat of the storage queue, a renewal changes no *)
(* token; it may fail three times in a row before the cycle is given up.    *)
(***************************************************************************)
EXTENDS ServiceBusService, PullAndExecute

CONSTANTS
  NoMessage, NoCall,
  WithHeartbeat,   \* the with_heartbeat argument
  Faults           \* the events of the environment a run admits

FaultKinds == {"crash",           \* the process dies
               "cancelCallback",  \* the call is cancelled while it executes
               "cancelLate",      \* ... while it stops the renewal or settles
               "failedCall",      \* a request fails and is not applied
               "lostReply",       \* a request is applied, and fails for the client
               "errorStatus",     \* a send is answered with 429, 5xx, 403, ...
               "deadline",        \* a task runs longer than three weeks
               "clear"}           \* somebody drains the queue

ASSUME WithHeartbeatAssumption == WithHeartbeat \in BOOLEAN
ASSUME FaultsAssumption == Faults \subseteq FaultKinds
ASSUME NoMessageAssumption == NoMessage \notin Messages
ASSUME NoCallAssumption == NoCall \notin Calls

VARIABLES
  producer, \* producer[m]: the push of task m
  env,      \* env[c]: the envelope of call c and its renewal task
  \* History, read by no action:
  done,     \* the tasks one of whose callbacks has returned
  failures, \* failures[m]: failed executions of m, up to MaxRetries + 2
  cleared,  \* the tasks removed by clear()
  owner     \* owner[m]: the call that m was last delivered to

vars == <<queue, call, producer, env, done, failures, cleared, owner>>
history == <<done, failures, cleared, owner>>

MaxFastRetries == 2

(* renew is where the renewal task is suspended: "wait" in wait_for, "sent" *)
(* in renew_lock, "retry" in the sleep before an immediate retry; attempt   *)
(* is retry_attempt, missed the number of cycles without a renewal.  The    *)
(* task is over when renew is "off", or "expired" when it ended at its      *)
(* deadline.  stop and lockLost are the two events.                         *)
NoEnvelope == [msg |-> NoMessage, token |-> NoToken, renew |-> "off", attempt |-> 0,
               missed |-> 0, stop |-> FALSE, lockLost |-> FALSE]

Envelope == [msg      : Messages \cup {NoMessage},
             token    : Tokens \cup {NoToken},
             renew    : {"off", "wait", "sent", "retry", "expired"},
             attempt  : 0..MaxFastRetries,
             missed   : 0..1,
             stop     : BOOLEAN,
             lockLost : BOOLEAN]

TypeOK ==
  /\ QueueTypeOK
  /\ CallTypeOK
  /\ producer \in [Messages -> {"idle", "sending", "returned", "raised"}]
  /\ env \in [Calls -> Envelope]
  /\ done \subseteq Messages /\ cleared \subseteq Messages
  /\ failures \in [Messages -> 0..(MaxRetries + 2)]
  /\ owner \in [Messages -> Calls \cup {NoCall}]

Init ==
  /\ QueueInit /\ CallInit
  /\ producer = [m \in Messages |-> "idle"]
  /\ env = [c \in Calls |-> NoEnvelope]
  /\ done = {} /\ cleared = {}
  /\ failures = [m \in Messages |-> 0]
  /\ owner = [m \in Messages |-> NoCall]

------------------------------------------------------------------------------
(* Helpers *)

InUse == {queue[m].token : m \in Messages} \cup {env[c].token : c \in Calls}

(* Real tokens are never issued twice; here one that nobody holds may be.   *)
Fresh == CHOOSE t \in Tokens : t \notin InUse

CanIssue == \E t \in Tokens : t \notin InUse

HoldsValid(c) == Valid(env[c].msg, env[c].token)

RequestFails(c) == (~HoldsValid(c) \/ "failedCall" \in Faults) /\ UNCHANGED queue

LoopFree(c) == call[c].async \/ call[c].pc # "execute"

RenewalJoined(c) == env[c].renew \in {"off", "expired"}

(* Mutant: the renewal is not stopped when the call is left.                *)
Release_WithoutFinally(c) ==
  env' = IF RenewalJoined(c) THEN [env EXCEPT ![c] = NoEnvelope] ELSE env

(* The finally of receive_message: lock_stop_event is set and the renewal   *)
(* task awaited; the envelope lives until it has ended.                     *)
Release(c) ==
  env' = IF RenewalJoined(c) THEN [env EXCEPT ![c] = NoEnvelope]
                             ELSE [env EXCEPT ![c].stop = TRUE]

RenewalEnds(c, lockLost) ==
  env' = [env EXCEPT ![c] = IF call[c].pc = "idle"
                              THEN NoEnvelope
                              ELSE [@ EXCEPT !.renew = "off", !.attempt = 0, !.missed = 0,
                                             !.lockLost = lockLost]]

(* Mutant: lock_stop_event is never set by cancel_heartbeat().              *)
SetStop_Forgotten(c) == UNCHANGED env

SetStop(c) == env' = [env EXCEPT ![c].stop = TRUE]

------------------------------------------------------------------------------
(* The producer: push retries a send that raised, with the same MessageId   *)
(* (the attempts are not counted).  A response with an error status does    *)
(* not raise.                                                               *)

Sending(m) == producer[m] \in {"idle", "sending"}

SendReturns(m) ==
  /\ Sending(m)
  /\ producer' = [producer EXCEPT ![m] = "returned"]
  /\ \/ \E retries \in 0..MaxRetries : Accept(m, retries)
     \/ "errorStatus" \in Faults /\ UNCHANGED queue
  /\ UNCHANGED <<call, env, history>>

SendRaises(m) ==
  /\ Sending(m)
  /\ \E next \in {"sending", "raised"} : producer' = [producer EXCEPT ![m] = next]
  /\ \/ "failedCall" \in Faults /\ UNCHANGED queue
     \/ "lostReply" \in Faults /\ \E retries \in 0..MaxRetries : Accept(m, retries)
  /\ UNCHANGED <<call, env, history>>

Expire(m) ==
  /\ LockExpires(m)
  /\ UNCHANGED <<call, producer, env, history>>

Clear ==
  /\ "clear" \in Faults
  /\ Drain
  /\ cleared' = cleared \cup {m \in Messages : queue[m].place = "visible"}
  /\ UNCHANGED <<call, producer, env, done, failures, owner>>

------------------------------------------------------------------------------
(* Receiving and executing *)

Receive(c, m) ==
  /\ env[c] = NoEnvelope
  /\ CanIssue
  /\ PeekLock(m, Fresh)
  /\ Begin(c)
  /\ env' = [env EXCEPT ![c] = [NoEnvelope EXCEPT
                 !.msg = m, !.token = Fresh,
                 !.renew = IF WithHeartbeat THEN "wait" ELSE "off"]]
  /\ owner' = [owner EXCEPT ![m] = c]
  /\ UNCHANGED <<producer, done, failures, cleared>>

(* The message is locked, but the response reaches nobody.                  *)
ReceiveLost(m) ==
  /\ "lostReply" \in Faults
  /\ CanIssue
  /\ PeekLock(m, Fresh)
  /\ owner' = [owner EXCEPT ![m] = NoCall]
  /\ UNCHANGED <<call, producer, env, done, failures, cleared>>

Execute(c) ==
  /\ CallbackEnds(c)
  /\ done' = IF call'[c].cb = "ok" THEN done \cup {env[c].msg} ELSE done
  /\ failures' = IF call'[c].cb = "error" /\ failures[env[c].msg] < MaxRetries + 2
                   THEN [failures EXCEPT ![env[c].msg] = @ + 1] ELSE failures
  /\ UNCHANGED <<queue, producer, env, cleared, owner>>

ObserveCallback(c) ==
  /\ CallbackObserved(c, env[c].lockLost)
  /\ SetStop(c)
  /\ UNCHANGED <<queue, producer, history>>

ObserveLockLoss(c) ==
  /\ LockLossObserved(c, env[c].lockLost)
  /\ UNCHANGED <<queue, producer, env, history>>

Abandon(c) ==
  /\ Abandoned(c)
  /\ SetStop(c)
  /\ UNCHANGED <<queue, producer, history>>

CancelCall(c) ==
  /\ "cancelCallback" \in Faults
  /\ OuterCancelled(c)
  /\ UNCHANGED <<queue, producer, env, history>>

ObserveCancelledCallback(c) ==
  /\ CancelledCallbackObserved(c, env[c].lockLost)
  /\ SetStop(c)
  /\ UNCHANGED <<queue, producer, history>>

PropagateCancellation(c) ==
  /\ CancelledCallbackRaised(c)
  /\ Release(c)
  /\ UNCHANGED <<queue, producer, history>>

(* Cancelled while it awaits the renewal task (in cancel_heartbeat, or in   *)
(* the finally of receive_message): the cancellation is passed on to that   *)
(* task, which ends normally, and the call goes on as if nothing happened.  *)
CancelAwaitedRenewal(c) ==
  /\ "cancelLate" \in Faults
  /\ call[c].pc \in Stopping \cup {"idle"}
  /\ ~RenewalJoined(c) /\ env[c].stop
  /\ RenewalEnds(c, env[c].lockLost)
  /\ UNCHANGED <<queue, call, producer, history>>

CancelSettlement(c) ==
  /\ "cancelLate" \in Faults
  /\ call[c].pc \in Settling \ {"replace"}
  /\ CancelledLate(c)
  /\ Release(c)
  /\ UNCHANGED <<queue, producer, history>>

------------------------------------------------------------------------------
(* Settling *)

GiveUpLockLost(c) ==
  /\ RenewalJoined(c)
  /\ RaiseLockLost(c)
  /\ Release(c)
  /\ UNCHANGED <<queue, producer, history>>

StartSettlement(c) ==
  /\ RenewalJoined(c)
  /\ env[c].msg # NoMessage
  /\ ChooseSettlement(c, queue[env[c].msg].retries)
  /\ UNCHANGED <<queue, producer, env, history>>

(* Mutant: complete whatever delivery is current.                           *)
Complete_AnyDelivery(c) ==
  /\ Settled(c, "delete")
  /\ \/ Settle(env[c].msg, queue[env[c].msg].token, "gone")
     \/ RequestFails(c)
  /\ Release(c)
  /\ UNCHANGED <<producer, history>>

(* complete_message: a failure is logged by pull_and_execute.               *)
Complete(c) ==
  /\ Settled(c, "delete")
  /\ Settle(env[c].msg, env[c].token, "gone") \/ RequestFails(c)
  /\ Release(c)
  /\ UNCHANGED <<producer, history>>

(* Mutant: a failed dead-lettering is followed by a delete.                 *)
DeadLetter_ThenDelete(c) ==
  /\ Settled(c, "deadletter")
  /\ \/ Settle(env[c].msg, env[c].token, "dead")
     \/ "failedCall" \in Faults /\ Settle(env[c].msg, env[c].token, "gone")
  /\ Release(c)
  /\ UNCHANGED <<producer, history>>

(* deadletter_message: one management request; a failure is swallowed.      *)
DeadLetter(c) ==
  /\ Settled(c, "deadletter")
  /\ Settle(env[c].msg, env[c].token, "dead") \/ RequestFails(c)
  /\ Release(c)
  /\ UNCHANGED <<producer, history>>

(* unlock_message: a failure is logged by pull_and_execute.                 *)
Requeue(c) ==
  /\ Settled(c, "requeue")
  /\ Unlock(env[c].msg, env[c].token) \/ RequestFails(c)
  /\ Release(c)
  /\ UNCHANGED <<producer, history>>

(* replace() does nothing: the message stays locked until the lock expires, *)
(* and keeps its number of retries.                                         *)
Replace(c) ==
  /\ Settled(c, "replace")
  /\ Release(c)
  /\ UNCHANGED <<queue, producer, history>>

------------------------------------------------------------------------------
(* The renewal task *)

RenewSends(c) ==
  /\ LoopFree(c)
  /\ \/ env[c].renew = "wait" /\ ~env[c].stop
     \/ env[c].renew = "retry"
  /\ env' = [env EXCEPT ![c].renew = "sent"]
  /\ UNCHANGED <<queue, call, producer, history>>

RenewSucceeds(c) ==
  /\ env[c].renew = "sent" /\ HoldsValid(c)
  /\ IF env[c].stop THEN RenewalEnds(c, env[c].lockLost)
     ELSE env' = [env EXCEPT ![c].renew = "wait", ![c].attempt = 0, ![c].missed = 0]
  /\ UNCHANGED <<queue, call, producer, history>>

(* Mutant: a 404 is a failure like any other, and retried.                  *)
RenewRefused_Retried(c) ==
  /\ env[c].renew = "sent" /\ ~HoldsValid(c) /\ ~env[c].stop
  /\ env' = [env EXCEPT ![c].renew = "wait"]
  /\ UNCHANGED <<queue, call, producer, history>>

(* 404: the lock is lost, unless the message was just settled.              *)
RenewRefused(c) ==
  /\ env[c].renew = "sent" /\ ~HoldsValid(c)
  /\ RenewalEnds(c, env[c].lockLost \/ ~env[c].stop)
  /\ UNCHANGED <<queue, call, producer, history>>

(* Any other failure, before or after the request was applied.  The third   *)
(* in a row ends the cycle.  The lock counts as lost when the last renewal  *)
(* is longer ago than the lock duration: that depends on the time the       *)
(* requests took after one missed cycle (a cycle waits for half the         *)
(* duration), and is certain after two.                                     *)
RenewFails(c) ==
  /\ env[c].renew = "sent" /\ {"failedCall", "lostReply"} \cap Faults # {}
  /\ \/ env[c].stop /\ RenewalEnds(c, env[c].lockLost)
     \/ /\ ~env[c].stop /\ env[c].attempt < MaxFastRetries
        /\ env' = [env EXCEPT ![c].renew = "retry", ![c].attempt = @ + 1]
     \/ /\ ~env[c].stop /\ env[c].attempt = MaxFastRetries
        /\ \E overdue \in BOOLEAN :
             /\ env[c].missed = 1 => overdue
             /\ env' = [env EXCEPT ![c].renew = "wait", ![c].attempt = 0, ![c].missed = 1,
                                   ![c].lockLost = @ \/ overdue]
  /\ UNCHANGED <<queue, call, producer, history>>

RenewStops(c) ==
  /\ env[c].renew = "wait" /\ env[c].stop
  /\ RenewalEnds(c, env[c].lockLost)
  /\ UNCHANGED <<queue, call, producer, history>>

(* max_lock_renewal_seconds are over: nobody is told.                       *)
RenewalDeadline(c) ==
  /\ "deadline" \in Faults
  /\ env[c].renew = "wait" /\ LoopFree(c) /\ call[c].pc # "idle"
  /\ env' = [env EXCEPT ![c].renew = "expired"]
  /\ UNCHANGED <<queue, call, producer, history>>

------------------------------------------------------------------------------
Crash(c) ==
  /\ "crash" \in Faults
  /\ env[c] # NoEnvelope
  /\ Finish(c)
  /\ env' = [env EXCEPT ![c] = NoEnvelope]
  /\ UNCHANGED <<queue, producer, history>>

CallStep(c) ==
  \/ ObserveCallback(c) \/ ObserveLockLoss(c) \/ Abandon(c)
  \/ ObserveCancelledCallback(c) \/ PropagateCancellation(c)
  \/ GiveUpLockLost(c) \/ StartSettlement(c)
  \/ Complete(c) \/ DeadLetter(c) \/ Requeue(c) \/ Replace(c)

RenewalStep(c) ==
  \/ RenewSends(c) \/ RenewSucceeds(c) \/ RenewRefused(c) \/ RenewFails(c) \/ RenewStops(c)

Next ==
  \/ \E m \in Messages : SendReturns(m) \/ SendRaises(m) \/ Expire(m) \/ ReceiveLost(m)
  \/ \E c \in Calls, m \in Messages : Receive(c, m)
  \/ \E c \in Calls : \/ CallStep(c) \/ RenewalStep(c) \/ RenewalDeadline(c)
                      \/ Execute(c) \/ CancelCall(c) \/ CancelAwaitedRenewal(c)
                      \/ CancelSettlement(c) \/ Crash(c)
  \/ Clear

Spec == Init /\ [][Next]_vars

(* The event loop runs what can run, every request ends, a cancelled        *)
(* callback ends, and a lock that nobody renews expires.                    *)
Extended(m) == \E c \in Calls : env[c].msg = m /\ ~RenewalJoined(c) /\ HoldsValid(c)

Fairness ==
  /\ \A c \in Calls : /\ WF_vars(CallStep(c))
                      /\ WF_vars(RenewalStep(c))
                      /\ WF_vars(call[c].pc # "execute" /\ Execute(c))
  /\ \A m \in Messages : WF_vars(~Extended(m) /\ Expire(m))

FairSpec == Spec /\ Fairness

------------------------------------------------------------------------------
(* Properties *)

(* A task leaves the queue only after one of its callbacks returned, or by  *)
(* clear(); a dead-lettered one had no retries and was executed to an end,  *)
(* or the service gave up on it.                                            *)
NoTaskLost ==
  \A m \in Messages :
    /\ queue[m].place = "gone" => m \in done \cup cleared
    /\ queue[m].place = "dead" => \/ queue[m].retries = 0 /\ (failures[m] > 0 \/ m \in done)
                                  \/ queue[m].deliveries = MaxDeliveries

(* A task is removed by the call it is delivered to, as a success, or by    *)
(* clear(): never by a call whose lock has expired.                         *)
RemovedByItsOwner ==
  [][\A m \in Messages :
       queue[m].place # "gone" /\ queue'[m].place = "gone" =>
         \/ m \in cleared'
         \/ \E c \in Calls : /\ owner[m] = c /\ env[c].msg = m
                             /\ call[c].pc = "delete" /\ call[c].cb = "ok"]_vars

InProgress(m) == \E c \in Calls : call[c].pc # "idle" /\ env[c].msg = m

(* A locked message that no call works on is eventually unlocked or         *)
(* removed: unlike the storage queue's heartbeat, the renewal ends whatever *)
(* way the call is left.                                                    *)
UnattendedTaskReappears ==
  \A m \in Messages :
    (queue[m].place = "locked" /\ ~InProgress(m)) ~> (queue[m].place # "locked" \/ InProgress(m))

(* A call returns once its callback has ended or its lock is lost.          *)
CallReturns ==
  \A c \in Calls :
    (\/ call[c].cb \in Ended
     \/ call[c].async /\ call[c].pc = "execute" /\ env[c].lockLost) ~> (call[c].pc = "idle")

(* "the worker automatically cancels the in-progress task" when the lock is *)
(* lost: a call with a renewal task that executes without a lock stops      *)
(* executing, even if every renewal fails from now on, unless the renewal   *)
(* reaches its deadline.                                                    *)
LostLockNoticed ==
  \A c \in Calls :
    (call[c].pc = "execute" /\ call[c].async /\ ~RenewalJoined(c) /\ ~HoldsValid(c))
      ~> (call[c].pc # "execute" \/ env[c].renew = "expired")

==============================================================================
