------------------------------ MODULE StorageJobQ ------------------------------
(***************************************************************************)
(* JobQ over Azure Storage queues: pull_and_execute (module PullAndExecute) *)
(* with StorageQueueEnvelope and the heartbeat task of storage_queue.py,    *)
(* against the queue service (module StorageQueueService).                  *)
(*                                                                          *)
(* Every invocation runs in a process of its own, which may crash.  An      *)
(* invocation and its heartbeat task are two threads of control of one      *)
(* event loop: they interleave at awaits only, and share the message object *)
(* (its pop_receipt) and three events.                                      *)
(***************************************************************************)
EXTENDS StorageQueueService, PullAndExecute

CONSTANTS
  NoMessage, NoCall,
  WithHeartbeat,   \* the with_heartbeat argument
  Faults           \* the events of the environment a run admits

FaultKinds == {"crash",           \* the process dies
               "cancelCallback",  \* the invocation is cancelled while it executes
               "cancelLate",      \* ... while it stops the heartbeat or settles
               "failedCall",      \* a request fails and is not applied
               "lostReply",       \* a request is applied, and fails for the client
               "clear"}           \* somebody empties the queue

ASSUME WithHeartbeatAssumption == WithHeartbeat \in BOOLEAN
ASSUME FaultsAssumption == Faults \subseteq FaultKinds
ASSUME NoMessageAssumption == NoMessage \notin Messages
ASSUME NoCallAssumption == NoCall \notin Calls

VARIABLES
  env,      \* env[c]: the envelope of call c and its heartbeat task
  dlq,      \* the tasks in the dead-letter queue
  \* History, read by no action:
  done,     \* the tasks one of whose callbacks has returned
  cleared,  \* the tasks removed by clear()
  owner,    \* owner[m]: the call that m was last delivered to
  unsure    \* the calls one of whose heartbeats was applied without a reply

vars == <<queue, call, env, dlq, done, cleared, owner, unsure>>
history == <<done, cleared, owner, unsure>>

(* hb is where the heartbeat task is suspended: "sleep" in wait_for, "sent" *)
(* and "applied" in update_message (before and after the service acts, the  *)
(* new receipt is in reply).  rcpt is message.pop_receipt, retries the      *)
(* num_retries of the content received, stop and lockLost the events        *)
(* cancel_heartbeat_event and lock_lost_event; heartbeat_cancelled_event is *)
(* set exactly when hb is "off".                                            *)
NoEnvelope == [msg |-> NoMessage, rcpt |-> NoReceipt, retries |-> 0, hb |-> "off",
               reply |-> NoReceipt, stop |-> FALSE, lockLost |-> FALSE]

Envelope == [msg      : Messages \cup {NoMessage},
             rcpt     : Receipts \cup {NoReceipt},
             retries  : 0..MaxRetries,
             hb       : {"off", "sleep", "sent", "applied"},
             reply    : Receipts \cup {NoReceipt},
             stop     : BOOLEAN,
             lockLost : BOOLEAN]

TypeOK ==
  /\ QueueTypeOK
  /\ CallTypeOK
  /\ env \in [Calls -> Envelope]
  /\ dlq \subseteq Messages /\ done \subseteq Messages /\ cleared \subseteq Messages
  /\ owner \in [Messages -> Calls \cup {NoCall}]
  /\ unsure \subseteq Calls

Init ==
  /\ QueueInit /\ CallInit
  /\ env = [c \in Calls |-> NoEnvelope]
  /\ dlq = {} /\ done = {} /\ cleared = {}
  /\ owner = [m \in Messages |-> NoCall]
  /\ unsure = {}

------------------------------------------------------------------------------
(* Helpers *)

InUse == {queue[m].receipt : m \in Messages}
           \cup UNION {{env[c].rcpt, env[c].reply} : c \in Calls}

(* The receipt the service issues next.  Real receipts are never issued     *)
(* twice; here one that nobody holds any more may be, which nobody can      *)
(* tell.  2 * |Calls| + |Messages| + 1 receipts are always enough.          *)
Fresh == CHOOSE r \in Receipts : r \notin InUse

CanIssue == \E r \in Receipts : r \notin InUse

HoldsValid(c) == Valid(env[c].msg, env[c].rcpt)

(* A request that presents the receipt of call c does nothing: refused by   *)
(* the service, or lost on the way.                                         *)
RequestFails(c) == (~HoldsValid(c) \/ "failedCall" \in Faults) /\ UNCHANGED queue

(* The invocation is over; its envelope lives on while its heartbeat does.  *)
Release(c) ==
  env' = IF env[c].hb = "off" THEN [env EXCEPT ![c] = NoEnvelope] ELSE env

HeartbeatEnds(c, lockLost) ==
  env' = [env EXCEPT ![c] = IF call[c].pc = "idle"
                              THEN NoEnvelope
                              ELSE [@ EXCEPT !.hb = "off", !.lockLost = lockLost]]

(* Mutant: cancel_heartbeat_event is never set.                             *)
SetStop_Forgotten(c) == UNCHANGED env

SetStop(c) == env' = [env EXCEPT ![c].stop = TRUE]

(* A callback that is not a coroutine blocks the event loop while it runs.  *)
LoopFree(c) == call[c].async \/ call[c].pc # "execute"

------------------------------------------------------------------------------
(* Producers and the service *)

Push(m) ==
  /\ \E retries \in 0..MaxRetries : SendMessage(m, retries)
  /\ UNCHANGED <<call, env, dlq, history>>

Expire(m) ==
  /\ VisibilityTimeout(m)
  /\ UNCHANGED <<call, env, dlq, history>>

Clear ==
  /\ "clear" \in Faults
  /\ ClearMessages
  /\ cleared' = cleared \cup {m \in Messages : Present(m)}
  /\ UNCHANGED <<call, env, dlq, done, owner, unsure>>

------------------------------------------------------------------------------
(* Receiving *)

Receive(c, m) ==
  /\ env[c] = NoEnvelope
  /\ CanIssue
  /\ ReceiveMessage(m, Fresh)
  /\ Begin(c)
  /\ env' = [env EXCEPT ![c] = [NoEnvelope EXCEPT
                 !.msg = m, !.rcpt = Fresh, !.retries = queue[m].retries,
                 !.hb = IF WithHeartbeat THEN "sleep" ELSE "off"]]
  /\ owner' = [owner EXCEPT ![m] = c]
  /\ unsure' = unsure \ {c}
  /\ UNCHANGED <<dlq, done, cleared>>

(* The message is handed out, but the response reaches nobody.              *)
ReceiveLost(m) ==
  /\ "lostReply" \in Faults
  /\ CanIssue
  /\ ReceiveMessage(m, Fresh)
  /\ owner' = [owner EXCEPT ![m] = NoCall]
  /\ UNCHANGED <<call, env, dlq, done, cleared, unsure>>

------------------------------------------------------------------------------
(* Executing *)

Execute(c) ==
  /\ CallbackEnds(c)
  /\ done' = IF call'[c].cb = "ok" THEN done \cup {env[c].msg} ELSE done
  /\ UNCHANGED <<queue, env, dlq, cleared, owner, unsure>>

ObserveCallback(c) ==
  /\ CallbackObserved(c, env[c].lockLost)
  /\ SetStop(c)
  /\ UNCHANGED <<queue, dlq, history>>

ObserveLockLoss(c) ==
  /\ LockLossObserved(c, env[c].lockLost)
  /\ UNCHANGED <<queue, env, dlq, history>>

Abandon(c) ==
  /\ Abandoned(c)
  /\ SetStop(c)
  /\ UNCHANGED <<queue, dlq, history>>

CancelCall(c) ==
  /\ "cancelCallback" \in Faults
  /\ OuterCancelled(c)
  /\ UNCHANGED <<queue, env, dlq, history>>

ObserveCancelledCallback(c) ==
  /\ CancelledCallbackObserved(c, env[c].lockLost)
  /\ SetStop(c)
  /\ UNCHANGED <<queue, dlq, history>>

(* The exception leaves receive_message through the bare yield of           *)
(* _heartbeat_worker: nobody sets cancel_heartbeat_event.                   *)
PropagateCancellation(c) ==
  /\ CancelledCallbackRaised(c)
  /\ Release(c)
  /\ UNCHANGED <<queue, dlq, history>>

CancelLate(c) ==
  /\ "cancelLate" \in Faults
  /\ CancelledLate(c)
  /\ Release(c)
  /\ UNCHANGED <<queue, dlq, history>>

------------------------------------------------------------------------------
(* Settling: cancel_heartbeat() waits for heartbeat_cancelled_event *)

(* Mutant: cancel_heartbeat() does not wait for an update in flight.        *)
HeartbeatCancelled_NotAwaited(c) == TRUE

HeartbeatCancelled(c) == env[c].hb = "off"

GiveUpLockLost(c) ==
  /\ HeartbeatCancelled(c)
  /\ RaiseLockLost(c)
  /\ Release(c)
  /\ UNCHANGED <<queue, dlq, history>>

StartSettlement(c) ==
  /\ HeartbeatCancelled(c)
  /\ ChooseSettlement(c, env[c].retries)
  /\ UNCHANGED <<queue, env, dlq, history>>

(* delete_message, of a success ("delete") or after the dead letter was     *)
(* sent ("drop").                                                           *)
Delete(c) ==
  /\ \E step \in {"delete", "drop"} : Settled(c, step)
  /\ DeleteMessage(env[c].msg, env[c].rcpt) \/ RequestFails(c)
  /\ Release(c)
  /\ UNCHANGED <<dlq, history>>

SendDeadLetter(c) ==
  /\ DeadLetterSent(c)
  /\ dlq' = dlq \cup {env[c].msg}
  /\ UNCHANGED <<queue, env, history>>

(* Mutant: the failure to dead-letter is swallowed, and the delete follows. *)
SendDeadLetterFails_Swallowed(c) ==
  /\ DeadLetterSent(c)
  /\ "failedCall" \in Faults
  /\ UNCHANGED <<queue, env, dlq, history>>

(* The send raises, with or without effect, and the exception propagates.   *)
SendDeadLetterFails(c) ==
  /\ Settled(c, "deadletter")
  /\ \/ "failedCall" \in Faults /\ UNCHANGED dlq
     \/ "lostReply" \in Faults /\ dlq' = dlq \cup {env[c].msg}
  /\ Release(c)
  /\ UNCHANGED <<queue, history>>

(* update_message with visibility_timeout=0.                                *)
PutBack(c, retries) ==
  \/ CanIssue /\ UpdateMessage(env[c].msg, env[c].rcpt, "visible", retries, Fresh)
  \/ RequestFails(c)

(* Mutant: a canceled task is pushed with its initial retries.              *)
Requeue_RestoresRetries(c) ==
  /\ Settled(c, "requeue")
  /\ PutBack(c, MaxRetries)
  /\ Release(c)
  /\ UNCHANGED <<dlq, history>>

Requeue(c) ==
  /\ Settled(c, "requeue")
  /\ PutBack(c, env[c].retries)
  /\ Release(c)
  /\ UNCHANGED <<dlq, history>>

Replace(c) ==
  /\ Settled(c, "replace")
  /\ PutBack(c, env[c].retries - 1)
  /\ Release(c)
  /\ UNCHANGED <<dlq, history>>

------------------------------------------------------------------------------
(* The heartbeat task *)

HeartbeatSends(c) ==
  /\ env[c].hb = "sleep" /\ ~env[c].stop /\ LoopFree(c)
  /\ env' = [env EXCEPT ![c].hb = "sent"]
  /\ UNCHANGED <<queue, call, dlq, history>>

(* Mutants: the heartbeat fetches the current receipt first; it writes the  *)
(* content with the default number of retries.                              *)
HeartbeatApplied_AnyReceipt(c) ==
  /\ env[c].hb = "sent" /\ CanIssue
  /\ UpdateMessage(env[c].msg, queue[env[c].msg].receipt, "hidden", env[c].retries, Fresh)
  /\ env' = [env EXCEPT ![c].hb = "applied", ![c].reply = Fresh]
  /\ UNCHANGED <<call, dlq, history>>

HeartbeatApplied_DefaultContent(c) ==
  /\ env[c].hb = "sent" /\ CanIssue
  /\ UpdateMessage(env[c].msg, env[c].rcpt, "hidden", MaxRetries, Fresh)
  /\ env' = [env EXCEPT ![c].hb = "applied", ![c].reply = Fresh]
  /\ UNCHANGED <<call, dlq, history>>

(* The update renews the visibility timeout and writes the content as it    *)
(* was received.                                                            *)
HeartbeatApplied(c) ==
  /\ env[c].hb = "sent"
  /\ CanIssue
  /\ UpdateMessage(env[c].msg, env[c].rcpt, "hidden", env[c].retries, Fresh)
  /\ env' = [env EXCEPT ![c].hb = "applied", ![c].reply = Fresh]
  /\ UNCHANGED <<call, dlq, history>>

HeartbeatReturns(c) ==
  /\ env[c].hb = "applied" /\ LoopFree(c)
  /\ env' = [env EXCEPT ![c].hb = "sleep", ![c].rcpt = env[c].reply, ![c].reply = NoReceipt]
  /\ UNCHANGED <<queue, call, dlq, history>>

(* A timeout or a connection error, before or after the update took effect: *)
(* logged, and tried again after the interval.                              *)
HeartbeatFails(c) ==
  /\ \/ env[c].hb = "sent" /\ "failedCall" \in Faults /\ UNCHANGED unsure
     \/ env[c].hb = "applied" /\ "lostReply" \in Faults /\ unsure' = unsure \cup {c}
  /\ env' = [env EXCEPT ![c].hb = "sleep", ![c].reply = NoReceipt]
  /\ UNCHANGED <<queue, call, dlq, done, cleared, owner>>

(* Status 400 or 404.                                                       *)
HeartbeatRefused(c) ==
  /\ env[c].hb = "sent" /\ ~HoldsValid(c)
  /\ HeartbeatEnds(c, TRUE)
  /\ UNCHANGED <<queue, call, dlq, history>>

HeartbeatStops(c) ==
  /\ env[c].hb = "sleep" /\ env[c].stop
  /\ HeartbeatEnds(c, env[c].lockLost)
  /\ UNCHANGED <<queue, call, dlq, history>>

------------------------------------------------------------------------------
(* The process dies, and with it the invocation and its heartbeat.          *)
Crash(c) ==
  /\ "crash" \in Faults
  /\ env[c] # NoEnvelope
  /\ Finish(c)
  /\ env' = [env EXCEPT ![c] = NoEnvelope]
  /\ UNCHANGED <<queue, dlq, history>>

CallStep(c) ==
  \/ ObserveCallback(c) \/ ObserveLockLoss(c) \/ Abandon(c)
  \/ ObserveCancelledCallback(c) \/ PropagateCancellation(c)
  \/ GiveUpLockLost(c) \/ StartSettlement(c)
  \/ Delete(c) \/ SendDeadLetter(c) \/ SendDeadLetterFails(c) \/ Requeue(c) \/ Replace(c)

HeartbeatStep(c) ==
  \/ HeartbeatSends(c) \/ HeartbeatApplied(c) \/ HeartbeatReturns(c)
  \/ HeartbeatFails(c) \/ HeartbeatRefused(c) \/ HeartbeatStops(c)

Next ==
  \/ \E m \in Messages : Push(m) \/ Expire(m) \/ ReceiveLost(m)
  \/ \E c \in Calls, m \in Messages : Receive(c, m)
  \/ \E c \in Calls : \/ CallStep(c) \/ HeartbeatStep(c)
                      \/ Execute(c) \/ CancelCall(c) \/ CancelLate(c) \/ Crash(c)
  \/ Clear

Spec == Init /\ [][Next]_vars

------------------------------------------------------------------------------
(* Fairness: the event loop runs every task that can run, and every request *)
(* comes to an end (the heartbeat's has a timeout).  A callback need not    *)
(* end by itself, but it does once it is cancelled.  A visibility timeout   *)
(* runs out when no heartbeat extends it.                                   *)
Extended(m) ==
  \E c \in Calls : /\ env[c].msg = m /\ env[c].hb # "off"
                   /\ Valid(m, env[c].rcpt) \/ Valid(m, env[c].reply)

Fairness ==
  /\ \A c \in Calls : /\ WF_vars(CallStep(c))
                      /\ WF_vars(HeartbeatStep(c))
                      /\ WF_vars(call[c].pc # "execute" /\ Execute(c))
  /\ \A m \in Messages : WF_vars(~Extended(m) /\ Expire(m))

FairSpec == Spec /\ Fairness

------------------------------------------------------------------------------
(* Properties *)

(* No task is lost: a pushed task leaves the queue only after one of its    *)
(* callbacks has returned, or it has been dead-lettered, or the queue was   *)
(* cleared, whatever crashes, cancellations and lost requests there were.   *)
NoTaskLost ==
  \A m \in Messages : queue[m].place = "gone" => m \in done \cup dlq \cup cleared

(* Fencing: only the call a message was last delivered to can hold a        *)
(* receipt the service accepts, so a call that lost its message to another  *)
(* one cannot delete it, put it back or extend it.                          *)
OnlyOwnerCanSettle ==
  \A c \in Calls : env[c].msg # NoMessage /\ HoldsValid(c) => owner[env[c].msg] = c

(* cancel_heartbeat() waits for an update in flight, so the settlement      *)
(* presents the receipt the heartbeat obtained last (the comment in         *)
(* _heartbeat's finally): a call that still owns its message can settle it, *)
(* unless the reply to a heartbeat was lost.                                *)
SettlesWithLatestReceipt ==
  \A c \in Calls :
    (/\ call[c].pc \in Settling
     /\ Present(env[c].msg) /\ owner[env[c].msg] = c /\ c \notin unsure)
       => HoldsValid(c)

(* A call that can settle knows the retries that are left: neither a        *)
(* heartbeat, nor a late replace or requeue restores or consumes a retry    *)
(* behind its back.                                                         *)
RetriesCurrent ==
  \A c \in Calls :
    env[c].msg # NoMessage /\ HoldsValid(c) => env[c].retries = queue[env[c].msg].retries

(* A task reaches the dead-letter queue only when no retry is left, and     *)
(* none comes back, even if the message survives because its delete failed. *)
DeadLetteredOutOfRetries ==
  \A m \in dlq : queue[m].retries = 0

(* Once a task is in the queue, no step changes its retries but by          *)
(* consuming one.                                                           *)
RetriesOnlyConsumed ==
  [][\A m \in Messages : queue[m].place # "new" =>
        queue'[m].retries \in {queue[m].retries, queue[m].retries - 1}]_vars

(* Everything together does to the tasks what TaskLedger promises.          *)
LedgerStatus ==
  [m \in Messages |-> CASE queue[m].place = "new"  -> "new"
                        [] queue[m].place = "gone" -> "removed"
                        [] OTHER                   -> "queued"]

Ledger == INSTANCE TaskLedger WITH
            status <- LedgerStatus,
            budget <- [m \in Messages |-> queue[m].retries],
            dead   <- dlq

ImplementsLedger == Ledger!Spec

(* Jobs reappear in the queue if a worker fails to complete them: a hidden  *)
(* message that no call is working on is eventually visible, or gone.       *)
InProgress(m) == \E c \in Calls : call[c].pc # "idle" /\ env[c].msg = m

UnattendedTaskReappears ==
  \A m \in Messages :
    (queue[m].place = "hidden" /\ ~InProgress(m)) ~> (queue[m].place # "hidden" \/ InProgress(m))

(* A call returns once its callback has ended or its lock is lost: the      *)
(* callback of a lost lock is cancelled, and cancel_heartbeat() does not    *)
(* wait for ever.                                                           *)
CallReturns ==
  \A c \in Calls :
    (\/ call[c].cb \in Ended
     \/ call[c].async /\ call[c].pc = "execute" /\ env[c].lockLost) ~> (call[c].pc = "idle")

------------------------------------------------------------------------------
(* The inductive invariant of the proofs in StorageJobQProofs               *)

(* An invocation or a heartbeat at work has a message that was pushed and   *)
(* received, and the receipt of that delivery or of a later heartbeat.      *)
Attached ==
  \A c \in Calls :
    /\ (call[c].pc # "idle" \/ env[c].hb # "off") => env[c].msg # NoMessage
    /\ env[c].msg # NoMessage => /\ env[c].rcpt # NoReceipt
                                 /\ queue[env[c].msg].place # "new"
    /\ (env[c].hb = "applied") <=> (env[c].reply # NoReceipt)
    /\ call[c].pc \in Settling => env[c].hb = "off"

(* The last receipt issued for a message was issued to its owner.           *)
Fenced ==
  \A c \in Calls, r \in Receipts :
    (env[c].msg # NoMessage /\ r \in {env[c].rcpt, env[c].reply} /\ Valid(env[c].msg, r))
      => owner[env[c].msg] = c

(* ... and unless a reply was lost, the owner has it or is about to.        *)
LatestReceiptHeld ==
  \A c \in Calls :
    (/\ env[c].msg # NoMessage /\ Present(env[c].msg)
     /\ owner[env[c].msg] = c /\ c \notin unsure)
       => Valid(env[c].msg, IF env[c].hb = "applied" THEN env[c].reply ELSE env[c].rcpt)

(* What the control state says of the past of the call's task.              *)
Justified ==
  \A c \in Calls :
    /\ call[c].pc = "idle" => call[c].cb = "none"
    /\ call[c].cb = "ok" => env[c].msg \in done
    /\ call[c].pc = "stopOk" /\ ~call[c].lost => call[c].cb = "ok"
    /\ call[c].pc = "delete" => call[c].cb = "ok"
    /\ call[c].pc \in {"deadletter", "drop"} => env[c].retries = 0
    /\ call[c].pc = "drop" => env[c].msg \in dlq
    /\ call[c].pc = "replace" => env[c].retries > 0

(* A stale delivery knows too many retries, a valid one the right number.   *)
RetriesKnown ==
  \A c \in Calls :
    env[c].msg # NoMessage =>
      /\ env[c].retries >= queue[env[c].msg].retries
      /\ \A r \in {env[c].rcpt, env[c].reply} \cap Receipts :
            Valid(env[c].msg, r) => env[c].retries = queue[env[c].msg].retries

DeadLettersExhausted ==
  \A m \in dlq : queue[m].place # "new" /\ queue[m].retries = 0

IInv ==
  /\ TypeOK /\ Attached /\ Fenced /\ LatestReceiptHeld
  /\ Justified /\ RetriesKnown /\ DeadLettersExhausted /\ NoTaskLost
==============================================================================
