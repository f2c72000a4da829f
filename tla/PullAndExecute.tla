---------------------------- MODULE PullAndExecute ----------------------------
(***************************************************************************)
(* The control of JobQ.pull_and_execute (jobq.py), whatever the backend:    *)
(* how a call waits for the callback and for the loss of the lock, how it   *)
(* reacts to cancellation, and which settlement it chooses.  A backend      *)
(* module conjoins what the envelope does at each step.                     *)
(*                                                                          *)
(* A "call" is one invocation of pull_and_execute; call[c] is:              *)
(*   pc    where the coroutine is suspended                                 *)
(*   cb    the command callback's task                                      *)
(*   lost  the local variable lock_lost                                     *)
(*   async whether the callback is a coroutine function                     *)
(***************************************************************************)
EXTENDS Integers

CONSTANTS
  Calls,           \* invocations of pull_and_execute that may exist at once
  AsyncKinds       \* {TRUE}: callbacks are coroutine functions, {FALSE}: they are not

ASSUME AsyncKindsAssumption == AsyncKinds \subseteq BOOLEAN

VARIABLE call

(* What a callback task may have ended with; "canceled" is WorkerCanceled,  *)
(* "interrupted" is asyncio.CancelledError.                                 *)
Ended == {"ok", "error", "canceled", "interrupted"}

(* Suspended in cancel_heartbeat(), and in the settlement calls.            *)
Stopping == {"stopOk", "stopErr", "stopCanceled"}
Settling == {"delete", "deadletter", "drop", "replace", "requeue"}

(* "cancelled" and "abandon" wait for a callback they have just cancelled.  *)
Executing == {"execute", "cancelled", "abandon"}

Idle == [pc |-> "idle", cb |-> "none", lost |-> FALSE, async |-> FALSE]

Invocation == [pc    : {"idle"} \cup Executing \cup Stopping \cup Settling,
               cb    : {"none", "running"} \cup Ended,
               lost  : BOOLEAN,
               async : BOOLEAN]

CallTypeOK == call \in [Calls -> Invocation]

CallInit == call = [c \in Calls |-> Idle]

Finish(c) == call' = [call EXCEPT ![c] = Idle]

GoTo(c, step) == call' = [call EXCEPT ![c].pc = step]

(* cancel_heartbeat() is called, with lock_lost known to be lost or not.    *)
Stop(c, step, lost) == call' = [call EXCEPT ![c].pc = step, ![c].lost = lost]

(* A message was received: the callback starts.                             *)
Begin(c) ==
  /\ call[c].pc = "idle"
  /\ \E async \in AsyncKinds :
       call' = [call EXCEPT ![c] = [pc |-> "execute", cb |-> "running",
                                    lost |-> FALSE, async |-> async]]

(* The callback ends.  Only a callback that was cancelled can end with      *)
(* CancelledError; one that was cancelled may still end in any other way.   *)
CallbackEnds(c) ==
  /\ call[c].pc \in Executing /\ call[c].cb = "running"
  /\ \E result \in Ended :
       /\ result = "interrupted" => call[c].pc # "execute"
       /\ call' = [call EXCEPT ![c].cb = result]

(* Mutant: WorkerCanceled is taken for a success.                           *)
CallbackObserved_CanceledAsSuccess(c, lockLost) ==
  /\ call[c].pc = "execute"
  /\ \/ call[c].cb \in {"ok", "canceled"} /\ Stop(c, "stopOk", lockLost)
     \/ call[c].cb = "error"              /\ Stop(c, "stopErr", lockLost)

(* asyncio.wait returned, or the sync callback did: result() is returned or *)
(* raised, and lock_lost is sampled, except by the WorkerCanceled handler.  *)
CallbackObserved(c, lockLost) ==
  /\ call[c].pc = "execute"
  /\ \/ call[c].cb = "ok"       /\ Stop(c, "stopOk", lockLost)
     \/ call[c].cb = "error"    /\ Stop(c, "stopErr", lockLost)
     \/ call[c].cb = "canceled" /\ Stop(c, "stopCanceled", FALSE)

(* Mutant: asyncio.wait waits for the callback alone.                       *)
LockLossObserved_Ignored(c, lockLost) == FALSE

(* lock_lost_task is in done: the callback is cancelled and awaited.        *)
LockLossObserved(c, lockLost) ==
  /\ call[c].async
  /\ call[c].pc = "execute" /\ lockLost
  /\ GoTo(c, "abandon")

(* Whatever the callback raised is suppressed.                              *)
Abandoned(c) ==
  /\ call[c].pc = "abandon" /\ call[c].cb \in Ended
  /\ Stop(c, "stopOk", TRUE)

(* CancelledError in asyncio.wait: the callback is cancelled and awaited.   *)
OuterCancelled(c) ==
  /\ call[c].async
  /\ call[c].pc = "execute"
  /\ GoTo(c, "cancelled")

(* The awaited callback ended without CancelledError.  If it returned, the  *)
(* code goes on to read the unbound local "done": UnboundLocalError, which  *)
(* the handler takes for a failure of the callback.                         *)
CancelledCallbackObserved(c, lockLost) ==
  /\ call[c].pc = "cancelled"
  /\ \/ call[c].cb \in {"ok", "error"} /\ Stop(c, "stopErr", lockLost)
     \/ call[c].cb = "canceled"        /\ Stop(c, "stopCanceled", FALSE)

(* CancelledError from the callback: no handler, no cancel_heartbeat.       *)
CancelledCallbackRaised(c) ==
  /\ call[c].pc = "cancelled" /\ call[c].cb = "interrupted"
  /\ Finish(c)

(* CancelledError while suspended in cancel_heartbeat or a settlement.      *)
CancelledLate(c) ==
  /\ call[c].pc \in Stopping \cup Settling
  /\ Finish(c)

(* cancel_heartbeat() returned and the lock is known to be lost:            *)
(* LockLostError.                                                           *)
RaiseLockLost(c) ==
  /\ call[c].pc \in Stopping /\ call[c].lost
  /\ Finish(c)

(* Mutant: the retries are compared after the decrement.                    *)
ChooseSettlement_RetryTooFew(c, retries) ==
  /\ call[c].pc = "stopErr" /\ ~call[c].lost
  /\ IF retries - 1 <= 0 THEN GoTo(c, "deadletter") ELSE GoTo(c, "replace")

(* cancel_heartbeat() returned: the settlement the result calls for.        *)
ChooseSettlement(c, retries) ==
  /\ ~call[c].lost
  /\ \/ call[c].pc = "stopOk"                      /\ GoTo(c, "delete")
     \/ call[c].pc = "stopCanceled"                /\ GoTo(c, "requeue")
     \/ call[c].pc = "stopErr" /\ retries <= 0     /\ GoTo(c, "deadletter")
     \/ call[c].pc = "stopErr" /\ ~(retries <= 0)  /\ GoTo(c, "replace")

(* The dead letter was sent; delete(success=False) goes on to the delete.   *)
DeadLetterSent(c) ==
  /\ call[c].pc = "deadletter"
  /\ GoTo(c, "drop")

(* The last settlement call returned or raised: the invocation is over.     *)
Settled(c, step) == call[c].pc = step /\ Finish(c)
==============================================================================
