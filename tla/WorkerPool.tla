------------------------------ MODULE WorkerPool ------------------------------
(***************************************************************************)
(* launch_workers (orchestration/manager.py): the worker coroutines of one  *)
(* process, the signal handlers and the time limit, the handler of          *)
(* preemptions announced by Azure (scheduled_events.py), and the two        *)
(* asyncio events through which they talk.                                  *)
(*                                                                          *)
(* A call of pull_and_execute is a task with an outcome here; its protocol  *)
(* is the subject of PullAndExecute.  Coroutines and callbacks of the event *)
(* loop interleave at awaits; signal handlers, which Python runs between    *)
(* two bytecodes of whatever is running, also cut through a coroutine's     *)
(* synchronous code and through each other.  The methods of asyncio.Event   *)
(* are taken as atomic.                                                     *)
(***************************************************************************)
EXTENDS Integers, FiniteSets

CONSTANTS
  Workers,
  MaxConsecutiveFailures,   \* the max_consecutive_failures argument
  MaxDisturbances           \* bound: signals, announcements and lost locks

ASSUME BoundsAssumption ==
  /\ MaxConsecutiveFailures \in Nat /\ MaxDisturbances \in Nat

VARIABLES
  pc,            \* pc[w]: where the coroutine worker(w) is suspended
  watch,         \* watch[w]: its shutdown_event_task
  task,          \* task[w]: its worker_task, a call of pull_and_execute
  failures,      \* failures[w]: num_consecutive_failures
  shutdown,      \* shutdown_event
  hard,          \* hard_stop_event
  resume,        \* flag_resume_if_not_killed
  pass,          \* flag_pass_signal_to_subprocess
  timeUp,        \* the time limit is over
  announced,     \* Azure announces a preemption of this node
  byUs,          \* _scheduled_event_initiated_by_us
  main,          \* launch_workers itself
  disturbances,  \* signals, announcements and lost locks so far
  setting,       \* calls of shutdown_handler yet to set a clear shutdown_event
  asked,         \* history: the requests made so far, PREEMPT by Azure
  raced          \* history: a signal was handled in the midst of other code

workerVars == <<pc, watch, task, failures>>
events == <<shutdown, hard, resume, pass>>
handlers == <<setting, raced>>
environment == <<timeUp, announced, byUs, disturbances, asked>>
vars == <<workerVars, events, handlers, environment, main>>

Outcomes == {"success", "failure", "canceled", "interrupted", "lockLost", "empty", "error"}

(* What a request means: <<hard, resume_if_not_killed,                      *)
(* pass_signal_to_subprocess>>.                                             *)
Request == [TERM  |-> [hard |-> FALSE, resume |-> TRUE,  pass |-> TRUE],
            INT   |-> [hard |-> TRUE,  resume |-> FALSE, pass |-> TRUE],
            USR1  |-> [hard |-> FALSE, resume |-> FALSE, pass |-> FALSE],
            USR2  |-> [hard |-> FALSE, resume |-> FALSE, pass |-> TRUE],
            LIMIT |-> [hard |-> FALSE, resume |-> FALSE, pass |-> TRUE]]

Signals == {"TERM", "INT", "USR1", "USR2"}

TypeOK ==
  /\ pc \in [Workers -> {"top", "wait", "shutdown", "join", "graceful", "brace", "flag", "clear",
                         "done"}]
  /\ watch \in [Workers -> {"none", "created", "waiting", "woken", "done"}]
  /\ task \in [Workers -> {"none", "active", "joined", "cancelling"} \cup Outcomes]
  /\ failures \in [Workers -> 0..MaxConsecutiveFailures]
  /\ {shutdown, hard, resume, pass, timeUp, announced, byUs, raced} \subseteq BOOLEAN
  /\ setting \in Nat
  /\ main \in {"running", "returned", "raised", "stopped"}
  /\ disturbances \in 0..MaxDisturbances
  /\ asked \subseteq DOMAIN Request \cup {"PREEMPT"}

Init ==
  /\ pc = [w \in Workers |-> "top"]
  /\ watch = [w \in Workers |-> "none"]
  /\ task = [w \in Workers |-> "none"]
  /\ failures = [w \in Workers |-> 0]
  /\ shutdown = FALSE /\ hard = FALSE /\ resume = TRUE /\ pass = TRUE
  /\ timeUp = FALSE /\ announced = FALSE /\ byUs = FALSE
  /\ main = "running"
  /\ disturbances = 0
  /\ setting = 0 /\ asked = {} /\ raced = FALSE

(* The event loop takes its next step: no worker is between two statements  *)
(* and no signal handler is running.                                        *)
LoopRuns ==
  main = "running" /\ setting = 0 /\ \A w \in Workers : pc[w] \notin {"flag", "clear"}

------------------------------------------------------------------------------
(* Events *)

(* shutdown_event.set() wakes every task that waits for it.                 *)
Notified == [w \in Workers |-> IF watch[w] = "waiting" THEN "woken" ELSE watch[w]]

(* Mutant: a flag in place of an event.                                     *)
SetShutdown_Silent == shutdown' = TRUE /\ UNCHANGED watch

SetShutdown == shutdown' = TRUE /\ watch' = Notified

Disturb == disturbances < MaxDisturbances /\ disturbances' = disturbances + 1

(* Mutant: the flags keep the defaults of a preemption.                     *)
ShutdownHandler_DefaultFlags(r) ==
  /\ hard' = (hard \/ Request[r].hard \/ shutdown)
  /\ main' = IF shutdown /\ (hard \/ Request[r].hard) THEN "stopped" ELSE main
  /\ setting' = IF shutdown THEN setting ELSE setting + 1
  /\ asked' = asked \cup {r}
  /\ UNCHANGED <<workerVars, shutdown, resume, pass, announced, byUs>>

(* Mutant: a second request is like the first.                              *)
ShutdownHandler_SecondIsSoft(r) ==
  /\ resume' = Request[r].resume /\ pass' = Request[r].pass
  /\ hard' = (hard \/ Request[r].hard)
  /\ main' = IF shutdown /\ hard THEN "stopped" ELSE main
  /\ setting' = IF shutdown THEN setting ELSE setting + 1
  /\ asked' = asked \cup {r}
  /\ UNCHANGED <<workerVars, shutdown, announced, byUs>>

(* shutdown_handler up to its test of shutdown_event: a second request      *)
(* makes the shutdown a hard one, and one more stops the event loop.  To    *)
(* set an event that is set already does nothing.  A signal within these    *)
(* lines finds what it would find after the handler: what it sets makes     *)
(* the interrupted handler the second request.                              *)
ShutdownHandler(r) ==
  /\ resume' = Request[r].resume /\ pass' = Request[r].pass
  /\ hard' = (hard \/ Request[r].hard \/ shutdown)
  /\ main' = IF shutdown /\ (hard \/ Request[r].hard) THEN "stopped" ELSE main
  /\ setting' = IF shutdown THEN setting ELSE setting + 1
  /\ asked' = asked \cup {r}
  /\ UNCHANGED <<workerVars, shutdown, announced, byUs>>

(* ... and its last line.                                                   *)
HandlerSets ==
  /\ main = "running" /\ setting > 0
  /\ SetShutdown
  /\ setting' = setting - 1
  /\ UNCHANGED <<pc, task, failures, hard, resume, pass, raced, environment, main>>

(* A signal is handled at once, whatever is running.                        *)
Signal(s) ==
  /\ main = "running"
  /\ ShutdownHandler(s)
  /\ raced' = (raced \/ ~LoopRuns)
  /\ Disturb
  /\ UNCHANGED timeUp

(* timeout_shutdown is a callback of the event loop.                        *)
TimeLimit ==
  /\ LoopRuns /\ ~timeUp
  /\ timeUp' = TRUE
  /\ ShutdownHandler("LIMIT")
  /\ UNCHANGED <<raced, disturbances>>

(* The metadata service changes its mind.                                   *)
Announce ==
  /\ main = "running"
  /\ announced' = ~announced
  /\ IF announced THEN UNCHANGED <<disturbances, asked>>
                  ELSE Disturb /\ asked' = asked \cup {"PREEMPT"}
  /\ UNCHANGED <<workerVars, events, handlers, timeUp, byUs, main>>

(* The callback of PreemptionEventHandler, once per poll.                   *)
Poll ==
  /\ LoopRuns
  /\ \/ announced /\ SetShutdown /\ byUs' = TRUE
     \/ ~announced /\ shutdown /\ byUs /\ shutdown' = FALSE /\ byUs' = FALSE /\ UNCHANGED watch
  /\ UNCHANGED <<pc, task, failures, hard, resume, pass, handlers, timeUp, announced, disturbances,
                 asked, main>>

------------------------------------------------------------------------------
(* worker_task *)

(* A task that nobody cancelled does not end with CancelledError; one that  *)
(* was cancelled has no empty queue to report.  A task starts after the     *)
(* shutdown_event_task that was created before it.                          *)
TaskEnds(w) ==
  /\ LoopRuns /\ watch[w] # "created"
  /\ task[w] \in {"active", "joined", "cancelling"}
  /\ \E outcome \in Outcomes :
       /\ outcome = "interrupted" => task[w] = "cancelling"
       /\ outcome = "empty" => task[w] # "cancelling"
       /\ task' = [task EXCEPT ![w] = outcome]
       /\ IF outcome = "lockLost" THEN Disturb ELSE UNCHANGED disturbances
  /\ UNCHANGED <<pc, watch, failures, events, handlers, timeUp, announced, byUs, asked, main>>

Ended(w) == task[w] \in Outcomes

------------------------------------------------------------------------------
(* worker *)

(* The end of an iteration of the loop: its finally cancels                 *)
(* shutdown_event_task, and the outcome of worker_task is history.          *)
Forget(w) == task' = [task EXCEPT ![w] = IF Ended(w) THEN "none" ELSE @]

Leave(w, step) ==
  /\ pc' = [pc EXCEPT ![w] = step]
  /\ watch' = [watch EXCEPT ![w] = "none"]
  /\ Forget(w)

(* An exception that worker() does not handle leaves launch_workers, which  *)
(* waits for no other worker.                                               *)
Raise(w) == Leave(w, "done") /\ main' = "raised"

(* The worker's own time limit starts, and is over, a little later than the *)
(* one whose timer calls the shutdown handler.                              *)
Start(w) ==
  /\ LoopRuns /\ pc[w] = "top"
  /\ \/ /\ timeUp
        /\ pc' = [pc EXCEPT ![w] = "done"]
        /\ UNCHANGED <<watch, task>>
     \/ /\ pc' = [pc EXCEPT ![w] = "wait"]
        /\ watch' = [watch EXCEPT ![w] = "created"]
        /\ task' = [task EXCEPT ![w] = "active"]
  /\ UNCHANGED <<failures, events, handlers, environment, main>>

(* shutdown_event_task: starts to wait if the event is not set; ends once   *)
(* woken, whether or not the event has been cleared since.                  *)
Watch(w) ==
  /\ LoopRuns /\ watch[w] \in {"created", "woken"}
  /\ watch' = [watch EXCEPT ![w] = IF @ = "woken" \/ shutdown THEN "done" ELSE "waiting"]
  /\ UNCHANGED <<pc, task, failures, events, handlers, environment, main>>

(* asyncio.wait returned: the shutdown has been requested, with the task to *)
(* be cancelled.  A task that is still pending now will be joined.  The     *)
(* assertion fails if another coroutine has cleared the event meanwhile.    *)
WakeToShutDown(w) ==
  /\ LoopRuns /\ pc[w] = "wait" /\ watch[w] = "done" /\ pass
  /\ IF shutdown
       THEN /\ pc' = [pc EXCEPT ![w] = "shutdown"]
            /\ task' = IF task[w] = "active" THEN [task EXCEPT ![w] = "joined"]
                                             ELSE [task EXCEPT ![w] = "none"]
            /\ UNCHANGED <<watch, main>>
       ELSE Raise(w)
  /\ UNCHANGED <<failures, events, handlers, environment>>

WakeToFinish(w) ==
  /\ LoopRuns /\ pc[w] = "wait" /\ watch[w] = "done" /\ ~pass
  /\ pc' = [pc EXCEPT ![w] = "graceful"]
  /\ UNCHANGED <<watch, task, failures, events, handlers, environment, main>>

(* wait_for_hard_stop returns at once, or waits (a signal between its two   *)
(* tests is as good as one before or after them).                           *)
AwaitHardStop(w) ==
  IF hard \/ ~resume THEN Leave(w, "done")
                     ELSE pc' = [pc EXCEPT ![w] = "brace"] /\ Forget(w) /\ UNCHANGED watch

(* What the exception of worker_task does, in whichever await it surfaces.  *)
TaskRaised(w) ==
  \/ task[w] = "lockLost" /\ Leave(w, "top")    /\ UNCHANGED main
  \/ task[w] = "empty"    /\ Leave(w, "done")   /\ UNCHANGED main
  \/ task[w] = "error"    /\ Raise(w)
  \/ task[w] = "canceled" /\ AwaitHardStop(w)   /\ UNCHANGED main

(* Mutant: one failure more before the worker gives up.                     *)
WakeToResult_OneFailureMore(w) ==
  /\ LoopRuns /\ pc[w] = "wait" /\ watch[w] # "done" /\ Ended(w)
  /\ \/ TaskRaised(w) /\ UNCHANGED failures
     \/ /\ task[w] = "success" /\ Leave(w, "top") /\ UNCHANGED main
        /\ failures' = [failures EXCEPT ![w] = 0]
     \/ /\ task[w] = "failure"
        /\ IF failures[w] <= MaxConsecutiveFailures
             THEN /\ Leave(w, "top") /\ UNCHANGED main
                  /\ failures' = [failures EXCEPT ![w] = @ + 1]
             ELSE Raise(w) /\ UNCHANGED failures
  /\ UNCHANGED <<events, handlers, environment>>

(* asyncio.wait returned for the task alone.                                *)
WakeToResult(w) ==
  /\ LoopRuns /\ pc[w] = "wait" /\ watch[w] # "done" /\ Ended(w)
  /\ \/ TaskRaised(w) /\ UNCHANGED failures
     \/ /\ task[w] = "success" /\ Leave(w, "top") /\ UNCHANGED main
        /\ failures' = [failures EXCEPT ![w] = 0]
     \/ /\ task[w] = "failure"
        /\ IF failures[w] < MaxConsecutiveFailures
             THEN /\ Leave(w, "top") /\ UNCHANGED main
                  /\ failures' = [failures EXCEPT ![w] = @ + 1]
             ELSE Raise(w) /\ UNCHANGED failures
  /\ UNCHANGED <<events, handlers, environment>>

(* Mutant: the pending task is cancelled and not awaited.                   *)
ShutdownReturns_NotAwaited(w) ==
  /\ LoopRuns /\ pc[w] = "shutdown"
  /\ pc' = [pc EXCEPT ![w] = IF hard \/ ~resume THEN "done" ELSE "brace"]
  /\ watch' = [watch EXCEPT ![w] = "none"]
  /\ task' = IF task[w] = "joined" THEN [task EXCEPT ![w] = "cancelling"] ELSE task
  /\ UNCHANGED <<failures, events, handlers, environment, main>>

(* processor.shutdown() returned: a pending task is cancelled and awaited.  *)
ShutdownReturns(w) ==
  /\ LoopRuns /\ pc[w] = "shutdown"
  /\ IF task[w] = "none"
       THEN AwaitHardStop(w)
       ELSE /\ pc' = [pc EXCEPT ![w] = "join"]
            /\ task' = IF task[w] = "joined" THEN [task EXCEPT ![w] = "cancelling"] ELSE task
            /\ UNCHANGED watch
  /\ UNCHANGED <<failures, events, handlers, environment, main>>

Joined(w) ==
  /\ LoopRuns /\ pc[w] = "join" /\ Ended(w)
  /\ \/ TaskRaised(w)
     \/ task[w] \in {"success", "failure", "interrupted"} /\ AwaitHardStop(w) /\ UNCHANGED main
  /\ UNCHANGED <<failures, events, handlers, environment>>

(* The task ran to its end; WorkerCanceled is raised in its place.          *)
Finished(w) ==
  /\ LoopRuns /\ pc[w] = "graceful" /\ Ended(w)
  /\ \/ TaskRaised(w)
     \/ task[w] \in {"success", "failure"} /\ AwaitHardStop(w) /\ UNCHANGED main
  /\ UNCHANGED <<failures, events, handlers, environment>>

(* The wait of wait_for_hard_stop is over: a hard stop, the event was       *)
(* cleared, or the timeout.  What holds now decides, whatever it was; a     *)
(* signal may still be handled between any two of these steps.              *)
BraceEnds(w) ==
  /\ LoopRuns /\ pc[w] = "brace"
  /\ IF hard THEN Leave(w, "done")
             ELSE pc' = [pc EXCEPT ![w] = "flag"] /\ UNCHANGED <<watch, task>>
  /\ UNCHANGED <<failures, events, handlers, environment, main>>

ReadFlag(w) ==
  /\ main = "running" /\ setting = 0 /\ pc[w] = "flag"
  /\ IF ~resume THEN Leave(w, "done")
                ELSE pc' = [pc EXCEPT ![w] = "clear"] /\ UNCHANGED <<watch, task>>
  /\ UNCHANGED <<failures, events, handlers, environment, main>>

ResumeWork(w) ==
  /\ main = "running" /\ setting = 0 /\ pc[w] = "clear"
  /\ Leave(w, "top") /\ shutdown' = FALSE
  /\ UNCHANGED <<failures, hard, resume, pass, handlers, environment, main>>

Return ==
  /\ LoopRuns /\ \A w \in Workers : pc[w] = "done"
  /\ main' = "returned"
  /\ UNCHANGED <<workerVars, events, handlers, environment>>

WorkerStep(w) ==
  \/ Start(w) \/ WakeToShutDown(w) \/ WakeToFinish(w) \/ WakeToResult(w)
  \/ ShutdownReturns(w) \/ Joined(w) \/ Finished(w)
  \/ BraceEnds(w) \/ ReadFlag(w) \/ ResumeWork(w)

Next ==
  \/ \E s \in Signals : Signal(s)
  \/ HandlerSets \/ TimeLimit \/ Announce \/ Poll \/ Return
  \/ \E w \in Workers : WorkerStep(w) \/ Watch(w) \/ TaskEnds(w)

Spec == Init /\ [][Next]_vars

(* The event loop runs every worker that can run; the preemption timeout    *)
(* runs out; a cancelled task ends.  A task that nobody cancels may run for *)
(* ever.                                                                    *)
Fairness ==
  /\ \A w \in Workers : /\ WF_vars(WorkerStep(w))
                        /\ WF_vars(Watch(w))
                        /\ WF_vars(task[w] = "cancelling" /\ TaskEnds(w))
  /\ WF_vars(HandlerSets)
  /\ WF_vars(Return)

FairSpec == Spec /\ Fairness

------------------------------------------------------------------------------
(* Properties *)

(* A worker that braces for its end, or has ended, has no task running: its *)
(* task was cancelled and awaited, or had ended (unless an exception of a   *)
(* worker has left launch_workers).                                         *)
QuietWhenLeft ==
  main = "running" =>
    \A w \in Workers :
      pc[w] \in {"brace", "flag", "clear", "done"} => task[w] \in Outcomes \cup {"none"}

(* SIGUSR1, "stop accepting new tasks", never cancels a running task: not    *)
(* when it is sent again, nor when it arrives while another worker ends.     *)
GracefulNeverCancels ==
  asked \subseteq {"USR1"} =>
    \A w \in Workers : pc[w] # "shutdown" /\ task[w] # "cancelling"

(* A stop that was asked for by the user, the workforce or the time limit    *)
(* stands: no SIGTERM before or after it, and no worker that still waits for *)
(* an earlier preemption, makes the process resume.  Not so if the metadata  *)
(* service is involved, whose handler clears events it did not set, or if a  *)
(* signal was handled in one of two windows (raced): between the last looks  *)
(* of wait_for_hard_stop at what was asked for and its clear(), which undoes *)
(* the request, and between the test and the set() of another handler, where *)
(* a SIGTERM overwrites the flag of a stop and is not the second request.    *)
StopRequests == {r \in DOMAIN Request : ~Request[r].resume}

StopStands ==
  asked \cap StopRequests # {} /\ "PREEMPT" \notin asked /\ ~raced =>
    (shutdown \/ setting > 0) /\ (hard \/ ~resume)

(* A request to stop is carried out: as long as it stands, every task is     *)
(* cancelled and all workers end, unless a worker had been asked to finish   *)
(* its task, which it then awaits and nothing interrupts.  (Locks are lost   *)
(* only so often, see MaxDisturbances.)                                      *)
StopRequested == shutdown /\ ~resume /\ pass /\ "USR1" \notin asked

ShutdownEnds == StopRequested ~> (main # "running" \/ ~StopRequested)


==============================================================================
