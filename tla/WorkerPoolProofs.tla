--------------------------- MODULE WorkerPoolProofs ---------------------------
(***************************************************************************)
(* Theorems about WorkerPool, for any workers and bounds: its types, that a *)
(* worker that has left leaves no task running, that SIGUSR1 cancels no     *)
(* task, and that a stop that was asked for stands.                         *)
(***************************************************************************)
EXTENDS WorkerPool, TLAPS

(* As long as no exception has left launch_workers, a worker outside its    *)
(* loop's body has no task that runs.                                       *)
Quiet ==
  main = "running" =>
    \A w \in Workers :
      pc[w] \in {"top", "brace", "flag", "clear", "done"} => task[w] \in Outcomes \cup {"none"}

(* Only the metadata service's announcements make the poll touch an event.  *)
PollIdle == "PREEMPT" \notin asked => ~announced /\ ~byUs

(* Nobody wakes unless somebody asked; and SIGUSR1 alone, however often,    *)
(* leaves the flag down that lets a task be cancelled.                      *)
Untouched(w) ==
  /\ pc[w] \notin {"shutdown", "join"} /\ task[w] \notin {"joined", "cancelling"}
  /\ asked = {} => watch[w] \notin {"woken", "done"}

Graceful ==
  asked \subseteq {"USR1"} =>
    /\ asked = {} => ~shutdown /\ setting = 0
    /\ asked # {} => ~pass
    /\ \A w \in Workers : Untouched(w)

(* What a worker has seen still holds when it clears the event, unless a    *)
(* signal came in between.                                                  *)
SeenStillHolds ==
  ~raced =>
    \A w \in Workers : /\ pc[w] \in {"flag", "clear"} => ~hard
                       /\ pc[w] = "clear" => resume

IInv == TypeOK /\ Quiet /\ PollIdle /\ Graceful /\ SeenStillHolds /\ StopStands

------------------------------------------------------------------------------
(* What a request is.                                                       *)
LEMMA Requests ==
  /\ DOMAIN Request = {"TERM", "INT", "USR1", "USR2", "LIMIT"}
  /\ \A r \in DOMAIN Request : /\ Request[r].hard \in BOOLEAN /\ Request[r].resume \in BOOLEAN
                               /\ Request[r].pass \in BOOLEAN
  /\ \A r \in StopRequests : ~Request[r].resume
  /\ ~Request["USR1"].pass
  /\ Signals \subseteq DOMAIN Request /\ "LIMIT" \in DOMAIN Request
  /\ StopRequests \subseteq DOMAIN Request
<1>1. DOMAIN Request = {"TERM", "INT", "USR1", "USR2", "LIMIT"}
  BY DEF Request
<1>2. /\ Request["TERM"]  = [hard |-> FALSE, resume |-> TRUE,  pass |-> TRUE]
      /\ Request["INT"]   = [hard |-> TRUE,  resume |-> FALSE, pass |-> TRUE]
      /\ Request["USR1"]  = [hard |-> FALSE, resume |-> FALSE, pass |-> FALSE]
      /\ Request["USR2"]  = [hard |-> FALSE, resume |-> FALSE, pass |-> TRUE]
      /\ Request["LIMIT"] = [hard |-> FALSE, resume |-> FALSE, pass |-> TRUE]
  BY DEF Request
<1>3. \A r \in DOMAIN Request : /\ Request[r].hard \in BOOLEAN /\ Request[r].resume \in BOOLEAN
                                /\ Request[r].pass \in BOOLEAN
  <2> DEFINE Flags(x) == x.hard \in BOOLEAN /\ x.resume \in BOOLEAN /\ x.pass \in BOOLEAN
  <2>1. Flags(Request["TERM"]) /\ Flags(Request["INT"])
    BY <1>2
  <2>2. Flags(Request["USR1"])
    BY <1>2
  <2>3. Flags(Request["USR2"]) /\ Flags(Request["LIMIT"])
    BY <1>2
  <2>4. \A r \in DOMAIN Request : Flags(Request[r])
    <3> HIDE DEF Flags
    <3> QED BY <1>1, <2>1, <2>2, <2>3
  <2> QED BY <2>4
<1>4. ~Request["USR1"].pass
  BY <1>2
<1> QED BY <1>1, <1>3, <1>4 DEF StopRequests, Signals

(* Steps by what they leave alone *)

Asks == TimeLimit \/ \E s \in Signals : Signal(s)
AzureStep == Announce \/ Poll

LEMMA StepKinds ==
  ASSUME Next
  PROVE  /\ main = "running"
         /\ \/ Asks \/ HandlerSets \/ AzureStep \/ Return
            \/ \E w \in Workers : WorkerStep(w) \/ Watch(w) \/ TaskEnds(w)
BY DEF Next, Asks, AzureStep, Signal, TimeLimit, HandlerSets, Announce, Poll, Return, WorkerStep,
       Start, WakeToShutDown, WakeToFinish, WakeToResult, ShutdownReturns, Joined, Finished,
       BraceEnds, ReadFlag, ResumeWork, Watch, TaskEnds, LoopRuns

LEMMA AsksEffect ==
  ASSUME TypeOK, Asks
  PROVE  /\ \E r \in DOMAIN Request : ShutdownHandler(r)
         /\ timeUp' \in {timeUp, TRUE}
         /\ disturbances' \in {disturbances, disturbances + 1}
         /\ disturbances' # disturbances => disturbances < MaxDisturbances
         /\ raced' = (raced \/ ~LoopRuns)
BY Requests DEF Asks, Signal, TimeLimit, Disturb, TypeOK

(* Where a worker's step may take it.                                       *)
Places == {"top", "wait", "shutdown", "join", "graceful", "brace", "flag", "clear", "done"}
Watches == {"none", "created", "waiting", "woken", "done"}
Stages == {"none", "active", "joined", "cancelling"} \cup Outcomes

WorkerEffect(w) ==
  /\ \E p \in Places : pc' = [pc EXCEPT ![w] = p]
  /\ \E s \in Watches : watch' = [watch EXCEPT ![w] = s]
  /\ \E t \in Stages : task' = [task EXCEPT ![w] = t]
  /\ \E n \in 0..MaxConsecutiveFailures : failures' = [failures EXCEPT ![w] = n]
  /\ UNCHANGED <<hard, resume, pass, setting, raced, timeUp, announced, byUs, asked>>
  /\ disturbances' \in {disturbances, disturbances + 1}
  /\ disturbances' # disturbances => disturbances < MaxDisturbances
  /\ shutdown' # shutdown => pc[w] = "clear" /\ ~shutdown'
  /\ main' \in {"running", "raised"}

WorkerAction(w) == WorkerStep(w) \/ Watch(w) \/ TaskEnds(w)

LEMMA WorkerActionEffect ==
  ASSUME TypeOK, NEW w \in Workers, WorkerAction(w)
  PROVE  WorkerEffect(w)
<1>1. /\ pc \in [Workers -> Places] /\ watch \in [Workers -> Watches]
      /\ task \in [Workers -> Stages] /\ failures \in [Workers -> 0..MaxConsecutiveFailures]
      /\ MaxConsecutiveFailures \in Nat
  BY BoundsAssumption DEF TypeOK, Places, Watches, Stages
<1>2. /\ pc = [pc EXCEPT ![w] = pc[w]] /\ pc[w] \in Places
      /\ watch = [watch EXCEPT ![w] = watch[w]] /\ watch[w] \in Watches
      /\ task = [task EXCEPT ![w] = task[w]] /\ task[w] \in Stages
      /\ failures = [failures EXCEPT ![w] = failures[w]]
      /\ failures[w] \in 0..MaxConsecutiveFailures
  BY <1>1
<1>3. ASSUME NEW step \in Places, Leave(w, step)
      PROVE  /\ \E p \in Places : pc' = [pc EXCEPT ![w] = p]
             /\ \E s \in Watches : watch' = [watch EXCEPT ![w] = s]
             /\ \E t \in Stages : task' = [task EXCEPT ![w] = t]
  BY <1>2, <1>3 DEF Leave, Forget, Watches, Stages
<1>4. ASSUME AwaitHardStop(w)
      PROVE  /\ \E p \in Places : pc' = [pc EXCEPT ![w] = p]
             /\ \E s \in Watches : watch' = [watch EXCEPT ![w] = s]
             /\ \E t \in Stages : task' = [task EXCEPT ![w] = t]
  <2>1. CASE Leave(w, "done")
    BY <1>3, <2>1 DEF Places
  <2>2. CASE pc' = [pc EXCEPT ![w] = "brace"] /\ Forget(w) /\ UNCHANGED watch
    BY <1>2, <2>2 DEF Forget, Places, Stages
  <2> QED BY <1>4, <2>1, <2>2 DEF AwaitHardStop
<1>5. ASSUME TaskRaised(w), main = "running"
      PROVE  /\ \E p \in Places : pc' = [pc EXCEPT ![w] = p]
             /\ \E s \in Watches : watch' = [watch EXCEPT ![w] = s]
             /\ \E t \in Stages : task' = [task EXCEPT ![w] = t]
             /\ main' \in {"running", "raised"}
  BY <1>3, <1>4, <1>5 DEF TaskRaised, Raise, Places
<1>6. CASE Start(w)
  BY <1>2, <1>6 DEF Start, LoopRuns, WorkerEffect, Places, Watches, Stages, events, handlers,
      environment
<1>7. CASE WakeToShutDown(w)
  BY <1>2, <1>3, <1>7 DEF WakeToShutDown, Raise, LoopRuns, WorkerEffect, Places, Stages, events,
      handlers, environment
<1>8. CASE WakeToFinish(w)
  BY <1>2, <1>8 DEF WakeToFinish, LoopRuns, WorkerEffect, Places, events, handlers, environment
<1>9. CASE WakeToResult(w)
  <2>1. 0 \in 0..MaxConsecutiveFailures
    BY <1>1
  <2>2. \E n \in 0..MaxConsecutiveFailures : failures' = [failures EXCEPT ![w] = n]
    <3>1. failures[w] < MaxConsecutiveFailures => failures[w] + 1 \in 0..MaxConsecutiveFailures
      BY <1>1, <1>2
    <3> QED BY <1>2, <1>9, <2>1, <3>1 DEF WakeToResult
  <2>3. \/ TaskRaised(w)
        \/ Leave(w, "top") /\ UNCHANGED main
        \/ Raise(w)
    BY <1>9 DEF WakeToResult
  <2>4. main = "running" /\ UNCHANGED <<events, handlers, environment>>
    BY <1>9 DEF WakeToResult, LoopRuns
  <2> QED BY <1>3, <1>5, <2>2, <2>3, <2>4 DEF WorkerEffect, Raise, Places, events, handlers,
      environment
<1>10. CASE ShutdownReturns(w)
  BY <1>2, <1>4, <1>10 DEF ShutdownReturns, LoopRuns, WorkerEffect, Places, Stages, events,
      handlers, environment
<1>11. CASE Joined(w) \/ Finished(w)
  BY <1>2, <1>4, <1>5, <1>11 DEF Joined, Finished, LoopRuns, WorkerEffect, events, handlers,
      environment
<1>12. CASE BraceEnds(w) \/ ReadFlag(w) \/ ResumeWork(w)
  <2>1. /\ \/ \E step \in {"top", "done"} : Leave(w, step)
           \/ \E step \in {"flag", "clear"} :
                pc' = [pc EXCEPT ![w] = step] /\ UNCHANGED <<watch, task>>
        /\ shutdown' # shutdown => pc[w] = "clear" /\ ~shutdown'
        /\ main = "running"
        /\ UNCHANGED <<failures, hard, resume, pass, handlers, environment, main>>
    BY <1>12 DEF BraceEnds, ReadFlag, ResumeWork, LoopRuns, events
  <2>2. CASE \E step \in {"top", "done"} : Leave(w, step)
    <3>1. /\ \E p \in Places : pc' = [pc EXCEPT ![w] = p]
          /\ \E s \in Watches : watch' = [watch EXCEPT ![w] = s]
          /\ \E t \in Stages : task' = [task EXCEPT ![w] = t]
      BY <1>3, <2>2 DEF Places
    <3> QED BY <1>2, <2>1, <3>1 DEF WorkerEffect, handlers, environment
  <2>3. CASE \E step \in {"flag", "clear"} :
               pc' = [pc EXCEPT ![w] = step] /\ UNCHANGED <<watch, task>>
    BY <1>2, <2>1, <2>3 DEF WorkerEffect, Places, handlers, environment
  <2> QED BY <2>1, <2>2, <2>3
<1>13. CASE Watch(w)
  BY <1>2, <1>13 DEF Watch, LoopRuns, WorkerEffect, Watches, events, handlers, environment
<1>14. CASE TaskEnds(w)
  BY <1>2, <1>14 DEF TaskEnds, LoopRuns, WorkerEffect, Stages, Disturb, events, handlers
<1> QED BY <1>6, <1>7, <1>8, <1>9, <1>10, <1>11, <1>12, <1>13, <1>14 DEF WorkerAction, WorkerStep

(* What the end of a handler does: some wake up.                            *)
LEMMA HandlerSetsEffect ==
  ASSUME HandlerSets
  PROVE  /\ shutdown' = TRUE /\ watch' = Notified /\ setting > 0 /\ setting' = setting - 1
         /\ UNCHANGED <<pc, task, failures, hard, resume, pass, raced, timeUp, announced, byUs,
                        disturbances, asked, main>>
BY DEF HandlerSets, SetShutdown, environment

(* What a request and the metadata service do to the workers: some wake up. *)
LEMMA WakeEffect ==
  ASSUME TypeOK, NEW w \in Workers, Asks \/ HandlerSets \/ AzureStep \/ Return
  PROVE  UNCHANGED <<pc, task, failures>>
BY AsksEffect, HandlerSetsEffect DEF ShutdownHandler, AzureStep, Announce, Poll, Return,
    SetShutdown, workerVars, events

------------------------------------------------------------------------------
(* Types *)

LEMMA TypeStep == ASSUME TypeOK, Next PROVE TypeOK'
<1>0. MaxDisturbances \in Nat /\ MaxConsecutiveFailures \in Nat
  BY BoundsAssumption
<1>1. Notified \in [Workers -> Watches] /\ watch \in [Workers -> Watches]
  BY DEF TypeOK, Notified, Watches
<1>2. CASE Asks
  <2>1. PICK r \in DOMAIN Request : ShutdownHandler(r)
    BY <1>2, AsksEffect
  <2>2. UNCHANGED <<pc, task, failures>> /\ watch' \in [Workers -> Watches]
    BY <1>1, <2>1 DEF ShutdownHandler, workerVars
  <2>3. /\ resume' = Request[r].resume /\ pass' = Request[r].pass
        /\ hard' = (hard \/ Request[r].hard \/ shutdown) /\ shutdown' = shutdown
        /\ UNCHANGED <<announced, byUs>> /\ asked' = asked \cup {r}
        /\ setting' \in {setting, setting + 1}
    BY <2>1 DEF ShutdownHandler
  <2>4. resume' \in BOOLEAN /\ pass' \in BOOLEAN
    BY <2>3, Requests
  <2>5. hard' \in BOOLEAN /\ shutdown' \in BOOLEAN /\ raced' \in BOOLEAN /\ setting' \in Nat
    <3>1. raced' = (raced \/ ~LoopRuns)
      BY <1>2, AsksEffect
    <3> QED BY <2>3, <3>1 DEF TypeOK
  <2>6. announced' \in BOOLEAN /\ byUs' \in BOOLEAN /\ timeUp' \in BOOLEAN
    <3>1. timeUp' \in {timeUp, TRUE}
      BY <1>2, AsksEffect
    <3>2. announced \in BOOLEAN /\ byUs \in BOOLEAN /\ timeUp \in BOOLEAN
      BY DEF TypeOK
    <3> QED BY <2>3, <3>1, <3>2
  <2>7. main' \in {"running", "returned", "raised", "stopped"}
    BY <2>1 DEF ShutdownHandler, TypeOK
  <2>8. disturbances' \in 0..MaxDisturbances
    <3>1. /\ disturbances' \in {disturbances, disturbances + 1}
          /\ disturbances' # disturbances => disturbances < MaxDisturbances
      BY <1>2, AsksEffect
    <3> QED BY <1>0, <3>1 DEF TypeOK
  <2>9. asked' \subseteq DOMAIN Request \cup {"PREEMPT"}
    BY <2>3 DEF TypeOK
  <2> QED BY <2>2, <2>4, <2>5, <2>6, <2>7, <2>8, <2>9 DEF TypeOK, Places, Watches, Stages
<1>7. CASE HandlerSets
  <2>1. setting' \in Nat
    BY <1>7, HandlerSetsEffect DEF TypeOK
  <2> QED BY <1>1, <1>7, <2>1, HandlerSetsEffect DEF TypeOK, Watches
<1>3. CASE Announce
  BY <1>0, <1>3 DEF Announce, Disturb, TypeOK, workerVars, events, handlers
<1>4. CASE Poll
  BY <1>1, <1>4 DEF Poll, SetShutdown, TypeOK, Watches, handlers
<1>5. CASE Return
  BY <1>5 DEF Return, TypeOK, workerVars, events, handlers, environment
<1>6. ASSUME NEW w \in Workers, WorkerAction(w) PROVE TypeOK'
  <2>1. WorkerEffect(w)
    BY <1>6, WorkerActionEffect
  <2>2. /\ pc' \in [Workers -> Places] /\ watch' \in [Workers -> Watches]
        /\ task' \in [Workers -> Stages] /\ failures' \in [Workers -> 0..MaxConsecutiveFailures]
    BY <2>1 DEF WorkerEffect, TypeOK, Places, Watches, Stages
  <2>3. disturbances' \in 0..MaxDisturbances
    BY <1>0, <2>1 DEF WorkerEffect, TypeOK
  <2>4. shutdown' \in BOOLEAN
    <3>1. shutdown' = shutdown \/ shutdown' = FALSE
      BY <1>6 DEF WorkerAction, WorkerStep, Start, WakeToShutDown, WakeToFinish, WakeToResult,
                  ShutdownReturns, Joined, Finished, BraceEnds, ReadFlag, ResumeWork, Watch,
                  TaskEnds, events
    <3> QED BY <3>1 DEF TypeOK
  <2>5. /\ {hard', resume', pass', timeUp', announced', byUs', raced'} \subseteq BOOLEAN
        /\ setting' \in Nat
    BY <2>1 DEF WorkerEffect, TypeOK
  <2>6. main' \in {"running", "raised"} /\ asked' = asked
    BY <2>1 DEF WorkerEffect
  <2> QED BY <2>2, <2>3, <2>4, <2>5, <2>6 DEF TypeOK, Places, Watches, Stages
<1> QED BY <1>2, <1>3, <1>4, <1>5, <1>6, <1>7, StepKinds DEF AzureStep, WorkerAction

------------------------------------------------------------------------------
(* Workers and their tasks *)

(* A worker that goes back to its loop, braces or ends does so without a    *)
(* task, unless an exception took it out of launch_workers.                 *)
LEMMA QuietStep == ASSUME TypeOK, Quiet, Next PROVE Quiet'
<1> DEFINE QuietAt(w) == 
  pc[w] \in {"top", "brace", "flag", "clear", "done"} => task[w] \in Outcomes \cup {"none"}
<1> SUFFICES ASSUME main' = "running", NEW v \in Workers PROVE QuietAt(v)'
  BY DEF Quiet, Outcomes
<1>1. main = "running" /\ QuietAt(v)
  BY StepKinds DEF Quiet
<1>2. CASE Asks \/ HandlerSets \/ AzureStep \/ Return
  BY <1>1, <1>2, WakeEffect
<1>3. ASSUME NEW w \in Workers, WorkerAction(w), w # v PROVE QuietAt(v)'
  <2>1. pc'[v] = pc[v] /\ task'[v] = task[v]
    BY <1>3, WorkerActionEffect DEF WorkerEffect, TypeOK
  <2> QED BY <1>1, <2>1
<1>4. ASSUME WorkerAction(v) PROVE QuietAt(v)'
  <2>1. ASSUME NEW step, Leave(v, step), Ended(v) PROVE task'[v] = "none"
    BY <2>1 DEF Leave, Forget, TypeOK
  <2>2. ASSUME AwaitHardStop(v), Ended(v) \/ task[v] = "none" PROVE task'[v] = "none"
    BY <2>2 DEF AwaitHardStop, Leave, Forget, TypeOK
  <2>3. ASSUME TaskRaised(v) PROVE task'[v] = "none"
    BY <2>1, <2>2, <2>3 DEF TaskRaised, Raise, Ended, Outcomes
  <2>4. CASE Start(v)
    BY <1>1, <2>4 DEF Start, TypeOK
  <2>5. CASE WakeToShutDown(v)
    <3>1. pc'[v] = "shutdown"
      BY <2>5 DEF WakeToShutDown, Raise, TypeOK
    <3> QED BY <3>1
  <2>6. CASE WakeToFinish(v)
    BY <2>6 DEF WakeToFinish, TypeOK
  <2>7. CASE WakeToResult(v)
    BY <2>1, <2>3, <2>7 DEF WakeToResult, Raise
  <2>8. CASE ShutdownReturns(v)
    <3>1. CASE task[v] = "none"
      BY <2>2, <2>8, <3>1 DEF ShutdownReturns
    <3>2. CASE task[v] # "none"
      BY <2>8, <3>2 DEF ShutdownReturns, TypeOK
    <3> QED BY <3>1, <3>2
  <2>9. CASE Joined(v) \/ Finished(v)
    BY <2>2, <2>3, <2>9 DEF Joined, Finished
  <2>10. CASE BraceEnds(v) \/ ReadFlag(v) \/ ResumeWork(v)
    <3>1. task'[v] \in {task[v], "none"}
      BY <2>10 DEF BraceEnds, ReadFlag, ResumeWork, Leave, Forget, TypeOK
    <3>2. task[v] \in Outcomes \cup {"none"}
      BY <1>1, <2>10 DEF BraceEnds, ReadFlag, ResumeWork
    <3> QED BY <3>1, <3>2
  <2>11. CASE Watch(v)
    BY <1>1, <2>11 DEF Watch
  <2>12. CASE TaskEnds(v)
    BY <1>1, <2>12 DEF TaskEnds, TypeOK
  <2> QED BY <1>4, <2>4, <2>5, <2>6, <2>7, <2>8, <2>9, <2>10, <2>11, <2>12
          DEF WorkerAction, WorkerStep
<1> QED BY <1>2, <1>3, <1>4, StepKinds DEF WorkerAction

------------------------------------------------------------------------------
(* Requests *)

LEMMA PollIdleStep == ASSUME TypeOK, PollIdle, Next PROVE PollIdle'
<1>1. CASE Asks
  <2>1. UNCHANGED <<announced, byUs>> /\ asked \subseteq asked'
    BY <1>1, AsksEffect DEF ShutdownHandler
  <2> QED BY <2>1 DEF PollIdle
<1>6. CASE HandlerSets
  BY <1>6, HandlerSetsEffect DEF PollIdle
<1>2. CASE Announce
  BY <1>2 DEF Announce, PollIdle, TypeOK
<1>3. CASE Poll
  BY <1>3 DEF Poll, PollIdle, TypeOK
<1>4. CASE Return
  BY <1>4 DEF Return, PollIdle, environment
<1>5. ASSUME NEW w \in Workers, WorkerAction(w) PROVE PollIdle'
  BY <1>5, WorkerActionEffect DEF WorkerEffect, PollIdle
<1> QED BY <1>1, <1>2, <1>3, <1>4, <1>5, <1>6, StepKinds DEF AzureStep, WorkerAction

(* As long as no signal comes in a window, only a worker in its own window  *)
(* can have seen anything.                                                  *)
LEMMA SeenStillHoldsStep == ASSUME TypeOK, SeenStillHolds, Next PROVE SeenStillHolds'
<1> SUFFICES ASSUME ~raced', NEW v \in Workers
             PROVE  /\ pc'[v] \in {"flag", "clear"} => ~hard'
                    /\ pc'[v] = "clear" => resume'
  BY DEF SeenStillHolds
<1>1. CASE Asks
  <2>1. ~raced /\ LoopRuns /\ UNCHANGED pc
    BY <1>1, AsksEffect DEF ShutdownHandler, workerVars, TypeOK
  <2> QED BY <2>1 DEF LoopRuns
<1>2. CASE HandlerSets \/ AzureStep \/ Return
  <2>1. UNCHANGED <<pc, hard, resume, raced>>
    BY <1>2, HandlerSetsEffect DEF AzureStep, Announce, Poll, Return, workerVars, events, handlers
  <2> QED BY <2>1 DEF SeenStillHolds
<1>3. ASSUME NEW w \in Workers, WorkerAction(w)
      PROVE  /\ pc'[v] \in {"flag", "clear"} => ~hard'
             /\ pc'[v] = "clear" => resume'
  <2>1. WorkerEffect(w)
    BY <1>3, WorkerActionEffect
  <2>2. ~raced /\ hard' = hard /\ resume' = resume /\ (w # v => pc'[v] = pc[v])
    BY <2>1 DEF WorkerEffect, TypeOK
  <2>3. CASE w # v
    BY <2>2, <2>3 DEF SeenStillHolds
  <2>4. CASE w = v
    <3>1. CASE BraceEnds(v)
      <4>1. pc'[v] = "done" \/ (pc'[v] = "flag" /\ ~hard)
        BY <3>1 DEF BraceEnds, Leave, TypeOK
      <4> QED BY <2>2, <4>1, Zenon
    <3>2. CASE ReadFlag(v)
      <4>1. pc[v] = "flag" /\ (pc'[v] = "done" \/ (pc'[v] = "clear" /\ resume))
        BY <3>2 DEF ReadFlag, Leave, TypeOK
      <4>2. ~raced => ~hard
        BY <4>1 DEF SeenStillHolds
      <4> QED BY <2>2, <4>1, <4>2, Zenon
    <3>3. CASE ResumeWork(v) \/ Start(v) \/ WakeToShutDown(v) \/ WakeToFinish(v)
      BY <3>3 DEF ResumeWork, Start, WakeToShutDown, WakeToFinish, Raise, Leave, TypeOK
    <3>4. CASE WakeToResult(v) \/ ShutdownReturns(v) \/ Joined(v) \/ Finished(v)
      BY <3>4 DEF WakeToResult, ShutdownReturns, Joined, Finished, TaskRaised, AwaitHardStop,
                  Raise, Leave, TypeOK
    <3>5. CASE Watch(v) \/ TaskEnds(v)
      <4>1. LoopRuns /\ pc' = pc
        BY <3>5 DEF Watch, TaskEnds
      <4> QED BY <4>1 DEF LoopRuns
    <3> QED BY <1>3, <2>4, <3>1, <3>2, <3>3, <3>4, <3>5 DEF WorkerAction, WorkerStep
  <2> QED BY <2>3, <2>4
<1> QED BY <1>1, <1>2, <1>3, StepKinds DEF WorkerAction

(* A stop stands: a later request that would let the process resume finds   *)
(* the event set and makes the stop a hard one, and only a worker that may  *)
(* resume clears it.                                                        *)
LEMMA StopStandsStep ==
  ASSUME TypeOK, PollIdle, SeenStillHolds, StopStands, Next PROVE StopStands'
<1>1. CASE Asks
  <2> SUFFICES ASSUME ~raced', "PREEMPT" \notin asked', asked' \cap StopRequests # {}
               PROVE  (shutdown' \/ setting' > 0) /\ (hard' \/ ~resume')
    BY DEF StopStands
  <2>1. PICK r \in DOMAIN Request : ShutdownHandler(r)
    BY <1>1, AsksEffect
  <2>2. ~raced /\ setting = 0
    BY <1>1, AsksEffect DEF LoopRuns, TypeOK
  <2>3. /\ shutdown' = shutdown /\ asked' = asked \cup {r} /\ resume' = Request[r].resume
        /\ hard' = (hard \/ Request[r].hard \/ shutdown)
        /\ setting' = IF shutdown THEN setting ELSE setting + 1
    BY <2>1 DEF ShutdownHandler
  <2>4. shutdown' \/ setting' > 0
    BY <2>2, <2>3
  <2>5. CASE r \in StopRequests
    BY <2>3, <2>4, <2>5, Requests
  <2>6. CASE r \notin StopRequests
    <3>1. shutdown
      BY <2>2, <2>3, <2>6 DEF StopStands
    <3> QED BY <2>3, <2>4, <3>1
  <2> QED BY <2>5, <2>6
<1>2. CASE HandlerSets
  BY <1>2, HandlerSetsEffect DEF StopStands
<1>3. CASE Announce
  BY <1>3 DEF Announce, StopStands, PollIdle, TypeOK, events, handlers
<1>4. CASE Poll
  BY <1>4 DEF Poll, StopStands, PollIdle, SetShutdown, handlers
<1>5. CASE Return
  BY <1>5 DEF Return, StopStands, events, handlers, environment
<1>6. ASSUME NEW w \in Workers, WorkerAction(w) PROVE StopStands'
  <2>1. /\ UNCHANGED <<hard, resume, setting, raced, asked>>
        /\ shutdown' # shutdown => pc[w] = "clear" /\ ~shutdown'
    BY <1>6, WorkerActionEffect DEF WorkerEffect
  <2>2. CASE shutdown' = shutdown
    BY <2>1, <2>2 DEF StopStands
  <2>3. CASE shutdown' # shutdown
    <3>1. pc[w] = "clear"
      BY <2>1, <2>3
    <3>2. ~raced => ~hard /\ resume
      BY <3>1 DEF SeenStillHolds
    <3>3. ~raced => ~(asked \cap StopRequests # {} /\ "PREEMPT" \notin asked)
      BY <3>2 DEF StopStands
    <3> QED BY <2>1, <3>3 DEF StopStands
  <2> QED BY <2>2, <2>3
<1> QED BY <1>1, <1>2, <1>3, <1>4, <1>5, <1>6, StepKinds DEF AzureStep, WorkerAction

LEMMA GracefulStep == ASSUME TypeOK, PollIdle, Graceful, Next PROVE Graceful'
<1> SUFFICES ASSUME asked' \subseteq {"USR1"}
             PROVE  /\ asked' = {} => ~shutdown' /\ setting' = 0
                    /\ asked' # {} => ~pass'
                    /\ \A w \in Workers : Untouched(w)'
  BY DEF Graceful
<1>1. CASE Asks
  <2>1. PICK r \in DOMAIN Request : ShutdownHandler(r)
    BY <1>1, AsksEffect
  <2>2. /\ asked' = asked \cup {r} /\ pass' = Request[r].pass
        /\ UNCHANGED <<pc, task>>
    BY <2>1 DEF ShutdownHandler, workerVars
  <2>3. r = "USR1" /\ asked \subseteq {"USR1"} /\ asked' # {}
    BY <2>2
  <2>4. ~pass'
    BY <2>2, <2>3, Requests
  <2> QED BY <2>2, <2>3, <2>4 DEF Graceful, Untouched
<1>4. CASE HandlerSets
  <2>1. asked' = asked /\ pass' = pass /\ setting > 0 /\ pc' = pc /\ task' = task
    BY <1>4, HandlerSetsEffect
  <2>2. asked # {}
    BY <2>1 DEF Graceful
  <2>3. ~pass /\ \A w \in Workers : Untouched(w)
    BY <2>1, <2>2 DEF Graceful
  <2> QED BY <2>1, <2>2, <2>3 DEF Untouched
<1>2. CASE AzureStep \/ Return
  <2>1. /\ asked' = asked /\ shutdown' = shutdown /\ pass' = pass /\ setting' = setting
        /\ UNCHANGED <<pc, task, watch>>
    BY <1>2 DEF AzureStep, Announce, Poll, Return, PollIdle, TypeOK, workerVars, events, handlers,
                environment
  <2> QED BY <2>1 DEF Graceful, Untouched
<1>3. ASSUME NEW w \in Workers, WorkerAction(w)
      PROVE  /\ asked' = {} => ~shutdown' /\ setting' = 0
             /\ asked' # {} => ~pass'
             /\ \A v \in Workers : Untouched(v)'
  <2>1. WorkerEffect(w)
    BY <1>3, WorkerActionEffect
  <2>2. /\ asked' = asked /\ pass' = pass /\ setting' = setting
        /\ shutdown' # shutdown => ~shutdown'
    BY <2>1 DEF WorkerEffect
  <2>3. ASSUME NEW v \in Workers, v # w PROVE Untouched(v)'
    <3>1. pc'[v] = pc[v] /\ watch'[v] = watch[v] /\ task'[v] = task[v]
      BY <2>1, <2>3 DEF WorkerEffect, TypeOK
    <3> QED BY <2>2, <3>1 DEF Graceful, Untouched
  <2>4. Untouched(w) /\ (asked = {} => ~shutdown /\ setting = 0) /\ (asked # {} => ~pass)
    BY <2>2 DEF Graceful
  <2>5. /\ pc'[w] \notin {"shutdown", "join"} /\ task'[w] \notin {"joined", "cancelling"}
        /\ asked = {} => watch'[w] \notin {"woken", "done"}
    <3>1. ~WakeToShutDown(w) /\ ~ShutdownReturns(w) /\ ~Joined(w)
      BY <2>4 DEF WakeToShutDown, ShutdownReturns, Joined, Untouched
    <3>2. CASE Start(w) \/ WakeToFinish(w) \/ Watch(w)
      BY <2>4, <3>2 DEF Start, WakeToFinish, Watch, Untouched, TypeOK
    <3>3. CASE TaskEnds(w)
      BY <2>4, <3>3 DEF TaskEnds, Untouched, Outcomes, TypeOK
    <3>4. ASSUME NEW step \in {"top", "done"}, Leave(w, step)
          PROVE  /\ pc'[w] = step /\ watch'[w] = "none" /\ task'[w] \in {task[w], "none"}
      BY <3>4 DEF Leave, Forget, TypeOK
    <3>5. ASSUME AwaitHardStop(w)
          PROVE  /\ pc'[w] \in {"done", "brace"} /\ watch'[w] \in {watch[w], "none"}
                 /\ task'[w] \in {task[w], "none"}
      <4>1. CASE Leave(w, "done")
        BY <3>4, <4>1
      <4>2. CASE pc' = [pc EXCEPT ![w] = "brace"] /\ Forget(w) /\ UNCHANGED watch
        BY <4>2 DEF Forget, TypeOK
      <4> QED BY <3>5, <4>1, <4>2 DEF AwaitHardStop
    <3>6. CASE WakeToResult(w) \/ Finished(w) \/ BraceEnds(w) \/ ReadFlag(w) \/ ResumeWork(w)
      <4>1. \/ \E step \in {"top", "done"} : Leave(w, step)
            \/ AwaitHardStop(w)
            \/ \E step \in {"flag", "clear"} :
                 pc' = [pc EXCEPT ![w] = step] /\ UNCHANGED <<watch, task>>
        BY <3>6 DEF WakeToResult, Finished, BraceEnds, ReadFlag, ResumeWork, TaskRaised, Raise
      <4> QED BY <2>4, <3>4, <3>5, <4>1 DEF Untouched, TypeOK
    <3> QED BY <1>3, <3>1, <3>2, <3>3, <3>6 DEF WorkerAction, WorkerStep
  <2> QED BY <2>2, <2>3, <2>4, <2>5 DEF Untouched
<1> QED BY <1>1, <1>2, <1>3, <1>4, StepKinds DEF WorkerAction

------------------------------------------------------------------------------
(* The theorems *)

LEMMA InitIInv == Init => IInv
<1> SUFFICES ASSUME Init PROVE IInv
  OBVIOUS
<1>1. TypeOK
  <2>1. {shutdown, hard, resume, pass, timeUp, announced, byUs, raced} \subseteq BOOLEAN
    BY DEF Init
  <2>2. 0 \in 0..MaxConsecutiveFailures /\ 0 \in 0..MaxDisturbances
    BY BoundsAssumption
  <2> QED BY <2>1, <2>2 DEF Init, TypeOK
<1>2. Quiet /\ PollIdle /\ Graceful /\ SeenStillHolds /\ StopStands
  BY DEF Init, Quiet, PollIdle, Graceful, Untouched, SeenStillHolds, StopStands
<1> QED BY <1>1, <1>2 DEF IInv

(* All of it holds always.                                                  *)
THEOREM Invariance == Spec => []IInv
<1>1. IInv /\ Next => IInv'
  BY TypeStep, QuietStep, PollIdleStep, GracefulStep, SeenStillHoldsStep, StopStandsStep DEF IInv
<1>2. IInv /\ UNCHANGED vars => IInv'
  BY DEF vars, workerVars, events, handlers, environment, IInv, TypeOK, Quiet, PollIdle, Graceful,
         Untouched, SeenStillHolds, StopStands
<1>3. IInv /\ [Next]_vars => IInv'
  BY <1>1, <1>2
<1> QED BY InitIInv, <1>3, PTL DEF Spec

(* The types: the consecutive failures of a worker stay within the limit    *)
(* launch_workers was given.                                                *)
THEOREM TypeCorrectness == Spec => []TypeOK
<1>1. IInv => TypeOK
  BY DEF IInv
<1> QED BY Invariance, <1>1, PTL

(* A worker that braces or has ended leaves no task running behind, in      *)
(* whatever order shutdowns, results and cancellations came.                *)
THEOREM LeftIsQuiet == Spec => []QuietWhenLeft
<1>1. IInv => QuietWhenLeft
  BY DEF IInv, Quiet, QuietWhenLeft
<1> QED BY Invariance, <1>1, PTL

(* SIGUSR1 alone, however often and whenever it is sent, cancels no task.   *)
THEOREM GracefulIsGraceful == Spec => []GracefulNeverCancels
<1>1. IInv => GracefulNeverCancels
  BY DEF IInv, Graceful, Untouched, GracefulNeverCancels
<1> QED BY Invariance, <1>1, PTL

(* A stop that was asked for stands against any number of later requests    *)
(* and of workers that were waiting to resume, as long as no signal comes   *)
(* in one of the two windows StopStands names.                              *)
THEOREM StopsStand == Spec => []StopStands
<1>1. IInv => StopStands
  BY DEF IInv
<1> QED BY Invariance, <1>1, PTL
==============================================================================
