----------------------------- MODULE ProcessPool -----------------------------
(***************************************************************************)
(* The processor of a worker process (work.py): the ProcessPool shared by   *)
(* the worker coroutines, the pool processes that run one task each, and    *)
(* the shutdown protocol between them: SIGUSR1 to every pool process,       *)
(* SIGTERM from there to the command, SIGKILL after JOBQ_KILL_TIMEOUT, a    *)
(* new pool for the tasks that follow.                                      *)
(*                                                                          *)
(* kind is the processor in use: "shell" for ShellCommandProcessor, whose   *)
(* pool processes run run_cmd_and_log_outputs, and "callback" for           *)
(* SequentialProcessor, whose pool process calls a Python function.  The    *)
(* loop of a worker (orchestration/manager.py) is here as far as it uses    *)
(* the processor; WorkerPool is about its signals and flags.                *)
(***************************************************************************)
EXTENDS Integers, FiniteSets

CONSTANTS
  Workers,        \* the worker coroutines
  Nobody,         \* nobody waits for the call any more
  Kinds,          \* the processors looked at
  NPools,         \* bound: pools that exist at a time
  KillTimeout,    \* whether JOBQ_KILL_TIMEOUT is not 0
  MaxTasks,       \* bound: calls of the processor
  MaxShutdowns,   \* bound: shutdown requests
  MaxFaults       \* bound: pool processes lost, failures of the wait

ASSUME PoolAssumption ==
  /\ Nobody \notin Workers /\ IsFiniteSet(Workers)
  /\ Kinds \subseteq {"shell", "callback"}
  /\ NPools \in Nat \ {0} /\ KillTimeout \in BOOLEAN
  /\ {MaxTasks, MaxShutdowns, MaxFaults} \subseteq Nat

Pools == 1..NPools
Slots == 1..Cardinality(Workers)

VARIABLES
  kind,        \* the processor
  cur,         \* self.__pool
  inShutdown,  \* self._in_shutdown
  pool,        \* pool[g]: state of a ProcessPoolExecutor
  broken,      \* broken[g]: it raises BrokenProcessPool
  proc,        \* proc[g][s]: its processes
  ctl,         \* ctl[w]: where worker w is suspended
  waited,      \* waited[w]: the pool whose shutdown it waits for
  woken,       \* woken[w]: its wait for shutdown_event is over
  task,        \* task[w]: its worker_task
  where,       \* where[w]: the pool its call was submitted to
  result,      \* result[w]: what the future of the call holds
  verdict,     \* verdict[w]: how its last task ended
  told,        \* told[w]: its command was sent SIGTERM (history)
  event,       \* shutdown_event
  final,       \* no tasks after this shutdown
  leaving,     \* __aexit__ of the pool
  used         \* [tasks, shutdowns, faults] so far

pools == <<cur, pool, broken, proc>>
calls == <<task, where, result, verdict, told>>
loop  == <<ctl, waited, woken, event, final>>
vars  == <<kind, inShutdown, pools, calls, loop, leaving, used>>

(* A pool process.  at: "starting" the shell, "spawned" without a handler   *)
(* yet, "running", "silent" as it runs on with its streams closed, "exited" *)
(* with streams still open, "ended"; "orphaned" is a dead process whose     *)
(* command lives on.  timer is _terminated_at.                              *)
NoProcess == [at |-> "none", call |-> Nobody, handler |-> "default",
              timer |-> "off", code |-> "ok"]

Process ==
  [at: {"none", "free", "starting", "spawned", "running", "silent", "exited", "ended",
        "dead", "orphaned"},
   call: Workers \cup {Nobody}, handler: {"default", "stale", "own"},
   timer: {"off", "armed", "spent"}, code: {"ok", "bad"}]

Live(p) == p.at \notin {"none", "dead", "orphaned"}
Busy(p) == Live(p) /\ p.at # "free"

TypeOK ==
  /\ kind \in Kinds /\ cur \in Pools /\ inShutdown \in BOOLEAN
  /\ pool \in [Pools -> {"none", "open", "shut", "gone"}]
  /\ broken \in [Pools -> BOOLEAN]
  /\ proc \in [Pools -> [Slots -> Process]]
  /\ ctl \in [Workers -> {"loop", "kill", "nap", "brace", "left", "crashed"}]
  /\ waited \in [Workers -> Pools]
  /\ woken \in [Workers -> BOOLEAN]
  /\ task \in [Workers -> {"pull", "queued", "taken", "over"}]
  /\ where \in [Workers -> Pools]
  /\ result \in [Workers -> {"none", "ok", "bad", "raised", "canceled", "broken"}]
  /\ verdict \in [Workers -> {"none", "success", "failed", "canceled", "broken", "refused"}]
  /\ told \in [Workers -> BOOLEAN]
  /\ {event, final} \subseteq BOOLEAN /\ leaving \in {"no", "closing", "done"}
  /\ used \in [tasks: 0..MaxTasks, shutdowns: 0..MaxShutdowns, faults: 0..MaxFaults]

Init ==
  /\ kind \in Kinds
  /\ cur = 1 /\ inShutdown = FALSE
  /\ pool = [g \in Pools |-> IF g = 1 THEN "open" ELSE "none"]
  /\ broken = [g \in Pools |-> FALSE]
  /\ proc = [g \in Pools |-> [s \in Slots |-> NoProcess]]
  /\ ctl = [w \in Workers |-> "loop"] /\ waited = [w \in Workers |-> 1]
  /\ woken = [w \in Workers |-> FALSE] /\ task = [w \in Workers |-> "pull"]
  /\ where = [w \in Workers |-> 1] /\ result = [w \in Workers |-> "none"]
  /\ verdict = [w \in Workers |-> "none"] /\ told = [w \in Workers |-> FALSE]
  /\ event = FALSE /\ final = FALSE /\ leaving = "no"
  /\ used = [tasks |-> 0, shutdowns |-> 0, faults |-> 0]

Count(what) == used' = [used EXCEPT ![what] = @ + 1]

(***************************************************************************)
(* ProcessPool.submit.                                                      *)
(***************************************************************************)
QueuedIn(g) == {w \in Workers : task[w] = "queued" /\ where[w] = g}

(* pool_size: one process per worker, or one for all of them under a        *)
(* callback.                                                                *)
PoolSlots == {s \in Slots : kind = "shell" \/ s = 1}

NextSlot(g) == CHOOSE s \in PoolSlots : proc[g][s].at = "none"

(* The executor starts a process for a call that finds none free.           *)
Spawned(g, pending) ==
  IF \/ Cardinality({s \in Slots : proc[g][s].at = "free"}) >= pending
     \/ \A s \in PoolSlots : proc[g][s].at # "none"
  THEN proc[g]
  ELSE [proc[g] EXCEPT ![NextSlot(g)] = [NoProcess EXCEPT !.at = "free"]]

Over(w, v) ==
  /\ task' = [task EXCEPT ![w] = "over"]
  /\ where' = [where EXCEPT ![w] = 1]
  /\ verdict' = [verdict EXCEPT ![w] = v]
  /\ result' = [result EXCEPT ![w] = "none"]

Submit(w) ==
  /\ task[w] = "pull" /\ ctl[w] \in {"loop", "kill", "nap"} /\ used.tasks < MaxTasks
  /\ Count("tasks")
  /\ \/ /\ pool[cur] = "open" /\ ~broken[cur]
        /\ task' = [task EXCEPT ![w] = "queued"]
        /\ where' = [where EXCEPT ![w] = cur]
        /\ proc' = [proc EXCEPT ![cur] = Spawned(cur, Cardinality(QueuedIn(cur)) + 1)]
        /\ UNCHANGED <<result, verdict>>
     \/ broken[cur] /\ Over(w, "broken") /\ UNCHANGED proc
     \/ pool[cur] \in {"shut", "gone"} /\ ~broken[cur] /\ Over(w, "refused") /\ UNCHANGED proc
  /\ UNCHANGED <<kind, inShutdown, cur, pool, broken, told, loop, leaving>>

(* The call returns to the event loop.  An exit code is a return value, so  *)
(* it is looked at after _in_shutdown; an exception of the call and a       *)
(* broken pool are raised before.                                           *)
Answer(r) ==
  CASE r \in {"broken", "canceled"}        -> r
    [] r = "raised"                        -> "failed"
    [] r \in {"ok", "bad"} /\ inShutdown   -> "canceled"
    [] r = "ok" /\ ~inShutdown             -> "success"
    [] OTHER                               -> "failed"

SubmitReturns(w) ==
  /\ result[w] # "none" /\ ctl[w] \in {"loop", "kill", "nap"}
  /\ Over(w, Answer(result[w]))
  /\ UNCHANGED <<kind, inShutdown, pools, told, loop, leaving, used>>

(***************************************************************************)
(* A pool process.  Its steps change proc and deliver results.              *)
(***************************************************************************)
Set(g, s, p) == proc' = [proc EXCEPT ![g][s] = p]

OnlyProcess == UNCHANGED <<kind, inShutdown, cur, pool, broken, where, verdict, told, loop, leaving>>

(* It takes a call.  The handler of an earlier command is still installed.  *)
Take(g, s, w) ==
  /\ proc[g][s].at = "free" /\ w \in QueuedIn(g)
  /\ task' = [task EXCEPT ![w] = "taken"]
  /\ Set(g, s, [proc[g][s] EXCEPT !.at = IF kind = "shell" THEN "starting" ELSE "running",
                                  !.call = w])
  /\ OnlyProcess /\ UNCHANGED <<result, used>>

(* It puts its result; a call nobody waits for is dropped.                  *)
Returns(g, s, r) ==
  LET p == proc[g][s] IN
  /\ result' = IF p.call = Nobody THEN result ELSE [result EXCEPT ![p.call] = r]
  /\ Set(g, s, [p EXCEPT !.at = "free", !.call = Nobody, !.timer = "off", !.code = "ok",
                         !.handler = IF @ = "own" THEN "stale" ELSE @])
  /\ UNCHANGED task /\ OnlyProcess

(* terminated makes it WorkerCanceled, whatever the command returned.       *)
CommandResult_ExitCode(p) == p.code   \* mutant: terminated is not looked at

CommandResult(p) == IF p.timer # "off" THEN "canceled" ELSE p.code

ShellSpawns(g, s) ==
  /\ proc[g][s].at = "starting"
  /\ \/ Set(g, s, [proc[g][s] EXCEPT !.at = "spawned"]) /\ OnlyProcess /\ UNCHANGED <<task, result>>
     \/ Returns(g, s, "raised")
  /\ UNCHANGED used

HandlerInstalled(g, s) ==
  /\ proc[g][s].at = "spawned"
  /\ Set(g, s, [proc[g][s] EXCEPT !.at = "running", !.handler = "own"])
  /\ OnlyProcess /\ UNCHANGED <<task, result, used>>

(* A command that runs on may close its streams, as a daemon does; from     *)
(* then on all that is done is to wait for its end.                         *)
StreamsClose(g, s) ==
  /\ kind = "shell" /\ proc[g][s].at = "running"
  /\ Set(g, s, [proc[g][s] EXCEPT !.at = "silent"])
  /\ OnlyProcess /\ UNCHANGED <<task, result, used>>

(* The command ends with an exit code; a background child of it may keep    *)
(* the streams open.  A callback returns or raises.                         *)
CommandExits(g, s, code, open) ==
  /\ proc[g][s].at = "running" \/ (proc[g][s].at = "silent" /\ ~open)
  /\ \/ /\ kind = "shell"
        /\ Set(g, s, [proc[g][s] EXCEPT !.at = IF open THEN "exited" ELSE "ended", !.code = code])
        /\ OnlyProcess /\ UNCHANGED <<task, result>>
     \/ kind = "callback" /\ ~open /\ Returns(g, s, IF code = "ok" THEN "ok" ELSE "raised")
  /\ UNCHANGED used

(* _terminated_at is _kill_timeout seconds ago: SIGKILL, once, as long as   *)
(* the command's streams are open.                                          *)
Escalate(g, s) ==
  /\ KillTimeout /\ proc[g][s].at = "running" /\ proc[g][s].timer = "armed"
  /\ Set(g, s, [proc[g][s] EXCEPT !.at = "ended", !.code = "bad", !.timer = "spent"])
  /\ OnlyProcess /\ UNCHANGED <<task, result, used>>

(* The streams close, or drain_timeout is over and the group is killed.     *)
Drained_WaitsForEof(g, s) == FALSE   \* mutant: no drain_timeout

Drained(g, s) ==
  /\ proc[g][s].at = "exited"
  /\ Set(g, s, [proc[g][s] EXCEPT !.at = "ended"])
  /\ OnlyProcess /\ UNCHANGED <<task, result, used>>

CommandReturns(g, s) ==
  /\ proc[g][s].at = "ended"
  /\ Returns(g, s, CommandResult(proc[g][s]))
  /\ UNCHANGED used

(* An exception while waiting: the group is killed, and the return in the   *)
(* finally block replaces the exception: by ret when it is bound already    *)
(* (draining), else by the error that it is not; terminated comes first.    *)
WaitFails(g, s) ==
  LET p == proc[g][s] IN
  /\ kind = "shell" /\ p.at \in {"running", "silent", "exited"} /\ used.faults < MaxFaults
  /\ Count("faults")
  /\ Returns(g, s, IF p.timer # "off" \/ p.at = "exited" THEN CommandResult(p) ELSE "raised")

(* A pool process dies.  The executor breaks: it terminates the other       *)
(* processes, whose commands are in sessions of their own and go on, and    *)
(* every call of the pool raises BrokenProcessPool.                         *)
DeadProcess(p) ==
  IF ~Live(p) THEN p
  ELSE [NoProcess EXCEPT !.at = IF kind = "shell" /\ p.at \in {"spawned", "running", "silent"}
                                THEN "orphaned" ELSE "dead"]

CallsOf(g) == {w \in Workers : task[w] \in {"queued", "taken"} /\ where[w] = g}

Break(g) ==
  /\ broken' = [broken EXCEPT ![g] = TRUE]
  /\ result' = [w \in Workers |-> IF w \in CallsOf(g) /\ result[w] = "none"
                                  THEN "broken" ELSE result[w]]
  /\ task' = [w \in Workers |-> IF w \in CallsOf(g) THEN "taken" ELSE task[w]]

ProcessDies(g, s) ==
  /\ Live(proc[g][s]) /\ used.faults < MaxFaults
  /\ Count("faults")
  /\ proc' = [proc EXCEPT ![g] = [t \in Slots |-> DeadProcess(@[t])]]
  /\ Break(g)
  /\ UNCHANGED <<kind, inShutdown, cur, pool, where, verdict, told, loop, leaving>>

OrphanEnds(g, s) ==
  /\ proc[g][s].at = "orphaned"
  /\ Set(g, s, [proc[g][s] EXCEPT !.at = "dead"])
  /\ OnlyProcess /\ UNCHANGED <<task, result, used>>

(***************************************************************************)
(* kill_all_subprocesses, one call per worker that shuts down.              *)
(***************************************************************************)
(* SIGUSR1 in a pool process.  Without a handler it kills the process; the  *)
(* handler of an earlier command finds its process gone; the handler of     *)
(* this command notes the time and sends SIGTERM.                           *)
Handle(p) ==
  IF p.handler = "own" /\ Busy(p) THEN [p EXCEPT !.timer = "armed"] ELSE p

SignalKills(p) == Live(p) /\ p.handler = "default"

Signalled(g) ==
  /\ told' = [w \in Workers |-> told[w] \/ \E s \in Slots :
                /\ proc[g][s].call = w /\ proc[g][s].at \in {"running", "silent"}
                /\ proc[g][s].handler = "own"]
  /\ IF \E s \in Slots : SignalKills(proc[g][s])
     THEN /\ proc' = [proc EXCEPT ![g] = [s \in Slots |-> DeadProcess(@[s])]]
          /\ Break(g)
     ELSE /\ proc' = [proc EXCEPT ![g] = [s \in Slots |-> Handle(@[s])]]
          /\ UNCHANGED <<broken, result, task>>

KillBegins(w) ==
  /\ ctl[w] = "loop" /\ woken[w] /\ event
  /\ pool[cur] # "gone"
  /\ inShutdown' = TRUE
  /\ Signalled(cur)
  /\ ctl' = [ctl EXCEPT ![w] = "kill"]
  /\ waited' = [waited EXCEPT ![w] = cur]
  /\ UNCHANGED <<kind, cur, pool, where, verdict, woken, event, final, leaving, used>>

(* The loop over _processes raises when the pool was shut down and is not   *)
(* replaced yet; the assertion of the worker fails when another worker      *)
(* has resumed and cleared the event.                                       *)
WorkerCrashes(w) ==
  /\ ctl[w] = "loop" /\ woken[w]
  /\ \/ ~event /\ UNCHANGED inShutdown
     \/ event /\ pool[cur] = "gone" /\ inShutdown' = TRUE
  /\ ctl' = [ctl EXCEPT ![w] = "crashed"]
  /\ UNCHANGED <<kind, pools, calls, waited, woken, event, final, leaving, used>>

(* The thread that runs the shutdown of the pool marks it, then waits.      *)
PoolShutdownStarts(w) ==
  /\ ctl[w] = "kill" /\ pool[waited[w]] = "open"
  /\ pool' = [pool EXCEPT ![waited[w]] = "shut"]
  /\ UNCHANGED <<kind, inShutdown, cur, broken, proc, calls, loop, leaving, used>>

(* The executor is done when no call is left: its processes end (commands   *)
(* that outlived theirs are on their own).  A pool that nobody refers to    *)
(* any more ends the same way.                                              *)
Waiting(w) ==
  ctl[w] \in {"kill", "nap"} \/ (leaving = "closing" /\ ctl[w] \in {"left", "crashed"})

Referred(g) == g = cur \/ \E w \in Workers : Waiting(w) /\ waited[w] = g

PoolEnds(g) ==
  /\ pool[g] = "shut" \/ (pool[g] = "open" /\ ~Referred(g))
  /\ QueuedIn(g) = {}
  /\ broken[g] \/ \A s \in Slots : ~Busy(proc[g][s])
  /\ pool' = [pool EXCEPT ![g] = "gone"]
  /\ proc' = [proc EXCEPT ![g] = [s \in Slots |-> NoProcess]]
  /\ UNCHANGED <<kind, inShutdown, cur, broken, calls, loop, leaving, used>>

Unused == {g \in Pools : pool[g] \in {"none", "gone"} /\ ~Referred(g) /\ CallsOf(g) = {}}

NewPool == CHOOSE g \in Unused : TRUE

(* The pool it waited for is down: a new one takes the place of whatever    *)
(* pool is the current one by now.                                          *)
KillReturns_PoolForgotten(w) ==   \* mutant: __pool is None after the shutdown
  /\ ctl[w] = "kill" /\ pool[waited[w]] = "gone"
  /\ cur' = 0
  /\ ctl' = [ctl EXCEPT ![w] = "nap"]
  /\ UNCHANGED <<kind, inShutdown, pool, broken, proc, calls, waited, woken, event, final,
                 leaving, used>>

KillReturns_NoWait(w) ==   \* mutant: shutdown(wait=False)
  /\ ctl[w] = "kill" /\ pool[waited[w]] \in {"shut", "gone"} /\ Unused # {}
  /\ \E new \in Unused :
       /\ cur' = new
       /\ pool' = [pool EXCEPT ![new] = "open"]
       /\ broken' = [broken EXCEPT ![new] = FALSE]
       /\ proc' = [proc EXCEPT ![new] = [s \in Slots |-> NoProcess]]
  /\ ctl' = [ctl EXCEPT ![w] = "nap"]
  /\ UNCHANGED <<kind, inShutdown, calls, waited, woken, event, final, leaving, used>>

KillReturns(w) ==
  /\ ctl[w] = "kill" /\ pool[waited[w]] = "gone" /\ Unused # {}
  /\ cur' = NewPool
  /\ pool' = [pool EXCEPT ![NewPool] = "open"]
  /\ broken' = [broken EXCEPT ![NewPool] = FALSE]
  /\ proc' = [proc EXCEPT ![NewPool] = [s \in Slots |-> NoProcess]]
  /\ ctl' = [ctl EXCEPT ![w] = "nap"]
  /\ UNCHANGED <<kind, inShutdown, calls, waited, woken, event, final, leaving, used>>

(***************************************************************************)
(* The loop of a worker around the processor.                               *)
(***************************************************************************)
(* Its worker_task is cancelled: a queued call is withdrawn, a running one  *)
(* goes on without anybody waiting for it.                                  *)
CancelTask(w) ==
  /\ task' = [task EXCEPT ![w] = "over"]
  /\ verdict' = [verdict EXCEPT ![w] = IF task[w] = "over" THEN @ ELSE "canceled"]
  /\ result' = [result EXCEPT ![w] = "none"] /\ where' = [where EXCEPT ![w] = 1]
  /\ proc' = [g \in Pools |-> [s \in Slots |->
                IF proc[g][s].call = w THEN [proc[g][s] EXCEPT !.call = Nobody] ELSE proc[g][s]]]

(* kill_all_subprocesses has slept its second and returned.                 *)
TaskCancelled(w) ==
  /\ ctl[w] = "nap"
  /\ CancelTask(w)
  /\ ctl' = [ctl EXCEPT ![w] = "brace"]
  /\ UNCHANGED <<kind, inShutdown, cur, pool, broken, told, waited, woken, event, final,
                 leaving, used>>

Pulls(w) ==
  /\ task' = [task EXCEPT ![w] = "pull"]
  /\ verdict' = [verdict EXCEPT ![w] = "none"] /\ told' = [told EXCEPT ![w] = FALSE]

(* wait_for_hard_stop: the worker leaves, or it resumes the processor.      *)
Resumes_FlagKept(w) ==   \* mutant: the processor is not resumed
  /\ ctl[w] = "brace" /\ ~final
  /\ event' = FALSE
  /\ ctl' = [ctl EXCEPT ![w] = "loop"] /\ woken' = [woken EXCEPT ![w] = FALSE]
  /\ Pulls(w) /\ waited' = [waited EXCEPT ![w] = 1]
  /\ UNCHANGED <<kind, inShutdown, pools, where, result, final, leaving, used>>

Resumes(w) ==
  /\ ctl[w] = "brace" /\ ~final
  /\ event' = FALSE /\ inShutdown' = FALSE
  /\ ctl' = [ctl EXCEPT ![w] = "loop"] /\ woken' = [woken EXCEPT ![w] = FALSE]
  /\ Pulls(w) /\ waited' = [waited EXCEPT ![w] = 1]
  /\ UNCHANGED <<kind, pools, where, result, final, leaving, used>>

Leaves(w) ==
  /\ \/ ctl[w] = "brace" /\ final
     \/ ctl[w] = "loop" /\ task[w] = "pull" /\ ~woken[w]   \* EmptyQueue
  /\ ctl' = [ctl EXCEPT ![w] = "left"]
  /\ task' = [task EXCEPT ![w] = "over"] /\ woken' = [woken EXCEPT ![w] = FALSE]
  /\ verdict' = [verdict EXCEPT ![w] = "none"] /\ told' = [told EXCEPT ![w] = FALSE]
  /\ waited' = [waited EXCEPT ![w] = 1]
  /\ UNCHANGED <<kind, inShutdown, pools, where, result, event, final, leaving, used>>

(* The task is over before a shutdown: WorkerCanceled, or the next one.     *)
NextTask(w) ==
  /\ ctl[w] = "loop" /\ task[w] = "over" /\ ~woken[w]
  /\ \/ /\ verdict[w] = "canceled"
        /\ ctl' = [ctl EXCEPT ![w] = "brace"]
        /\ UNCHANGED <<task, verdict, told, woken>>
     \/ /\ verdict[w] # "canceled"
        /\ Pulls(w) /\ woken' = [woken EXCEPT ![w] = event]
        /\ UNCHANGED ctl
  /\ UNCHANGED <<kind, inShutdown, pools, where, result, waited, event, final, leaving, used>>

(* shutdown_handler, for the requests that interrupt tasks; f: the process  *)
(* is not to resume (see StopStands of WorkerPool).                         *)
ShutdownRequested(f) ==
  /\ used.shutdowns < MaxShutdowns /\ leaving = "no" /\ \E w \in Workers : ctl[w] = "loop"
  /\ Count("shutdowns")
  /\ event' = TRUE /\ final' = (final \/ f)
  /\ woken' = [w \in Workers |-> woken[w] \/ ctl[w] = "loop"]
  /\ UNCHANGED <<kind, inShutdown, pools, calls, ctl, waited, leaving>>

(* launch_workers ends, with the last worker or with the first exception,   *)
(* and the context of the pool is left; the loop cancels what remains.      *)
PoolExits ==
  /\ leaving = "no"
  /\ (\A w \in Workers : ctl[w] = "left") \/ (\E w \in Workers : ctl[w] = "crashed")
  /\ leaving' = "closing"
  /\ pool' = [pool EXCEPT ![cur] = IF @ = "open" THEN "shut" ELSE @]
  /\ waited' = [w \in Workers |-> IF ctl[w] \in {"left", "crashed"} THEN cur ELSE waited[w]]
  /\ UNCHANGED <<kind, inShutdown, cur, broken, proc, calls, ctl, woken, event, final, used>>

PoolExited ==
  /\ leaving = "closing"
  /\ \E w \in Workers : ctl[w] \in {"left", "crashed"} /\ pool[waited[w]] = "gone"
  /\ leaving' = "done"
  /\ UNCHANGED <<kind, inShutdown, pools, calls, loop, used>>

CancelledAtExit(w) ==
  /\ leaving = "done" /\ ctl[w] \in {"loop", "kill", "nap", "brace"}
  /\ CancelTask(w)
  /\ ctl' = [ctl EXCEPT ![w] = "left"]
  /\ UNCHANGED <<kind, inShutdown, cur, pool, broken, told, waited, woken, event, final,
                 leaving, used>>

Finished ==
  /\ leaving = "done" /\ \A w \in Workers : ctl[w] \in {"left", "crashed"}
  /\ UNCHANGED vars

ProcessStep(g, s) ==
  \/ \E w \in Workers : Take(g, s, w)
  \/ ShellSpawns(g, s) \/ HandlerInstalled(g, s) \/ StreamsClose(g, s)
  \/ \E code \in {"ok", "bad"}, open \in BOOLEAN : CommandExits(g, s, code, open)
  \/ Escalate(g, s) \/ Drained(g, s) \/ CommandReturns(g, s)
  \/ WaitFails(g, s) \/ ProcessDies(g, s) \/ OrphanEnds(g, s)

WorkerStep(w) ==
  \/ Submit(w) \/ SubmitReturns(w) \/ KillBegins(w) \/ WorkerCrashes(w)
  \/ PoolShutdownStarts(w) \/ KillReturns(w) \/ TaskCancelled(w) \/ Resumes(w)
  \/ Leaves(w) \/ NextTask(w) \/ CancelledAtExit(w)

Next ==
  \/ \E g \in Pools, s \in Slots : ProcessStep(g, s)
  \/ \E g \in Pools : PoolEnds(g)
  \/ \E w \in Workers : WorkerStep(w)
  \/ \E f \in BOOLEAN : ShutdownRequested(f)
  \/ PoolExits \/ PoolExited \/ Finished

Spec == Init /\ [][Next]_vars

(* The pool processes, the executor and the event loop keep running.        *)
(* Nothing is assumed of commands: they may ignore SIGTERM for ever, with   *)
(* their streams open or closed.                                            *)
Fairness ==
  /\ \A g \in Pools, s \in Slots :
       WF_vars(Escalate(g, s) \/ Drained(g, s) \/ CommandReturns(g, s))
  /\ \A g \in Pools : WF_vars(PoolEnds(g))
  /\ \A w \in Workers : WF_vars(KillReturns(w))

FairSpec == Spec /\ Fairness

(***************************************************************************)
(* Properties.                                                              *)
(***************************************************************************)
(* A task whose command was running under its own handler when a shutdown   *)
(* signalled the pool never counts as done, nor as failed on its exit code, *)
(* whatever worker resumes the processor in the meantime: it is given back, *)
(* or fails because the pool broke under it.                                *)
InterruptedIsGivenBack ==
  \A w \in Workers : told[w] /\ task[w] = "over" => verdict[w] \in {"canceled", "broken"}

(* Workers kill and replace the shared pool without a lock.  Still new calls *)
(* never go to a stopped pool for good: some worker is about to replace it, *)
(* or the process is ending.  And a worker that cancels its task after      *)
(* kill_all_subprocesses leaves a command running that nobody waits for     *)
(* only if the call went to another pool than the one it waited for.        *)
PoolReplacedWhenDone ==
  /\ pool[cur] \in {"shut", "gone"} =>
       leaving # "no" \/ \E w \in Workers : ctl[w] = "kill" /\ waited[w] = cur
  /\ \A w \in Workers :
       ctl[w] = "nap" /\ task[w] \in {"queued", "taken"} /\ result[w] = "none"
         => where[w] # waited[w]

(* _in_shutdown, which turns every result into WorkerCanceled, does not     *)
(* outlive the shutdowns: with no shutdown announced, none being handled    *)
(* and no worker crashed, it is clear.                                      *)
ShutdownFlagClears ==
  inShutdown => \/ event
                \/ \E w \in Workers : ctl[w] \in {"kill", "nap", "brace", "crashed"}
                \/ leaving # "no"

(* Once every command of a stopped pool has been told to stop, the workers  *)
(* that wait for the pool get to go on, even if the commands ignore         *)
(* SIGTERM, leave children behind or are signalled again by other workers.  *)
(* Not so if one ignores SIGTERM and has closed its streams, as nothing     *)
(* sends SIGKILL to it.                                                     *)
AllTold(g) ==
  /\ pool[g] \in {"shut", "gone"} /\ QueuedIn(g) = {}
  /\ \A s \in Slots : Busy(proc[g][s]) =>
       \/ proc[g][s].at \in {"exited", "ended"}
       \/ proc[g][s].at = "running" /\ proc[g][s].timer = "armed"

OnlyToReturn(w) == ctl[w] = "kill" /\ AllTold(waited[w])

ShutdownReturns ==
  (\E w \in Workers : OnlyToReturn(w)) ~> (\A w \in Workers : ~OnlyToReturn(w))
==============================================================================
