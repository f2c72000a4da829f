# Formal model of ai4s-jobq

TLA+ specifications of `ai4s.jobq`, a task queue on Azure Storage queues and Azure
Service Bus: producers push tasks, worker processes on machines that may be preempted
at any time receive, execute and settle them. The modules model the code under
`src/ai4s/jobq`; TLC checks them on small instances, TLAPS proves the theorems in the
eight `*Proofs` modules for every value of the constants.

`PROJECT.json` lists components, runs, findings, hazards, theorems, and for each
definition the source lines it stands for. Line numbers below refer to `src/`.

## 1. The system

| Component | State it keeps | Operations | Modules |
|---|---|---|---|
| Task execution, `jobq.py` `pull_and_execute` | per call: where it is suspended, the callback's task, `lock_lost` | receive, run the callback, react to its end, to the lost lock and to cancellation, settle | `PullAndExecute` |
| Storage backend, `backend/storage_queue.py` | envelope, message with its pop receipt, heartbeat task, three events | push, receive, heartbeat, delete, dead-letter, requeue, replace, clear | `StorageJobQ` |
| Azure Storage queue (external) | messages, visibility, pop receipts, dequeue content | send, receive, update, delete, clear | `StorageQueueService` |
| Service Bus backend, `backend/servicebus_rest.py` | envelope, renewal task, two events | send with retries, peek-lock, renew, complete, dead-letter, unlock, clear | `ServiceBusJobQ` |
| Azure Service Bus (external) | messages, locks, delivery counts, duplicate detection | the requests of the above | `ServiceBusService` |
| Life cycle of a task (what the queue promises) | status, retries, outcomes | | `TaskLedger` |
| Worker pool, `orchestration/manager.py` `launch_workers` | worker coroutines, `shutdown_event`, `hard_stop_event`, two flags, failure counters | signals, time limit, brace for preemption, resume | `WorkerPool` |
| Preemption events, `scheduled_events.py` | `_scheduled_event_initiated_by_us` | poll of the metadata service | `WorkerPool` |
| Batch producer, `manager.py` `batch_enqueue` | two bounded queues and their counts of unfinished items, two kinds of workers | seed, list, enqueue, push, join | `BatchEnqueue` |
| Processors and process pool, `work.py` | pool of processes, `_in_shutdown`; in each process the handler and `_terminated_at` | submit, signal, SIGTERM, SIGKILL after a grace period, replace the pool, resume | `ProcessPool` |
| Workforce of a region, `orchestration/workforce.py` | none: the jobs are at the service | state, hire, lay off, resume, scale to, with threads or one by one, with retries | `Workforce` |
| Scheduler of several regions, `orchestration/multiregion_workforce.py` | sizes last read, last good ones | one tick: read, decide, distribute, hire or lay off, resume; scale to zero; manual hire | `MultiRegionWorkforce` |
| Pid files and shutdown messages, `orchestration/pid_file.py`, `workforce_monitor.py` | a file per worker id and node; a subscription | enter, take a stale file, leave; receive, signal every pid, complete | `WorkforceMonitor` |
| Background sync, `ext/background_dirsync.py` | sync process, listener thread, four events, the files that were there before | pass, flush, watch file, shutdown | `BackgroundDirSync` |
| Blob stores, command line, logging, authentication, AMLT and configuration helpers, dashboard | none of their own | pure I/O and conversions | not modelled |

How they interact: `launch_workers` runs `num_workers` coroutines in one event loop, each
of which creates a `pull_and_execute` task and waits for it or for `shutdown_event`
(shared state, set by signal handlers, a timer and the poll). `pull_and_execute` calls the
backend's `receive_message`, which starts a heartbeat (or renewal) task beside the call;
they share the envelope, its receipt and its events, and interleave at awaits. The backend
talks to the service by requests that may fail before or after they are applied. Processes
share nothing but the queue. `batch_enqueue` pushes through the same backend.

The callback of `pull_and_execute` calls a processor, which all workers of a process share: the
call goes to the current pool, and a worker that shuts down calls `kill_all_subprocesses` on it
while others may do the same or submit. Outside the worker processes, the scheduler changes the
number of jobs through the regions' workforces, reading the same queue's size, and publishes
shutdown messages, which one worker process of some node receives and passes on as signals,
found by the pid files of its node; what a signal does is in `WorkerPool`. A task may run beside a
directory syncer, a process of its own with threads in the caller.

What is hard about it:

* *interleaving*: heartbeat and settlement of one call; calls of several processes on one
  message; signals between any two steps of several coroutines; several workers that kill and
  replace one pool without a lock; processes that enter and leave while a pid file is checked;
* *failure*: processes are preempted at any point; requests fail with or without effect; a
  settlement may consist of two requests;
* *staleness*: the scheduler acts on counts of jobs that have moved on since; a time stamp on the
  destination of a sync stands for content that is no longer there;
* *timing*: visibility timeouts and locks expire under a running task; cancellation arrives
  at any await, also while the call settles;
* *liveness*: `cancel_heartbeat()` waits for a task that waits for an event; shutdown waits
  for tasks; `join()` waits for workers that may be gone; a pool's shutdown waits for commands.

The properties that make each part correct: a task leaves the queue only executed,
dead-lettered or cleared; a worker that has lost a message cannot touch the next delivery;
retries are neither restored nor consumed twice; a task nobody works on comes back; a call
returns; a lost lock is noticed; a request to stop stands and is carried out, and a graceful
one cancels nothing; a batch forgets no task and ends; an interrupted command never counts as done
or failed; the fleet never grows past its ceiling and reaches zero when told to; a completed
shutdown message has reached its node; after a clean shutdown the synced files are the last ones,
and files that were there before are spared.

## 2. The modules

### PullAndExecute, the protocol of one call

`call[c]` is an invocation of `pull_and_execute` (jobq.py:257-464). Its `pc` is the await it is
suspended in: `execute` (`asyncio.wait` for the callback and `lock_lost_event`, or the call of a
plain function), `cancelled` and `abandon` (waiting for a callback it has cancelled), `stopOk`,
`stopErr`, `stopCanceled` (in `cancel_heartbeat()`), and one per settlement. `cb` is the state
of the callback's task, `lost` the local `lock_lost`, `async` whether the callback is a
coroutine function. The operators are shared by both backend modules, which conjoin what their
envelope does in the same step; each takes as an argument what it reads of the envelope. A
plain function blocks the event loop: while it executes, no heartbeat step is enabled
(`LoopFree`).

`OuterCancelled` followed by `CancelledCallbackObserved` is the path of jobq.py:319-335, where
the callback returns in spite of the cancellation, `done` was never assigned and
`UnboundLocalError` is taken for a failure of the callback.

### StorageQueueService and StorageJobQ

The service is external: `queue[m]` is where the message of task `m` is, the receipt it accepts
and the retries its content carries. Receive and update issue a new receipt, and only the
latest one works. `StorageJobQ` adds `env[c]`, the envelope with its heartbeat task. One
request of the heartbeat is three steps (sent, applied by the service, reply seen), because the
settlement, another worker and the timeout come in between; the requests of the settlement are
one step each, as the call does nothing else meanwhile and others act before or after it. A
lost reply is a request that is applied while the client sees a failure. A dead-lettering is two
steps (storage_queue.py:54-55): send the copy, delete the original.

History variables (`done`, `cleared`, `owner`, `unsure`) are read by properties only.

### ServiceBusService and ServiceBusJobQ

The lock token of a peek-lock is valid until the lock expires or the message is settled; a renewal
does not change it. A message comes back when it is unlocked or its lock expires, and moves to the
dead-letter queue after `MaxDeliveries`. Duplicate detection makes a repeated send with one
MessageId harmless (`Accept`). `RenewSends`/`RenewSucceeds`/`RenewRefused`/`RenewFails` are
servicebus_rest.py:637-739, with the two immediate retries per cycle (`attempt`) and the
comparison with the lock duration after a missed cycle (`missed`): the elapsed time is between half
and one and a half durations after one missed cycle, so that verdict is a choice, and certain after
two. `Replace` does nothing, as in the code. `Release` is the `finally` of `receive_message`, which
the storage backend lacks.

### TaskLedger

The abstract specification: a pushed task stays queued until one execution of it has succeeded, or
its retries are used up and it is dead-lettered, or the queue is cleared; a failure consumes one
retry. `StorageJobQ` implements it under the mapping in `LedgerStatus` and `Ledger`, which is
checked as a property of a run and proved in `StorageJobQProofs`. Service Bus does not implement
it: `replace()` stores nothing there, so retries are not consumed.

### WorkerPool

`pc[w]` is where the coroutine `worker(idx)` is suspended: `wait` (`asyncio.wait`), `shutdown`
(`processor.shutdown()`), `join` (awaiting the cancelled task), `graceful` (awaiting the task to its
end), `brace` (`wait_for_hard_stop`). `watch[w]` is `shutdown_event_task`: the event wakes it
(`woken`), and only its own next step ends it (`done`); in between, a worker may see its task's
result without the shutdown, and the event may be cleared again. `task[w]` is the call of
`pull_and_execute` with the outcomes it may have. `ShutdownHandler` is the one handler of four
signals and the time limit, with the arguments in `Request`.

Coroutines interleave at awaits (`LoopRuns`), but Python runs a signal handler between any two
bytecodes. Where that matters the synchronous code is cut into steps: `BraceEnds`, `ReadFlag` and
`ResumeWork` are the two looks and the `clear()` at the end of `wait_for_hard_stop` (manager.py:474,
480, 500), with `pc[w]` at `flag` and `clear` in between; `ShutdownHandler` ends where it has tested
`shutdown_event`, and `HandlerSets` is its last line, with `setting` handlers in between. `raced`
records that a signal was handled in one of these two windows. The methods of `asyncio.Event` are
taken as atomic. Once an exception has left `launch_workers`, or a third request has stopped the loop,
the model stops.

### BatchEnqueue

`seedQueue` and `taskQueue` are the two `asyncio.Queue`s, with the counts behind `join()` as
variables of their own, so that a missing or repeated `task_done()` can be told. Workers wait in
`get()` and `put()` by the guards of `TakeSeed`, `TakeTask` and `ListTask`. A failing
`enqueue_worker` leaves silently, a failing `enum_worker` with its exception, which
`batch_enqueue` raises at the end.

### ProcessPool

`pool[g]` are the executors that exist at a time (a process forgets those nobody refers to, and the index
is used again), `cur` is `self.__pool`, `proc[g][s]` a pool process with the command it runs: `at` is how
far it is (`silent`: the command runs on and has closed its streams, so that work.py:232 waits for its
end and does nothing else), `handler` whether it has a handler for SIGUSR1 (`default`: the signal kills
it; `stale`: the one of an earlier command; `own`), `timer` is `_terminated_at`. `ctl[w]` is where a
worker is in its shutdown: `kill` and `nap` in `kill_all_subprocesses` (waiting for the pool, sleeping
its second), `brace` in `wait_for_hard_stop`; the loop is here as far as it uses the processor. A process
that dies breaks its executor (`Break`), which ends its other processes and raises `BrokenProcessPool` in
every call; commands, in sessions of their own, go on as orphans. The executor is external. `told` is a
history variable: the command was running under its own handler when a shutdown signalled the pool.

### Workforce and MultiRegionWorkforce

`Workforce` has the operations on one region. `job[r]` are the jobs of region `r`, with the statuses
the service gives them; `op` is the operation under way, and `todo` maps each job it has still to lay
off or resume to its place in the order of `_layoff_candidates` and the attempts made: threads serve
them in any order, a sequential operation by place. What `list_jobs` finds is the set `JobsIn`.
The service advances, preempts and ends jobs between any two steps. `MultiRegionWorkforce` extends
it by the tick of the scheduler: `pc` is the phase of `run()`, `unread` the regions `_map_regions` has
still to ask, the other variables the locals of `run()`. The arithmetic of the code (target size,
distribution with its remainder, lay-offs from queued workers) is translated as operators; the
distribution loop is the recursive function `Rounds`. `history` records what a command may bring
about at most and how many workers of each region were pending when it was last read and have left
that state since, to run or to end (the slack of a scale-down); it is read by properties only.

Of the statuses of a job (workforce.py:79-94) those that the counts and lay-offs list are modelled,
and those of jobs that are over. A new job is at once in a listed one: what a job that is being
validated, finalized or cancelled, or not started yet, does to the counts is left out, as nothing in
the code bounds how long it is.

### WorkforceMonitor

`proc[p]` is where a worker process is in `PidFile.__enter__` (`exists`, `stale`, `reopen`, `write`)
or in its work, `file[i]` the pid file of a worker id on a node, created and then written in two
steps. `mon[p]` is the task `_check_for_shutdown_events`: it receives, then looks at the files of the
glob one after the other (`FileVanished` is `check_pid` raising for a file that has gone, which makes
the message come back), then completes. A pid may be reused by a process of somebody else
(`PidReused`). `raced` are files that two processes were creating at the same time.

### BackgroundDirSync

A version stands for a file's content and its times. One pass of `Syncer.sync` is one step per file
and per system call: `Examine` (is it newer?), `CopyFile`, `CopyStat`, `DeleteSource`, then the
removals. The command writes and deletes in between. The flush listener, the caller and the process
share the four events; `phase`, `listener` and `main` are where they are. The line that ends the loop
(background_dirsync.py:224) reads two events, one after the other: `FlushLookedAt`, then
`ShutdownLookedAt`; both settings of `shutdown()` (371 and 372) may fall between them. `overlooked`
records that the final flush did. Times are compared in whole milliseconds, rounded towards zero
(74): a write may fall within a millisecond of the stamp on the destination, which makes the file one
of `tied`, for which `NeedsUpdate` is false.

## 3. What the runs check

| Run | Question | Result |
|---|---|---|
| `StorageJobQ_safety` | one task, two calls, every fault: is a task lost, can a stale call settle, is the latest receipt presented, are retries exact, is `TaskLedger` implemented? The inductive invariant of the proofs is checked too | passes, 946,000 states |
| `StorageJobQ_live` | one call, coroutine and plain callbacks: does an unattended task come back, does a call return? | passes |
| `StorageJobQ_leak` | does a task come back when the callback ends with `CancelledError`? | **no**: the heartbeat outlives the call |
| `ServiceBusJobQ` | the same for Service Bus; only the owner removes a task; a lost lock is noticed | passes, about 10^5 states |
| `WorkerPool` | do workers leave without a running task, does SIGUSR1 cancel nothing, does a request to stop stand, unless its signal was raced, and get carried out? | passes, 572,000 states |
| `WorkerPool_hardstop` | does a hard stop end the process? | **no**: the graceful branch awaits its task alone |
| `BatchEnqueue` | is no task forgotten, do the counts agree, does the batch end? | passes, 19,641 states |
| `ProcessPool` | two workers that submit to, kill and replace one pool: is an interrupted command given back, is a stopped pool replaced, does `_in_shutdown` clear, does the shutdown get through commands that ignore SIGTERM with their streams open, or that leave children which hold their pipes? | passes, 768,000 states |
| `Fleet` | two regions: is the ceiling kept, do plans add up, are running workers laid off only for pending ones, does zero mean zero? | passes, 1.53 * 10^6 states |
| `Fleet_resume` | does a paused worker get resumed? | **no**: early returns of `run()` skip it, tick after tick |
| `WorkforceMonitor` | has a completed message reached its node, does the pid file exclude, does a message get through? | passes, 463,000 states |
| `BackgroundDirSync` | after a clean shutdown that did not overlook its final flush, is `dst` what the command left; are the files from before spared; does `shutdown()` return? | passes, 1.31 * 10^6 states |

The "no" rows are the findings in `PROJECT.json`, each with the line of the code and the sentence of
a comment or doc it disagrees with.

Further disagreements are known and need no run; the models have them as they are in the code:

* jobq.py:335: a command that succeeds in spite of its call's cancellation counts as failed, by an
  `UnboundLocalError`, against the docstring at jobq.py:271 (`CancelledCallbackObserved`);
* servicebus_rest.py:269: the status of a send is dropped, so `push()` returns an id for a task the
  queue has refused (the fault `errorStatus`);
* servicebus_rest.py:501: `replace()` stores nothing, so a failing task has all its retries again; the
  comment at line 502 says so (`Replace`);
* manager.py:606: a worker between two tasks when SIGUSR1 arrives starts one more, against
  docs/misc/35-graceful-shutdown.md:20 (`Start`);
* manager.py:504: on SIGTERM a worker cancels its task and may resume later, where
  docs/misc/35-graceful-shutdown.md:19 says that it "completes the current task and shuts down"; the
  monitor sends SIGUSR2 for a graceful downscale;
* manager.py:500: a SIGINT, SIGUSR1 or SIGUSR2 that is handled after `wait_for_hard_stop` has looked at
  `hard_stop_event` (474) and `flag_resume_if_not_killed` (480) and before its `clear()` is undone: the
  worker resumes and pulls a task, where docs/misc/30-workforce.md:211 says of SIGINT that the worker
  "completes the current task and shuts down". The steps are `ReadFlag`, `Signal`, `HandlerSets`,
  `ResumeWork`; `StopStands` excludes them by `~raced`;
* manager.py:422: a SIGTERM that is handled between the test of `shutdown_event` in the handler of a stop
  and its last line overwrites the flag of that stop and is not taken for the second request, so the
  process may resume. This, too, is `raced`; without that conjunct of `StopStands` it is what TLC shows;
* work.py:232: a command that has closed stdout and stderr and ignores SIGTERM is never sent SIGKILL, and
  the shutdown of its pool waits for it, where docs/misc/10-preemption.md:103 says that "the worker
  escalates to SIGKILL after a configurable timeout". `ShutdownReturns` is about pools without such a
  command (`AllTold`); with `silent` beside `running` there, TLC shows it (`StreamsClose`);
* background_dirsync.py:224: when both settings of `shutdown()` fall between the two reads, the process
  exits without the pass that line 370 calls "one final flush", and what was written since the last one
  is not on the destination. `CleanShutdownSynced` excludes it by `~overlooked`; without that conjunct
  TLC shows it (`FlushLookedAt`, `FinalFlush`, `ShutdownSet`, `ShutdownLookedAt`);
* background_dirsync.py:74: a file written within a millisecond of the stamp its copy has counts as not
  newer, and stays behind until it is written again (`tied`);
* work.py:428: a pool process that is signalled before its handler is installed dies, and the calls of
  that pool fail with `BrokenProcessPool`, where docs/misc/10-preemption.md:26 says that they are put
  back (`SignalKills`, `Break`).

Mutants: each property of a passing run is violated when one mapped definition is replaced by the
variant of it that a plausible slip would produce (a dropped guard, a missing reset, an event that
is not set). The variants stand before the originals, named `<Definition>_<Slip>`.

### Bounds

* *Storage*: one message is enough because calls on different messages share nothing but the service,
  which treats messages separately; two calls, because fencing is about a pair (the current and a
  stale holder; a third is covered by `ReceiveLost`, a delivery nobody works on). `MaxRetries = 1` has
  a last and a non-last failure. Real receipts never repeat; `Fresh` may reuse one nobody holds, so
  six receipts suffice for two calls (receipt, reply, queue) and `CanIssue` never blocks. `ValidityView`
  abstracts receipts to what compares equal. Calls are symmetric in the safety run only.
* *Service Bus*: one call, three tokens (call, queue, one fresh), three deliveries.
* *Faults* names the events of the environment a run admits. The liveness run of the storage backend
  leaves out `cancelCallback`, whose effect is the leak that `StorageJobQ_leak` shows; the run of
  Service Bus leaves out `errorStatus`, one of the known disagreements above.
* *Worker pool*: two workers; two disturbances (signals, announced preemptions, lost locks) besides
  the time limit: a second request of any kind is the interesting one, as a third stops the loop.
  `MaxConsecutiveFailures` is 0, so the first failure is one too many, to keep the run with its liveness
  property small, and 1 in `WorkerPool_hardstop`; the safety properties are proved for every value.
* *Batch*: queues that hold one item, so that every `put` and `get` blocks in some behaviour; two
  workers of each kind, so that one can fail and one survive.

* *Process pool*: two workers share a pool of two processes (of one, under a callback); two calls, one
  request to stop (which both workers carry out), one process lost or wait failed. Three indices are
  enough for the pools: with one request to stop, each worker replaces a pool once. The safety
  properties are proved for every bound.
* *Fleet*: two regions with room for one job and for two, `MaxNumWorkers = 2`, queue sizes 0, 1 and 11
  on both sides of the scheduler's thresholds, batches of two so that a hire needs several, one call
  that fails for good. `FleetView` forgets locals of `run()` in phases in which neither a later step nor
  a property reads them, so it merges only states with the same future. `Fleet_resume` needs one
  region and no faults.
* *Monitor*: two processes on one node, with one worker id or two, and one on another node; one message
  with two deliveries; two crashes or failed connections.
* *Directory sync*: a new file and one that was there before, three writes or deletions, one flush
  besides the final one, one failing copy, any of the writes within a millisecond or not, both values of
  `delete_after_copy` and `remove_if_not_in_source`.

Deadlock is checked in `Fleet`, whose scheduler ticks for ever, and in `ProcessPool` and
`WorkforceMonitor`, which have an action for their regular end. The other runs have `CHECK_DEADLOCK
FALSE`: a queue may drain, a process may end.

### Fairness

The event loop eventually runs a coroutine that can continue, and every request ends, as all have
timeouts: weak fairness of the steps of a call, of its heartbeat or renewal, of workers. A callback
may run for ever, but ends once it is cancelled. A visibility timeout or lock runs out when no
heartbeat extends it (`~Extended`), and only then: with a heartbeat that keeps succeeding it need
not. No fairness is assumed of producers, receivers, signals, announcements or failures, nor of
the end of a running task. In `BatchEnqueue`, user code and pushes end.

A signal handler does not wake a sleeping event loop by itself: what it sets is seen when a timer or a
socket wakes the loop, which the scheduled-events poll (every second on Azure) and the heartbeats do.
That is why the worker pool's steps may be assumed fair after a signal.

In `ProcessPool` nothing is assumed of commands, which may ignore SIGTERM for ever, with their streams
open or closed: only that the waiting
loop in the pool process looks at its clock (`Escalate`, `Drained`, `CommandReturns`), that an
executor whose calls are over ends, and that the worker that waits for it runs. In
`BackgroundDirSync` the sync process, the listener and the caller run when they can. In
`WorkforceMonitor` the monitor task runs and locks expire; nothing is assumed of when processes start
or leave. In `Fleet_resume` the scheduler ticks for ever and its calls end.

## 4. What is proved

Proved for `StorageJobQ`, for any number of tasks, calls, receipts and retries, any set of faults, with
and without heartbeat, for coroutine and plain callbacks, in `StorageJobQProofs`:

* `Invariance`: `Spec => []IInv`, the inductive invariant;
* `TypeCorrectness`, `NoTaskIsLost`, `Fencing`, `HeartbeatJoinedBeforeSettling`, `RetriesAreCurrent`,
  `DeadLettersAreExhausted`: the safety invariants of the safety run;

and from that invariance:

* `RetriesAreOnlyConsumed`: the action property `RetriesOnlyConsumed`;
* `ImplementsTaskLedger`: `Spec => Ledger!Spec`, the refinement of `TaskLedger`.

Assumptions are the named `ASSUME`s of the modules: `MaxRetries` is a natural number, "no receipt",
"no message" and "no call" are none of the real ones, the parameters are Booleans. TLC evaluates them.

The argument. The fencing property is not inductive: that only the owner's receipt is valid depends on
receipts in flight. `Fenced` therefore speaks of the receipt a call holds *and* of the one in a reply
that is under way, and rests on freshness: a receipt is issued only if nobody holds it
(`FreshReceipt`, `HeldInUse`). `LatestReceiptHeld` says the owner has the latest receipt, or will have
once the reply arrives, unless a reply was lost (`unsure`); as a call settles only after its heartbeat
has ended (`Attached`), `SettlesWithLatestReceipt` follows. `RetriesKnown` strengthens
`RetriesCurrent` by "a stale delivery knows too many retries, never too few", which is what makes a
late update of a stale heartbeat harmless. `Justified` ties the control state to the past: a call in
`delete` has a callback that returned, one in `deadletter` has no retry left, one in `drop` has sent
the dead letter; with it, `NoTaskLost` is inductive. Each part has a lemma with one step per action of
`Next`; `NextIInv` puts them together.

The refinement needs the invariant at three places. A `requeue` or a heartbeat writes back the retries
its call once read: by `RetriesKnown` these are the current ones whenever the service accepts the
receipt, so the ledger sees a stuttering step (`RequeueUnseen`, `HeartbeatUnseen`), and a `replace`
consumes exactly one (`ReplaceEffect`). A dead letter may be sent by a call whose message another one
has meanwhile taken: that the ledger's budget is zero then follows from "a stale delivery knows too
many retries, never too few". And a delete removes a task of which `Justified` knows that it was
executed or dead-lettered (`DeleteEffect`). `LedgerStep` maps each action to its ledger action or to
a stutter.

The other components have a proof module each, with an inductive invariant `IInv`, one lemma per part
and step, and the theorems on top. What their invariants add to the properties:

* `ServiceBusProofs` (`TasksAreNotLost`, `OnlyTheOwnerRemoves`): a call that completes has a callback
  that returned, and one that dead-letters a message without retries (`Working`); a token that the
  service still accepts is the one its owner got, as new tokens are fresh (`Owned`); a message that can
  be received has a delivery left (`Deliverable`).
* `WorkerPoolProofs` (`LeftIsQuiet`, `GracefulIsGraceful`, `StopsStand`): outside the body of the loop a
  worker's task has ended (`Quiet`); as long as SIGUSR1 is all that was asked for, the flag that lets a
  task be cancelled is down and no watch has fired before the first signal (`Graceful`); without
  announced preemptions the poll does not touch the event (`PollIdle`); and unless a signal was
  raced, what a worker has read of the flags on its way to `clear()` still holds there
  (`SeenStillHolds`). That `StopStands` needs the former assumption is the subject of the hazard at
  scheduled_events.py:139, the latter that of the ones at manager.py:422 and 500.
* `BatchEnqueueProofs` (`CountsAreRight`, `NothingIsForgotten`, `NoneIsInterrupted`): each task is with
  its seed, with one lister, in the queue, with one pusher, or done with (`ListedOnce`, `Accounted`),
  and what a `join()` has waited for stays so (`Joined`); the counts are cardinalities, by
  `FiniteSetTheorems`.
* `ProcessPoolProofs` (`InterruptedAreGivenBack`, `PoolIsReplaced`, `FlagClears`): a call that was taken and
  has no result is with exactly one busy process of its pool (`Assigned`, `Attended`), so a pool that is
  gone or broken owes nobody a result (`PoolsAnswered`), which is what makes a stopped pool safe to
  replace; a process whose command was told to stop remembers it until it returns (`Warned`), so the
  result is `canceled` whatever `_in_shutdown` says by then (`Interrupted`); `_in_shutdown` implies the
  event (`FlagHeld`).
* `BackgroundDirSyncProofs` (`PreExistingAreSpared`, `CleanShutdownIsSynced`): the first pass notes exactly
  the files from before (`Noted`); a time stamp on `dst` that is not older than the source stands for the
  same content, unless the file was overtaken or its copy broke off (`Truthful`); and in a pass that
  began after the command was over, with no flush since until the process looked for one (`LastPass`),
  every file is current or about to be (`Synced`), unless it was written within a millisecond of its
  stamp.
* `WorkforceMonitorProofs` (`LockIsExclusive`, `CompletedHasReachedTheNode`): a file that was not raced for
  belongs to its process from the write to the end of its work, and processes that enter keep apart
  (`FileLock`); the loop over the files has told, or has still on its list, everybody the message owes a
  signal (`Held`).

* `FleetProofs` (`CeilingIsKept`, `PlansAlwaysAddUp`, `RunningOnesAreSpared`, `ZeroIsZero`): see below.

Each module has a theorem of type correctness too. All of them assume only the named `ASSUME`s of their
modules.

### The scheduler

`FleetProofs` is about any number of regions, jobs, workers, retries and faults. `TickStep` and
`WorkforceStep` interleave with a service that changes jobs at will, so what a tick has read is only a
bound on what is there, and the invariant says which one:

* `Control`, `Progress`: which operation may be under way in which phase of which command; its region is
  no longer in `unread`. Everything below is about a phase, and needs this to know what can happen in it.
* `Sized`, `Counted`: while a tick reads, nobody hires, so a region has at most as many active workers
  as were read there; a lazy tick counts running and pending workers in one reading, and what it then
  decides to hire fits under `MaxNumWorkers` together with all that was read.
* `Ceiling`: active workers, plus those the operation under way may still submit (`Coming`), plus those
  planned for regions not yet visited (`Planning`), stay below the ceiling. `CeilingKept` alone is not
  inductive: it does not see a hire that is under way. That `Planning` starts within the ceiling needs
  `PlansAddUp`, hence `DistributionAddsUp`.
* `Zeroed`: in a scale-to-zero without a failure a region still to be visited has at most as many workers
  as are planned to go, the one being visited has all its active workers in `todo`, the others have none.
* `Slackened`, `Bounded`: in a scale-down, from the last reading of a region on, what was read as pending
  is at most what is pending now plus the slack; the running workers a lay-off has chosen are at most the
  slack. The first becomes the second by `RunningCandidates`: in the order of `_layoff_candidates` every
  pending worker comes before a running one, so of `n` candidates at most `n` minus the pending ones are
  running.

`DistributionAddsUp` is a theorem about the loop of run() and of layoff_queued_workers itself, for any
room, negative ones included: no region gets more than its room, and in all it is what was asked for, or
all the room, or the full share for every region. A hire, with its `1 +`, has full shares beyond what is
asked for, so it is exact; a lay-off can fall short by less than one worker per region. The proof is an
induction over the rounds (`RoundDistributes`): after each round the regions so far have together all
that was asked for, or all their room, or their full shares; in the last case the regions to come, which
have no less room, have room for a share each, so nothing is lost with the regions that are full.

Sums and rounds are recursive functions over the number of the region. The library's induction theorems
cannot be used, as they take the predicate as an operator; `LeastNatural` and `Induction` state the same
for sets of naturals, from the well-foundedness of `<`, and `SumIsDefined` and `RoundsAreDefined` show
with them that the recursive functions satisfy their equations.

Only model-checked: liveness (`UnattendedTaskReappears`, `CallReturns`, `LostLockNoticed`, `ShutdownEnds`,
`EnqueueEnds`, `ShutdownReturns`, `ShutdownArrives`), which needs ENABLED and fairness. Every invariant and
action property of a passing run is stated by a theorem.

## 5. What is left out of the modelled parts

* Real time: timeouts are choices, constrained by fairness. A request that was sent and abandoned by a
  timeout and is applied later than the next request of the same process is not modelled.
* Replies (`reply`, `get_result`): neither backend implements them.
* Malformed messages: every message in the queue was written by `push`.
* `create`, `peek`, `__len__`: administration, no effect on the properties.
* The contents of tasks, logs, traces, progress.
* In `WorkerPool`: what the tasks of other workers do after an exception has left `launch_workers`
  (manager.py:694).
* In `ProcessPool`: a call that no process has taken counts as queued and can be withdrawn, also where
  the executor has fed it to its processes already; what a callback does; the rewriting of output lines;
  `WorkSpecification` and its subclasses, which only list tasks.
* In `Workforce`: how a job is put together, names of experiments and their caches, and logs. The
  service's scheduling is arbitrary.
* In `BackgroundDirSync`: directories, and the thread that forwards logs but for the event it waits for.
* The hazards without a property in `PROJECT.json` say each why: four are the known disagreements
  above, one is a promise nobody makes (a renewal longer than three weeks, servicebus_rest.py:637), one
  is excluded by the assumption of `StopStands`, and one is about the tasks after
  `launch_workers`. A note beside properties names what these leave out.
* FIFO order in `BatchEnqueue`: no property depends on it.

### Not modelled

The blob stores, the command line, logging, authentication, the AMLT and configuration helpers and the
dashboard convert data and call services, with no state of their own
between two calls: there is no order of steps in them that could go wrong.

## 6. Plan

Done in this order: (1) `PullAndExecute`, `StorageQueueService`, `StorageJobQ`, the heart of the
system; (2) `TaskLedger` and the refinement; (3) the proofs of the safety invariants and the
refinement; (4) `ServiceBusService`, `ServiceBusJobQ`; (5) `WorkerPool`; (6) `BatchEnqueue`;
(7) `Workforce`, `MultiRegionWorkforce`; (8) `ProcessPool`; (9) `BackgroundDirSync`;
(10) `WorkforceMonitor`; (11) the proofs about (4) to (6) and (8) to (10); (12) the proofs about (7).

Next:

1. `WorkerPool` composed with `ProcessPool`, so that outcomes of tasks are those of commands; what the
   shutdown of the event loop does to calls after an exception has left `launch_workers`.
2. A refinement of the pid file by an abstract lock, up to the window that `Exclusive` names.
