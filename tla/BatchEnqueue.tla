----------------------------- MODULE BatchEnqueue -----------------------------
(***************************************************************************)
(* batch_enqueue (orchestration/manager.py): seeds and tasks flow through   *)
(* two bounded asyncio queues, from batch_enqueue itself to the enum_worker *)
(* and from these to the enqueue_worker coroutines, which push.  The two    *)
(* join()s, the counts of unfinished items behind them and the failures of  *)
(* workers decide when, and whether, batch_enqueue returns.                 *)
(*                                                                          *)
(* Queues are sets: no property depends on the order of their items.        *)
(***************************************************************************)
EXTENDS Integers, FiniteSets

CONSTANTS
  Seeds, Tasks,
  ListedBy,        \* ListedBy[t]: the seed from which list_tasks yields t
  EnumWorkers, EnqWorkers,
  Capacity         \* maxsize of both queues

ASSUME FlowAssumption ==
  /\ IsFiniteSet(Seeds) /\ IsFiniteSet(Tasks) /\ ListedBy \in [Tasks -> Seeds]
  /\ IsFiniteSet(EnumWorkers) /\ IsFiniteSet(EnqWorkers)
  /\ Capacity \in Nat \ {0}

VARIABLES
  main,            \* batch_enqueue itself
  seedsLeft,       \* the seeds task_seeds() has not yielded yet
  seedQueue, seedsUnfinished,   \* enum_jobs
  taskQueue, tasksUnfinished,   \* enqueue_jobs
  lister,          \* lister[w]: an enum_worker, and what list_tasks will yield
  pusher,          \* pusher[w]: an enqueue_worker
  pushed,          \* the tasks whose future is in futures
  skipped,         \* the tasks that were done already (or the run is a dry one)
  refused          \* history: the tasks whose enqueueing failed

seedVars == <<seedsLeft, seedQueue, seedsUnfinished, lister>>
taskVars == <<taskQueue, tasksUnfinished>>
results == <<pushed, skipped, refused>>
vars == <<main, seedVars, taskVars, pusher, results>>

NoItem == "none"

TypeOK ==
  /\ main \in {"seeding", "joinSeeds", "joinTasks", "cancelled", "returned", "raised"}
  /\ seedQueue \subseteq Seeds /\ seedsLeft \subseteq Seeds
  /\ taskQueue \subseteq Tasks
  /\ Cardinality(seedQueue) <= Capacity /\ Cardinality(taskQueue) <= Capacity
  /\ seedsUnfinished \in Nat /\ tasksUnfinished \in Nat
  /\ lister \in [EnumWorkers -> [pc : {"get", "list", "failed"}, left : SUBSET Tasks]]
  /\ pusher \in [EnqWorkers -> [pc : {"get", "enqueue", "push", "left"},
                                task : Tasks \cup {NoItem}]]
  /\ pushed \subseteq Tasks /\ skipped \subseteq Tasks /\ refused \subseteq Tasks

Init ==
  /\ main = "seeding"
  /\ seedsLeft = Seeds
  /\ seedQueue = {} /\ seedsUnfinished = 0
  /\ taskQueue = {} /\ tasksUnfinished = 0
  /\ lister = [w \in EnumWorkers |-> [pc |-> "get", left |-> {}]]
  /\ pusher = [w \in EnqWorkers |-> [pc |-> "get", task |-> NoItem]]
  /\ pushed = {} /\ skipped = {} /\ refused = {}

Working == main \in {"seeding", "joinSeeds", "joinTasks"}

------------------------------------------------------------------------------
(* batch_enqueue *)

(* put() waits while the queue is full.                                     *)
PutSeed(s) ==
  /\ main = "seeding" /\ s \in seedsLeft /\ Cardinality(seedQueue) < Capacity
  /\ seedsLeft' = seedsLeft \ {s}
  /\ seedQueue' = seedQueue \cup {s}
  /\ seedsUnfinished' = seedsUnfinished + 1
  /\ UNCHANGED <<main, lister, taskVars, pusher, results>>

SeedsEnd ==
  /\ main = "seeding" /\ seedsLeft = {}
  /\ main' = "joinSeeds"
  /\ UNCHANGED <<seedVars, taskVars, pusher, results>>

(* task_seeds() raises: batch_enqueue does, with its workers left alone.    *)
SeedsFail ==
  /\ main = "seeding"
  /\ main' = "raised"
  /\ UNCHANGED <<seedVars, taskVars, pusher, results>>

(* Mutant: the seeds are not joined.                                        *)
SeedsJoined_TooEarly ==
  /\ main = "joinSeeds"
  /\ main' = "joinTasks"
  /\ UNCHANGED <<seedVars, taskVars, pusher, results>>

SeedsJoined ==
  /\ main = "joinSeeds" /\ seedsUnfinished = 0
  /\ main' = "joinTasks"
  /\ UNCHANGED <<seedVars, taskVars, pusher, results>>

(* Every worker is cancelled, wherever it is.                               *)
TasksJoined ==
  /\ main = "joinTasks" /\ tasksUnfinished = 0
  /\ main' = "cancelled"
  /\ UNCHANGED <<seedVars, taskVars, pusher, results>>

(* The exception of an enum_worker is raised when it is awaited.            *)
Return ==
  /\ main = "cancelled"
  /\ main' = IF \E w \in EnumWorkers : lister[w].pc = "failed" THEN "raised" ELSE "returned"
  /\ UNCHANGED <<seedVars, taskVars, pusher, results>>

------------------------------------------------------------------------------
(* enum_worker *)

TakeSeed(w, s) ==
  /\ Working /\ lister[w].pc = "get" /\ s \in seedQueue
  /\ seedQueue' = seedQueue \ {s}
  /\ lister' = [lister EXCEPT ![w] = [pc |-> "list", left |-> {t \in Tasks : ListedBy[t] = s}]]
  /\ UNCHANGED <<main, seedsLeft, seedsUnfinished, taskVars, pusher, results>>

ListTask(w, t) ==
  /\ Working /\ lister[w].pc = "list" /\ t \in lister[w].left
  /\ Cardinality(taskQueue) < Capacity
  /\ lister' = [lister EXCEPT ![w].left = @ \ {t}]
  /\ taskQueue' = taskQueue \cup {t}
  /\ tasksUnfinished' = tasksUnfinished + 1
  /\ UNCHANGED <<main, seedsLeft, seedQueue, seedsUnfinished, pusher, results>>

ListEnds(w) ==
  /\ Working /\ lister[w].pc = "list" /\ lister[w].left = {}
  /\ lister' = [lister EXCEPT ![w].pc = "get"]
  /\ seedsUnfinished' = seedsUnfinished - 1
  /\ UNCHANGED <<main, seedsLeft, seedQueue, taskVars, pusher, results>>

(* list_tasks() raises: the rest of the seed is dropped, and the worker ends. *)
ListFails(w) ==
  /\ Working /\ lister[w].pc = "list"
  /\ lister' = [lister EXCEPT ![w] = [pc |-> "failed", left |-> {}]]
  /\ seedsUnfinished' = seedsUnfinished - 1
  /\ UNCHANGED <<main, seedsLeft, seedQueue, taskVars, pusher, results>>

------------------------------------------------------------------------------
(* enqueue_worker *)

TakeTask(w, t) ==
  /\ Working /\ pusher[w].pc = "get" /\ t \in taskQueue
  /\ taskQueue' = taskQueue \ {t}
  /\ pusher' = [pusher EXCEPT ![w] = [pc |-> "enqueue", task |-> t]]
  /\ UNCHANGED <<main, seedVars, tasksUnfinished, results>>

TaskDone(w, step) ==
  /\ pusher' = [pusher EXCEPT ![w] = [pc |-> step, task |-> NoItem]]
  /\ tasksUnfinished' = tasksUnfinished - 1

(* enqueue_task() returned a job, which is pushed, or None.                 *)
Enqueued(w) ==
  /\ Working /\ pusher[w].pc = "enqueue"
  /\ \/ /\ pusher' = [pusher EXCEPT ![w].pc = "push"]
        /\ UNCHANGED <<tasksUnfinished, skipped>>
     \/ /\ skipped' = skipped \cup {pusher[w].task}
        /\ TaskDone(w, "get")
  /\ UNCHANGED <<main, seedVars, taskQueue, pushed, refused>>

(* Mutant: task_done() is called twice.                                     *)
Pushed_CountedTwice(w) ==
  /\ Working /\ pusher[w].pc = "push"
  /\ pushed' = pushed \cup {pusher[w].task}
  /\ pusher' = [pusher EXCEPT ![w] = [pc |-> "get", task |-> NoItem]]
  /\ tasksUnfinished' = IF tasksUnfinished > 1 THEN tasksUnfinished - 2 ELSE 0
  /\ UNCHANGED <<main, seedVars, taskQueue, skipped, refused>>

Pushed(w) ==
  /\ Working /\ pusher[w].pc = "push"
  /\ pushed' = pushed \cup {pusher[w].task}
  /\ TaskDone(w, "get")
  /\ UNCHANGED <<main, seedVars, taskQueue, skipped, refused>>

(* Mutant: a worker that fails does not count its item as done.             *)
EnqueueFails_NotDone(w) ==
  /\ Working /\ pusher[w].pc \in {"enqueue", "push"}
  /\ refused' = refused \cup {pusher[w].task}
  /\ pusher' = [pusher EXCEPT ![w] = [pc |-> "left", task |-> NoItem]]
  /\ UNCHANGED <<main, seedVars, taskVars, pushed, skipped>>

(* enqueue_task() or push() raises: the worker counts the item as done and  *)
(* leaves, without an exception.                                            *)
EnqueueFails(w) ==
  /\ Working /\ pusher[w].pc \in {"enqueue", "push"}
  /\ refused' = refused \cup {pusher[w].task}
  /\ TaskDone(w, "left")
  /\ UNCHANGED <<main, seedVars, taskQueue, pushed, skipped>>

------------------------------------------------------------------------------
Main == (\E s \in Seeds : PutSeed(s)) \/ SeedsEnd \/ SeedsJoined \/ TasksJoined \/ Return

Listing(w) ==
  \/ \E s \in Seeds : TakeSeed(w, s)
  \/ \E t \in Tasks : ListTask(w, t)
  \/ ListEnds(w)

Pushing(w) == (\E t \in Tasks : TakeTask(w, t)) \/ Enqueued(w) \/ Pushed(w)

Next ==
  \/ Main \/ SeedsFail
  \/ \E w \in EnumWorkers : Listing(w) \/ ListFails(w)
  \/ \E w \in EnqWorkers : Pushing(w) \/ EnqueueFails(w)

Spec == Init /\ [][Next]_vars

(* The event loop runs every coroutine that can run; calls of user code and *)
(* requests end, but need not fail.                                         *)
Fairness ==
  /\ WF_vars(Main)
  /\ \A w \in EnumWorkers : WF_vars(Listing(w))
  /\ \A w \in EnqWorkers : WF_vars(Pushing(w))

FairSpec == Spec /\ Fairness

------------------------------------------------------------------------------
(* Properties *)

(* The counts behind the two join()s are the items that are queued or being *)
(* worked on, whatever failed: neither join() passes over one, and neither  *)
(* waits for one that is gone.                                              *)
CountsAgree ==
  /\ seedsUnfinished = Cardinality(seedQueue)
                       + Cardinality({w \in EnumWorkers : lister[w].pc = "list"})
  /\ tasksUnfinished = Cardinality(taskQueue)
                       + Cardinality({w \in EnqWorkers : pusher[w].pc \in {"enqueue", "push"}})

(* When batch_enqueue returns, every task of every seed has been pushed, or *)
(* was not to be, or its own enqueueing failed: a failed worker takes no    *)
(* other task with it, and none is left behind in a queue.                  *)
NothingForgotten ==
  main = "returned" => Tasks = pushed \cup skipped \cup refused

(* Workers are cancelled only while they wait for an item: none is          *)
(* interrupted in the middle of a push.                                     *)
CancelledAtRest ==
  main = "cancelled" =>
    /\ \A w \in EnumWorkers : lister[w].pc # "list"
    /\ \A w \in EnqWorkers : pusher[w].pc \in {"get", "left"}

(* batch_enqueue ends, if a worker of each kind survives (it waits for ever *)
(* otherwise, as soon as an item is left).                                  *)
Survivors ==
  /\ \E w \in EnumWorkers : lister[w].pc # "failed"
  /\ \E w \in EnqWorkers : pusher[w].pc # "left"

EnqueueEnds == []Survivors => <>(main \in {"returned", "raised"})
==============================================================================
