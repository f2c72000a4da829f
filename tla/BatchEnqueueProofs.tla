-------------------------- MODULE BatchEnqueueProofs --------------------------
(***************************************************************************)
(* Theorems about BatchEnqueue, for any numbers of seeds, tasks and workers *)
(* and any capacity of the queues: its types, the counts behind the join()s *)
(* and that no task is forgotten.                                           *)
(***************************************************************************)
EXTENDS BatchEnqueue, FiniteSetTheorems, TLAPS

(* The workers whose item is not done yet.                                  *)
Listers == {w \in EnumWorkers : lister[w].pc = "list"}
Pushers == {w \in EnqWorkers : pusher[w].pc \in {"enqueue", "push"}}

Lister == [pc : {"get", "list", "failed"}, left : SUBSET Tasks]
Pusher == [pc : {"get", "enqueue", "push", "left"}, task : Tasks \cup {NoItem}]

Shapes ==
  /\ main \in {"seeding", "joinSeeds", "joinTasks", "cancelled", "returned", "raised"}
  /\ seedQueue \subseteq Seeds /\ seedsLeft \subseteq Seeds /\ taskQueue \subseteq Tasks
  /\ lister \in [EnumWorkers -> Lister]
  /\ pusher \in [EnqWorkers -> Pusher]
  /\ \A w \in Pushers : pusher[w].task \in Tasks
  /\ pushed \subseteq Tasks /\ skipped \subseteq Tasks /\ refused \subseteq Tasks

Bounded == Cardinality(seedQueue) <= Capacity /\ Cardinality(taskQueue) <= Capacity

(* A task is listed once: before it is in the queue of tasks, at most one   *)
(* worker has it to list, and none while its seed is still to be taken.     *)
ListedOnce ==
  /\ seedsLeft \cap seedQueue = {}
  /\ \A w \in EnumWorkers :
       /\ lister[w].left \cap taskQueue = {}
       /\ \A v \in EnumWorkers \ {w} : lister[w].left \cap lister[v].left = {}
       /\ \A t \in lister[w].left : ListedBy[t] \notin seedsLeft \cup seedQueue
  /\ \A t \in taskQueue : ListedBy[t] \notin seedsLeft \cup seedQueue

(* What has become of a task.                                               *)
AccountedFor(t) ==
  \/ ListedBy[t] \in seedsLeft \cup seedQueue
  \/ \E w \in Listers : t \in lister[w].left
  \/ t \in taskQueue
  \/ \E w \in Pushers : pusher[w].task = t
  \/ t \in pushed \cup skipped \cup refused

(* A seed whose listing failed takes its tasks with it, and its worker.     *)
Accounted ==
  (\E w \in EnumWorkers : lister[w].pc = "failed") \/ \A t \in Tasks : AccountedFor(t)

(* What the joins have waited for stays so.                                 *)
Joined ==
  /\ main \in {"joinSeeds", "joinTasks", "cancelled", "returned"} => seedsLeft = {}
  /\ main \in {"joinTasks", "cancelled", "returned"} => seedQueue = {} /\ Listers = {}
  /\ main \in {"cancelled", "returned"} => taskQueue = {} /\ Pushers = {}
  /\ main = "returned" => \A w \in EnumWorkers : lister[w].pc # "failed"

IInv == Shapes /\ CountsAgree /\ Bounded /\ ListedOnce /\ Accounted /\ Joined

------------------------------------------------------------------------------
(* Counting *)

LEMMA CountsFinite ==
  ASSUME Shapes
  PROVE  /\ IsFiniteSet(seedQueue) /\ IsFiniteSet(taskQueue)
         /\ IsFiniteSet(Listers) /\ IsFiniteSet(Pushers)
         /\ Cardinality(seedQueue) \in Nat /\ Cardinality(taskQueue) \in Nat
         /\ Cardinality(Listers) \in Nat /\ Cardinality(Pushers) \in Nat
<1>1. IsFiniteSet(seedQueue) /\ IsFiniteSet(taskQueue)
  BY FlowAssumption, FS_Subset DEF Shapes
<1>2. IsFiniteSet(Listers) /\ IsFiniteSet(Pushers)
  <2>1. Listers \in SUBSET EnumWorkers /\ Pushers \in SUBSET EnqWorkers
    BY DEF Listers, Pushers
  <2> QED BY <2>1, FlowAssumption, FS_Subset
<1> QED BY <1>1, <1>2, FS_CardinalityType

(* The counts, with the sets named.                                         *)
LEMMA CountsNamed ==
  CountsAgree <=> /\ seedsUnfinished = Cardinality(seedQueue) + Cardinality(Listers)
                  /\ tasksUnfinished = Cardinality(taskQueue) + Cardinality(Pushers)
BY DEF CountsAgree, Listers, Pushers

LEMMA CountsNamedNext ==
  CountsAgree' <=> /\ seedsUnfinished' = Cardinality(seedQueue') + Cardinality(Listers')
                   /\ tasksUnfinished' = Cardinality(taskQueue') + Cardinality(Pushers')
BY DEF CountsAgree, Listers, Pushers

LEMMA ShapesStep == ASSUME Shapes, Next PROVE Shapes'
<1> USE DEF Shapes
<1>1. ASSUME NEW s \in Seeds, PutSeed(s) PROVE Shapes'
  BY <1>1 DEF PutSeed, taskVars, results, Pushers
<1>2. CASE SeedsEnd \/ SeedsFail \/ SeedsJoined \/ TasksJoined \/ Return
  BY <1>2 DEF SeedsEnd, SeedsFail, SeedsJoined, TasksJoined, Return, seedVars, taskVars, results,
              Pushers
<1>3. ASSUME NEW w \in EnumWorkers, NEW s \in Seeds, TakeSeed(w, s) PROVE Shapes'
  BY <1>3 DEF TakeSeed, taskVars, results, Pushers, Lister
<1>4. ASSUME NEW w \in EnumWorkers, NEW t \in Tasks, ListTask(w, t) PROVE Shapes'
  BY <1>4 DEF ListTask, results, Pushers, Lister
<1>5. ASSUME NEW w \in EnumWorkers, ListEnds(w) \/ ListFails(w) PROVE Shapes'
  BY <1>5 DEF ListEnds, ListFails, taskVars, results, Pushers, Lister
<1>6. ASSUME NEW w \in EnqWorkers, NEW t \in Tasks, TakeTask(w, t) PROVE Shapes'
  BY <1>6 DEF TakeTask, seedVars, results, Pushers, Pusher
<1>7. ASSUME NEW w \in EnqWorkers, Enqueued(w) PROVE Shapes'
  BY <1>7 DEF Enqueued, TaskDone, seedVars, Pushers, Pusher
<1>8. ASSUME NEW w \in EnqWorkers, Pushed(w) \/ EnqueueFails(w) PROVE Shapes'
  BY <1>8 DEF Pushed, EnqueueFails, TaskDone, seedVars, Pushers, Pusher
<1> QED BY <1>1, <1>2, <1>3, <1>4, <1>5, <1>6, <1>7, <1>8 DEF Next, Main, Listing, Pushing

(* A step keeps the counts when it moves items like this.                   *)
LEMMA CountsStep == ASSUME Shapes, CountsAgree, ListedOnce, Next PROVE CountsAgree'
<1>0. /\ seedsUnfinished = Cardinality(seedQueue) + Cardinality(Listers)
      /\ tasksUnfinished = Cardinality(taskQueue) + Cardinality(Pushers)
  BY CountsNamed
<1>a. ASSUME UNCHANGED <<seedQueue, seedsUnfinished>>, Listers' = Listers
      PROVE  seedsUnfinished' = Cardinality(seedQueue') + Cardinality(Listers')
  BY <1>0, <1>a
<1>b. ASSUME UNCHANGED <<taskQueue, tasksUnfinished>>, Pushers' = Pushers
      PROVE  tasksUnfinished' = Cardinality(taskQueue') + Cardinality(Pushers')
  BY <1>0, <1>b
<1>c. (UNCHANGED lister => Listers' = Listers) /\ (UNCHANGED pusher => Pushers' = Pushers)
  BY DEF Listers, Pushers
<1>1. ASSUME NEW s \in Seeds, PutSeed(s) PROVE CountsAgree'
  <2>1. /\ seedQueue' = seedQueue \cup {s} /\ s \notin seedQueue
        /\ seedsUnfinished' = seedsUnfinished + 1
        /\ UNCHANGED <<lister, taskQueue, tasksUnfinished, pusher>>
    BY <1>1 DEF PutSeed, ListedOnce, taskVars
  <2>2. Cardinality(seedQueue') = Cardinality(seedQueue) + 1
    BY <2>1, CountsFinite, FS_AddElement
  <2> QED BY <1>0, <1>b, <1>c, <2>1, <2>2, CountsFinite, CountsNamedNext
<1>2. CASE SeedsEnd \/ SeedsFail \/ SeedsJoined \/ TasksJoined \/ Return
  <2>1. UNCHANGED <<seedQueue, seedsUnfinished, lister, taskQueue, tasksUnfinished, pusher>>
    BY <1>2 DEF SeedsEnd, SeedsFail, SeedsJoined, TasksJoined, Return, seedVars, taskVars
  <2> QED BY <1>a, <1>b, <1>c, <2>1, CountsNamedNext
<1>3. ASSUME NEW w \in EnumWorkers, NEW s \in Seeds, TakeSeed(w, s) PROVE CountsAgree'
  <2>1. /\ seedQueue' = seedQueue \ {s} /\ s \in seedQueue
        /\ UNCHANGED <<seedsUnfinished, taskQueue, tasksUnfinished, pusher>>
    BY <1>3 DEF TakeSeed, taskVars
  <2>2. Listers' = Listers \cup {w} /\ w \notin Listers
    BY <1>3 DEF TakeSeed, Listers, Shapes, Lister
  <2>3. /\ Cardinality(seedQueue') = Cardinality(seedQueue) - 1
        /\ Cardinality(Listers') = Cardinality(Listers) + 1
    BY <2>1, <2>2, CountsFinite, FS_AddElement, FS_RemoveElement
  <2> QED BY <1>0, <1>b, <1>c, <2>1, <2>3, CountsFinite, CountsNamedNext
<1>4. ASSUME NEW w \in EnumWorkers, NEW t \in Tasks, ListTask(w, t) PROVE CountsAgree'
  <2>1. /\ taskQueue' = taskQueue \cup {t} /\ t \notin taskQueue
        /\ tasksUnfinished' = tasksUnfinished + 1
        /\ UNCHANGED <<seedQueue, seedsUnfinished, pusher>>
    BY <1>4 DEF ListTask, ListedOnce
  <2>2. Listers' = Listers
    BY <1>4 DEF ListTask, Listers, Shapes, Lister
  <2>3. Cardinality(taskQueue') = Cardinality(taskQueue) + 1
    BY <2>1, CountsFinite, FS_AddElement
  <2> QED BY <1>0, <1>a, <1>c, <2>1, <2>2, <2>3, CountsFinite, CountsNamedNext
<1>5. ASSUME NEW w \in EnumWorkers, ListEnds(w) \/ ListFails(w) PROVE CountsAgree'
  <2>1. /\ seedsUnfinished' = seedsUnfinished - 1
        /\ UNCHANGED <<seedQueue, taskQueue, tasksUnfinished, pusher>>
    BY <1>5 DEF ListEnds, ListFails, taskVars
  <2>2. Listers' = Listers \ {w} /\ w \in Listers
    BY <1>5 DEF ListEnds, ListFails, Listers, Shapes, Lister
  <2>3. Cardinality(Listers') = Cardinality(Listers) - 1
    BY <2>2, CountsFinite, FS_RemoveElement
  <2> QED BY <1>0, <1>b, <1>c, <2>1, <2>3, CountsFinite, CountsNamedNext
<1>6. ASSUME NEW w \in EnqWorkers, NEW t \in Tasks, TakeTask(w, t) PROVE CountsAgree'
  <2>1. /\ taskQueue' = taskQueue \ {t} /\ t \in taskQueue
        /\ UNCHANGED <<tasksUnfinished, seedQueue, seedsUnfinished, lister>>
    BY <1>6 DEF TakeTask, seedVars
  <2>2. Pushers' = Pushers \cup {w} /\ w \notin Pushers
    BY <1>6 DEF TakeTask, Pushers, Shapes, Pusher
  <2>3. /\ Cardinality(taskQueue') = Cardinality(taskQueue) - 1
        /\ Cardinality(Pushers') = Cardinality(Pushers) + 1
    BY <2>1, <2>2, CountsFinite, FS_AddElement, FS_RemoveElement
  <2> QED BY <1>0, <1>a, <1>c, <2>1, <2>3, CountsFinite, CountsNamedNext
<1>7. ASSUME NEW w \in EnqWorkers, pusher[w].pc = "enqueue",
             pusher' = [pusher EXCEPT ![w].pc = "push"],
             UNCHANGED <<seedQueue, seedsUnfinished, lister, taskQueue, tasksUnfinished>>
      PROVE  CountsAgree'
  <2>1. Pushers' = Pushers
    BY <1>7 DEF Pushers, Shapes, Pusher
  <2> QED BY <1>a, <1>b, <1>c, <1>7, <2>1, CountsNamedNext
<1>8. ASSUME NEW w \in EnqWorkers, NEW step \in {"get", "left"},
             pusher[w].pc \in {"enqueue", "push"}, TaskDone(w, step),
             UNCHANGED <<seedQueue, seedsUnfinished, lister, taskQueue>>
      PROVE  CountsAgree'
  <2>1. Pushers' = Pushers \ {w} /\ w \in Pushers
    BY <1>8 DEF TaskDone, Pushers, Shapes, Pusher
  <2>2. Cardinality(Pushers') = Cardinality(Pushers) - 1
    BY <2>1, CountsFinite, FS_RemoveElement
  <2>3. tasksUnfinished' = tasksUnfinished - 1
    BY <1>8 DEF TaskDone
  <2> QED BY <1>0, <1>a, <1>c, <1>8, <2>2, <2>3, CountsFinite, CountsNamedNext
<1>9. ASSUME NEW w \in EnqWorkers, Enqueued(w) \/ Pushed(w) \/ EnqueueFails(w) PROVE CountsAgree'
  BY <1>7, <1>8, <1>9 DEF Enqueued, Pushed, EnqueueFails, seedVars, taskVars
<1> QED BY <1>1, <1>2, <1>3, <1>4, <1>5, <1>6, <1>9 DEF Next, Main, Listing, Pushing

LEMMA BoundedStep == ASSUME Shapes, Bounded, Next PROVE Bounded'
<1>1. ASSUME NEW Q, IsFiniteSet(Q), Cardinality(Q) <= Capacity, NEW x
      PROVE  /\ Cardinality(Q \ {x}) <= Capacity
             /\ Cardinality(Q) < Capacity => Cardinality(Q \cup {x}) <= Capacity
  <2>1. Cardinality(Q) \in Nat /\ Capacity \in Nat
    BY <1>1, FlowAssumption, FS_CardinalityType
  <2>2. Cardinality(Q \ {x}) \in {Cardinality(Q), Cardinality(Q) - 1}
    BY <1>1, FS_RemoveElement
  <2>3. Cardinality(Q \cup {x}) \in {Cardinality(Q), Cardinality(Q) + 1}
    BY <1>1, FS_AddElement
  <2> QED BY <1>1, <2>1, <2>2, <2>3
<1>2. /\ \/ UNCHANGED seedQueue
         \/ \E s : seedQueue' = seedQueue \ {s}
         \/ Cardinality(seedQueue) < Capacity /\ \E s : seedQueue' = seedQueue \cup {s}
      /\ \/ UNCHANGED taskQueue
         \/ \E t : taskQueue' = taskQueue \ {t}
         \/ Cardinality(taskQueue) < Capacity /\ \E t : taskQueue' = taskQueue \cup {t}
  BY DEF Next, Main, Listing, Pushing, PutSeed, SeedsEnd, SeedsFail, SeedsJoined, TasksJoined,
         Return, TakeSeed, ListTask, ListEnds, ListFails, TakeTask, Enqueued, Pushed,
         EnqueueFails, TaskDone, seedVars, taskVars
<1> QED BY <1>1, <1>2, CountsFinite DEF Bounded

LEMMA ListedOnceStep == ASSUME Shapes, ListedOnce, Next PROVE ListedOnce'
<1> USE DEF ListedOnce
<1>1. ASSUME NEW s \in Seeds, PutSeed(s) PROVE ListedOnce'
  BY <1>1 DEF PutSeed, taskVars
<1>2. CASE SeedsEnd \/ SeedsFail \/ SeedsJoined \/ TasksJoined \/ Return
  BY <1>2 DEF SeedsEnd, SeedsFail, SeedsJoined, TasksJoined, Return, seedVars, taskVars
<1>3. ASSUME NEW w \in EnumWorkers, NEW s \in Seeds, TakeSeed(w, s) PROVE ListedOnce'
  <2>1. /\ \A v \in EnumWorkers \ {w} : lister'[v] = lister[v]
        /\ lister'[w].left = {t \in Tasks : ListedBy[t] = s}
        /\ seedQueue' = seedQueue \ {s} /\ s \in seedQueue /\ UNCHANGED <<seedsLeft, taskQueue>>
    BY <1>3 DEF TakeSeed, taskVars, Shapes
  <2> QED BY <2>1
<1>4. ASSUME NEW w \in EnumWorkers, NEW t \in Tasks, ListTask(w, t) PROVE ListedOnce'
  <2>1. /\ \A v \in EnumWorkers \ {w} : lister'[v] = lister[v]
        /\ lister'[w].left = lister[w].left \ {t} /\ t \in lister[w].left
        /\ taskQueue' = taskQueue \cup {t} /\ UNCHANGED <<seedsLeft, seedQueue>>
    BY <1>4 DEF ListTask, Shapes, Lister
  <2> QED BY <2>1
<1>5. ASSUME NEW w \in EnumWorkers, ListEnds(w) \/ ListFails(w) PROVE ListedOnce'
  <2>1. /\ \A v \in EnumWorkers : lister'[v].left \subseteq lister[v].left
        /\ UNCHANGED <<seedsLeft, seedQueue, taskQueue>>
    BY <1>5 DEF ListEnds, ListFails, Shapes, Lister, taskVars
  <2> QED BY <2>1
<1>6. ASSUME NEW w \in EnqWorkers,
             (\E t \in Tasks : TakeTask(w, t)) \/ Enqueued(w) \/ Pushed(w) \/ EnqueueFails(w)
      PROVE  ListedOnce'
  <2>1. taskQueue' \subseteq taskQueue /\ UNCHANGED <<seedsLeft, seedQueue, lister>>
    BY <1>6 DEF TakeTask, Enqueued, Pushed, EnqueueFails, TaskDone, seedVars, taskVars
  <2> QED BY <2>1
<1> QED BY <1>1, <1>2, <1>3, <1>4, <1>5, <1>6 DEF Next, Main, Listing, Pushing

LEMMA JoinedStep == ASSUME Shapes, CountsAgree, Joined, Next PROVE Joined'
<1> USE DEF Joined
<1>1. ASSUME NEW s \in Seeds, PutSeed(s) PROVE Joined'
  BY <1>1 DEF PutSeed
<1>2. CASE SeedsEnd \/ SeedsFail
  BY <1>2 DEF SeedsEnd, SeedsFail, seedVars
<1>3. CASE SeedsJoined
  <2>1. seedQueue = {} /\ Listers = {}
    BY <1>3, CountsNamed, CountsFinite, FS_EmptySet DEF SeedsJoined
  <2> QED BY <1>3, <2>1 DEF SeedsJoined, seedVars, Listers
<1>4. CASE TasksJoined
  <2>1. taskQueue = {} /\ Pushers = {}
    BY <1>4, CountsNamed, CountsFinite, FS_EmptySet DEF TasksJoined
  <2> QED BY <1>4, <2>1 DEF TasksJoined, seedVars, taskVars, Listers, Pushers
<1>5. CASE Return
  BY <1>5 DEF Return, seedVars, taskVars, Listers, Pushers
<1>6. ASSUME NEW w \in EnumWorkers, NEW s \in Seeds, TakeSeed(w, s) PROVE Joined'
  BY <1>6 DEF TakeSeed, Working
<1>7. ASSUME NEW w \in EnumWorkers,
             (\E t \in Tasks : ListTask(w, t)) \/ ListEnds(w) \/ ListFails(w)
      PROVE  Joined'
  BY <1>7 DEF ListTask, ListEnds, ListFails, Working, Listers
<1>8. ASSUME NEW w \in EnqWorkers,
             (\E t \in Tasks : TakeTask(w, t)) \/ Enqueued(w) \/ Pushed(w) \/ EnqueueFails(w)
      PROVE  Joined'
  <2>1. Working /\ UNCHANGED <<main, seedsLeft, seedQueue, lister>>
    BY <1>8 DEF TakeTask, Enqueued, Pushed, EnqueueFails, seedVars
  <2> QED BY <2>1 DEF Working, Listers
<1> QED BY <1>1, <1>2, <1>3, <1>4, <1>5, <1>6, <1>7, <1>8 DEF Next, Main, Listing, Pushing

LEMMA AccountedStep == ASSUME Shapes, Accounted, Next PROVE Accounted'
<1>1. SUFFICES ASSUME \A w \in EnumWorkers : lister'[w].pc # "failed", NEW t \in Tasks
               PROVE  AccountedFor(t)'
  BY DEF Accounted
<1>2. ASSUME NEW w \in EnumWorkers, lister[w].pc = "failed" PROVE lister'[w] = lister[w]
  BY <1>2 DEF Next, Main, Listing, Pushing, PutSeed, SeedsEnd, SeedsFail, SeedsJoined, TasksJoined,
              Return, TakeSeed, ListTask, ListEnds, ListFails, TakeTask, Enqueued, Pushed,
              EnqueueFails, seedVars, taskVars, Shapes
<1>3. AccountedFor(t)
  BY <1>1, <1>2 DEF Accounted
<1> USE <1>3 DEF AccountedFor
<1>4. ASSUME NEW s \in Seeds, PutSeed(s) PROVE AccountedFor(t)'
  BY <1>4 DEF PutSeed, taskVars, results, Listers, Pushers
<1>5. CASE SeedsEnd \/ SeedsFail \/ SeedsJoined \/ TasksJoined \/ Return
  BY <1>5 DEF SeedsEnd, SeedsFail, SeedsJoined, TasksJoined, Return, seedVars, taskVars, results,
              Listers, Pushers
<1>6. ASSUME NEW w \in EnumWorkers, NEW s \in Seeds, TakeSeed(w, s) PROVE AccountedFor(t)'
  <2>1. /\ \A v \in Listers : v \in Listers' /\ lister'[v] = lister[v]
        /\ w \in Listers' /\ lister'[w].left = {u \in Tasks : ListedBy[u] = s}
    BY <1>6 DEF TakeSeed, Listers, Shapes
  <2>2. /\ seedQueue' = seedQueue \ {s}
        /\ UNCHANGED <<seedsLeft, taskQueue, pusher, pushed, skipped, refused>>
    BY <1>6 DEF TakeSeed, taskVars, results
  <2> QED BY <2>1, <2>2 DEF Pushers
<1>7. ASSUME NEW w \in EnumWorkers, NEW u \in Tasks, ListTask(w, u) PROVE AccountedFor(t)'
  <2>1. /\ \A v \in Listers : v \in Listers' /\ (t \in lister[v].left => t \in lister'[v].left \/ t = u)
        /\ taskQueue' = taskQueue \cup {u}
    BY <1>7 DEF ListTask, Listers, Shapes, Lister
  <2>2. UNCHANGED <<seedsLeft, seedQueue, pusher, pushed, skipped, refused>>
    BY <1>7 DEF ListTask, results
  <2> QED BY <2>1, <2>2 DEF Pushers
<1>8. ASSUME NEW w \in EnumWorkers, ListEnds(w) PROVE AccountedFor(t)'
  <2>1. \A v \in Listers : v # w => v \in Listers' /\ lister'[v] = lister[v]
    BY <1>8 DEF ListEnds, Listers, Shapes
  <2>2. lister[w].left = {}
    BY <1>8 DEF ListEnds
  <2>3. UNCHANGED <<seedsLeft, seedQueue, taskQueue, pusher, pushed, skipped, refused>>
    BY <1>8 DEF ListEnds, taskVars, results
  <2> QED BY <2>1, <2>2, <2>3 DEF Pushers
<1>9. ASSUME NEW w \in EnumWorkers, ListFails(w) PROVE FALSE
  BY <1>1, <1>9 DEF ListFails, Shapes
<1>10. ASSUME NEW w \in EnqWorkers, NEW u \in Tasks, TakeTask(w, u) PROVE AccountedFor(t)'
  <2>1. /\ \A v \in Pushers : v \in Pushers' /\ pusher'[v] = pusher[v]
        /\ w \in Pushers' /\ pusher'[w].task = u
    BY <1>10 DEF TakeTask, Pushers, Shapes
  <2>2. /\ taskQueue' = taskQueue \ {u}
        /\ UNCHANGED <<seedsLeft, seedQueue, lister, pushed, skipped, refused>>
    BY <1>10 DEF TakeTask, seedVars, results
  <2> QED BY <2>1, <2>2 DEF Listers
<1>11. ASSUME NEW w \in EnqWorkers, Enqueued(w) \/ Pushed(w) \/ EnqueueFails(w)
       PROVE  AccountedFor(t)'
  <2>1. \A v \in Pushers : v # w => v \in Pushers' /\ pusher'[v] = pusher[v]
    BY <1>11 DEF Enqueued, Pushed, EnqueueFails, TaskDone, Pushers, Shapes
  <2>2. \/ w \in Pushers' /\ pusher'[w].task = pusher[w].task
        \/ pusher[w].task \in (pushed \cup skipped \cup refused)'
    BY <1>11 DEF Enqueued, Pushed, EnqueueFails, TaskDone, Pushers, Shapes, Pusher
  <2>3. /\ UNCHANGED <<seedsLeft, seedQueue, lister, taskQueue>>
        /\ pushed \cup skipped \cup refused \subseteq (pushed \cup skipped \cup refused)'
    BY <1>11 DEF Enqueued, Pushed, EnqueueFails, seedVars
  <2> QED BY <2>1, <2>2, <2>3 DEF Listers
<1> QED BY <1>4, <1>5, <1>6, <1>7, <1>8, <1>9, <1>10, <1>11 DEF Next, Main, Listing, Pushing

------------------------------------------------------------------------------
(* The theorems *)

LEMMA InitIInv == Init => IInv
<1> SUFFICES ASSUME Init PROVE IInv
  OBVIOUS
<1>1. Shapes
  BY DEF Init, Shapes, Lister, Pusher, Pushers
<1>2. Listers = {} /\ Pushers = {} /\ Cardinality({}) = 0
  BY FS_EmptySet DEF Init, Listers, Pushers
<1>3. CountsAgree /\ Bounded
  BY <1>2, CountsNamed, FlowAssumption DEF Init, Bounded
<1>4. ListedOnce /\ Accounted /\ Joined
  BY <1>2, FlowAssumption DEF Init, ListedOnce, Accounted, AccountedFor, Joined
<1> QED BY <1>1, <1>3, <1>4 DEF IInv

LEMMA NextIInv == IInv /\ [Next]_vars => IInv'
<1> SUFFICES ASSUME IInv, [Next]_vars PROVE IInv'
  OBVIOUS
<1>1. CASE Next
  BY <1>1, ShapesStep, CountsStep, BoundedStep, ListedOnceStep, AccountedStep, JoinedStep DEF IInv
<1>2. CASE UNCHANGED vars
  BY <1>2 DEF vars, seedVars, taskVars, results, IInv, Shapes, CountsAgree, Bounded, ListedOnce,
              Accounted, AccountedFor, Joined, Listers, Pushers
<1> QED BY <1>1, <1>2

(* The inductive invariant holds in every reachable state.                  *)
THEOREM Invariance == Spec => []IInv
BY InitIInv, NextIInv, PTL DEF Spec

(* Every variable of the batch keeps its type, the queues stay within their *)
(* capacity, and task_done() is never called too often: the counts stay     *)
(* natural numbers.                                                         *)
THEOREM TypeCorrectness == Spec => []TypeOK
<1>1. IInv => TypeOK
  BY CountsFinite, CountsNamed DEF IInv, Shapes, Bounded, TypeOK, Lister, Pusher
<1> QED BY <1>1, Invariance, PTL

(* The counts that the join()s wait for are those of the unfinished items.  *)
THEOREM CountsAreRight == Spec => []CountsAgree
<1>1. IInv => CountsAgree
  BY DEF IInv
<1> QED BY <1>1, Invariance, PTL

(* No task is forgotten by a batch_enqueue that returns.                    *)
THEOREM NothingIsForgotten == Spec => []NothingForgotten
<1>1. IInv => NothingForgotten
  BY DEF IInv, Shapes, Accounted, AccountedFor, Joined, NothingForgotten
<1> QED BY <1>1, Invariance, PTL

(* The workers are cancelled only while they wait for an item: none is      *)
(* interrupted in the middle of a listing or a push.                        *)
THEOREM NoneIsInterrupted == Spec => []CancelledAtRest
<1>1. IInv => CancelledAtRest
  BY DEF IInv, Shapes, Joined, CancelledAtRest, Listers, Pushers, Pusher
<1> QED BY <1>1, Invariance, PTL
==============================================================================
