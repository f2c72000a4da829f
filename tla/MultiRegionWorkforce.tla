------------------------- MODULE MultiRegionWorkforce -------------------------
(***************************************************************************)
(* The scheduler of orchestration/multiregion_workforce.py: one tick reads  *)
(* the states of all regions and the size of the queue, decides how many    *)
(* workers there should be, and hires, lays off and resumes region after    *)
(* region through the operations of Workforce.                              *)
(*                                                                          *)
(* Jobs start, pause and end at the service between any two steps, so each  *)
(* phase acts on what an earlier one has read.                              *)
(***************************************************************************)
EXTENDS Workforce

CONSTANTS
  LazyChoices,    \* the values of use_lazy_states, a subset of BOOLEAN
  MaxNumWorkers,  \* max_num_workers
  WorkersPerJob,  \* num_workers
  QueueSizes,     \* the queue sizes a tick may find
  ManualHires,    \* the arguments of run(manual_hire=...)
  ScaleTargets    \* the arguments of Workforce.scale_to

ASSUME SchedulerAssumption ==
  /\ LazyChoices \subseteq BOOLEAN /\ MaxNumWorkers \in Nat
  /\ WorkersPerJob \in Nat \ {0} /\ QueueSizes \subseteq Nat
  /\ ManualHires \subseteq Int /\ ScaleTargets \subseteq Nat

VARIABLES
  pc,        \* what the tick does next, "idle" between ticks
  mode,      \* "auto", "zero" (scale_to_zero) or "manual"
  manual,    \* manual_hire
  unread,    \* regions the current phase has still to visit
  lazy,      \* use_lazy_states
  states,    \* _states: the sizes last read
  cached,    \* _states is not None
  lastGood,  \* _last_good_state
  have,      \* total_current
  pending,   \* currently_pending
  size,      \* the queue size
  total,     \* total_to_hire, or the number to lay off
  avail,     \* available_for_hire_list
  plan,      \* what this phase does in each region
  history    \* ceiling: how many workers the command under way may bring
             \* about; trusted: no state read failed in it; faulty: a call
             \* failed in it; slack[r]: workers that ceased to be pending
             \* since region r was last read, less running ones laid off

tickVars == <<pc, mode, manual, unread, lazy, states, cached, lastGood, have, pending,
              size, total, avail, plan>>
vars == <<workforceVars, tickVars, history>>

NoState == [pending |-> 0, running |-> 0]
Zeros == [r \in Regions |-> 0]

(* The sum over all regions, and over the first r of them.                  *)
SumUpTo(f) ==
  LET upTo[r \in 0..NRegions] == IF r = 0 THEN 0 ELSE upTo[r - 1] + f[r] IN upTo
SumOver(f) == SumUpTo(f)[NRegions]

Least(a, b) == IF a < b THEN a ELSE b
Positive(n) == IF n > 0 THEN n ELSE 0

ActiveCount == SumOver([r \in Regions |-> Cardinality(JobsIn(r, Active))])

TypeOK ==
  /\ WorkforceTypeOK
  /\ pc \in {"idle", "running", "pending", "queue", "determine", "zero", "planLayoff",
             "capacity", "query", "layoff", "hire", "discover", "resume", "down"}
  /\ mode \in {"auto", "zero", "manual", "scaleTo"} /\ manual \in ManualHires \cup {0}
  /\ unread \subseteq Regions /\ {lazy, cached} \subseteq BOOLEAN
  /\ {states, lastGood} \subseteq [Regions -> [pending : Nat, running : Nat]]
  /\ {have, pending, size} \subseteq Nat /\ total \in Int
  /\ avail \in [Regions -> Int] /\ plan \in [Regions -> Nat]
  /\ history \in [ceiling : Nat, trusted : BOOLEAN, faulty : BOOLEAN,
                  slack : [Regions -> Int]]

Idle == pc = "idle" /\ op = NoOp

Init ==
  /\ WorkforceInit
  /\ pc = "idle" /\ mode = "auto" /\ manual = 0 /\ unread = {}
  /\ lazy \in LazyChoices /\ cached = FALSE
  /\ states = [r \in Regions |-> NoState] /\ lastGood = states
  /\ have = 0 /\ pending = 0 /\ size = 0 /\ total = 0
  /\ avail = Zeros /\ plan = Zeros
  /\ history = [ceiling |-> 0, trusted |-> TRUE, faulty |-> FALSE, slack |-> Zeros]

------------------------------------------------------------------------------
(* The property states: every phase reads the states of all regions again,  *)
(* unless they are lazy and read in this tick.                              *)

Fetch(phase) ==
  /\ pc' = phase
  /\ unread' = IF lazy /\ cached THEN {} ELSE Regions

(* _map_regions, in list order.  A pool reads in any order, with the same   *)
(* results: a reading changes nothing, and no job concerns two regions.     *)
InTurn(r) == r \in unread /\ \A s \in unread : r <= s

Fetching == pc \in {"running", "pending", "determine", "zero", "planLayoff", "capacity"}

StateRead(r) ==
  /\ Fetching /\ InTurn(r)
  /\ unread' = unread \ {r}
  /\ states' = [states EXCEPT ![r] = CurrentState(r)]
  /\ lastGood' = [lastGood EXCEPT ![r] = CurrentState(r)]
  /\ cached' = TRUE
  /\ history' = [history EXCEPT !.slack[r] = 0]
  /\ UNCHANGED <<workforceVars, pc, mode, manual, lazy, have, pending, size, total,
                 avail, plan>>

(* One region that cannot be read does not stop the tick: its last good     *)
(* state counts, at first no workers at all.                                *)
StateReadFails(r) ==
  /\ Fetching /\ InTurn(r)
  /\ unread' = unread \ {r}
  /\ states' = [states EXCEPT ![r] = lastGood[r]]
  /\ cached' = TRUE
  /\ history' = [history EXCEPT !.trusted = FALSE, !.faulty = TRUE]
  /\ Fault
  /\ UNCHANGED <<job, op, todo, pc, mode, manual, lazy, lastGood, have, pending, size, total,
                 avail, plan>>

------------------------------------------------------------------------------
(* run(): the beginning of a tick and its two counts.                       *)

TickBegins(m, n) ==
  /\ Idle
  /\ mode' = m /\ manual' = n
  /\ cached' = FALSE
  /\ pc' = "running" /\ unread' = Regions
  /\ history' = [history EXCEPT
       !.ceiling = IF m = "auto" /\ ActiveCount < MaxNumWorkers THEN MaxNumWorkers
                   ELSE ActiveCount + NRegions * Positive(n),
       !.trusted = TRUE, !.faulty = FALSE, !.slack = Zeros]
  /\ UNCHANGED <<workforceVars, lazy, states, lastGood, have, pending, size, total,
                 avail, plan>>

(* Running and pending workers are two readings, unless the states are lazy.*)
CountRunning ==
  /\ pc = "running" /\ unread = {}
  /\ have' = SumOver([r \in Regions |-> states[r].running])
  /\ Fetch("pending")
  /\ UNCHANGED <<workforceVars, mode, manual, lazy, states, cached, lastGood, pending, size,
                 total, avail, plan, history>>

CountPending ==
  /\ pc = "pending" /\ unread = {}
  /\ pending' = SumOver([r \in Regions |-> states[r].pending])
  /\ have' = have + pending'
  /\ pc' = "queue"
  /\ UNCHANGED <<workforceVars, mode, manual, unread, lazy, states, cached, lastGood, size,
                 total, avail, plan, history>>

(* determine_number_of_workers.                                             *)
TargetSize(queueSize, running) ==
  LET perJob == queueSize \div WorkersPerJob
      tier == CASE perJob > 100000 -> 5000
                [] perJob > 50000 /\ perJob <= 100000 -> 2000
                [] perJob > 10000 /\ perJob <= 50000 -> 1000
                [] perJob > 1000 /\ perJob <= 10000 -> 400
                [] perJob > 100 /\ perJob <= 1000 -> 50
                [] perJob > 20 /\ perJob <= 100 -> 15
                [] perJob > 10 /\ perJob <= 20 -> 5
                [] OTHER -> 1
  IN Least(Least((1 + running) * 10, tier), Least(queueSize, MaxNumWorkers))

------------------------------------------------------------------------------
(* What the tick does with the counts.                                      *)

(* The regions that have something to do, in a phase that acts.             *)
Act(phase, p) == pc' = phase /\ plan' = p /\ unread' = {r \in Regions : p[r] > 0}

(* run() returns; its locals are gone.                                      *)
TickReturns ==
  /\ pc' = "idle" /\ unread' = {} /\ plan' = Zeros /\ avail' = Zeros
  /\ have' = 0 /\ pending' = 0 /\ size' = 0 /\ total' = 0
  /\ states' = [r \in Regions |-> NoState] /\ cached' = FALSE
  /\ manual' = 0

ApplyUniformChange ==
  Act(IF manual > 0 THEN "hire" ELSE "layoff",
      [r \in Regions |-> IF manual > 0 THEN manual ELSE -manual])

Decide(toHire) ==
  \/ /\ mode = "zero"
     /\ Fetch("zero")
     /\ UNCHANGED <<manual, states, cached, have, pending, size, total, avail, plan>>
  \/ /\ mode = "manual" /\ manual # 0
     /\ ApplyUniformChange
     /\ UNCHANGED <<manual, states, cached, have, pending, size, total, avail>>
  \/ /\ \/ mode = "manual" /\ manual = 0
        \/ mode = "auto" /\ toHire = 0
        \/ mode = "auto" /\ toHire < 0 /\ pending = 0     \* not implemented
     /\ TickReturns
  \/ /\ mode = "auto" /\ toHire < 0 /\ pending > 0
     /\ total' = -toHire
     /\ Fetch("planLayoff")
     /\ UNCHANGED <<manual, states, cached, have, pending, size, avail, plan>>
  \/ /\ mode = "auto" /\ toHire > 0
     /\ total' = toHire
     /\ Fetch("capacity")
     /\ UNCHANGED <<manual, states, cached, have, pending, size, avail, plan>>

(* determine_number_of_workers asks the queue, which may be empty, and then *)
(* the states again.                                                        *)
ReadQueueSize(n) ==
  /\ pc = "queue"
  /\ IF n = 0
     THEN Decide(0 - have)
     ELSE /\ size' = n
          /\ Fetch("determine")
          /\ UNCHANGED <<manual, states, cached, have, pending, total, avail, plan>>
  /\ UNCHANGED <<workforceVars, mode, lazy, lastGood, history>>

DetermineNumberOfWorkers ==
  /\ pc = "determine" /\ unread = {}
  /\ Decide(TargetSize(size, SumOver([r \in Regions |-> states[r].running])) - have)
  /\ UNCHANGED <<workforceVars, mode, lazy, lastGood, history>>

(* Nothing catches an exception of the queue: run() and run_forever() end.  *)
QueueSizeFails ==
  /\ pc = "queue"
  /\ pc' = "down"
  /\ history' = [history EXCEPT !.faulty = TRUE]
  /\ Fault
  /\ UNCHANGED <<job, op, todo, mode, manual, unread, lazy, states, cached, lastGood, have, pending,
                 size, total, avail, plan>>

(* scale_to_zero lays off as many as each region had.                       *)
ScaleToZero_RunningOnly ==
  /\ pc = "zero" /\ unread = {}
  /\ Act("layoff", [r \in Regions |-> states[r].running])
  /\ UNCHANGED <<workforceVars, mode, manual, lazy, states, cached, lastGood, have, pending,
                 size, total, avail, history>>

ScaleToZero ==
  /\ pc = "zero" /\ unread = {}
  /\ Act("layoff", [r \in Regions |-> states[r].running + states[r].pending])
  /\ UNCHANGED <<workforceVars, mode, manual, lazy, states, cached, lastGood, have, pending,
                 size, total, avail, history>>

(* The distribution loop of run() and of layoff_queued_workers: from the    *)
(* region with the least room to the one with the most, an equal share and  *)
(* what the regions before could not take.                                  *)
Before(room, r) ==
  {s \in Regions : \/ room[s] < room[r]
                   \/ room[s] = room[r] /\ s < r}

InOrder(room, k) == CHOOSE r \in Regions : Cardinality(Before(room, r)) = k - 1

Give(sofar, r, planned, share) ==
  [dist |-> [sofar.dist EXCEPT ![r] = planned], carry |-> sofar.carry + share - planned]

Planned_NoLimit(n, share, room, sofar, r) == Least(share + sofar.carry, Positive(room[r]))

Planned_NegativeRoom(n, share, room, sofar, r) ==
  Least(Least(share + sofar.carry, room[r]), n - SumOver(sofar.dist))

Planned(n, share, room, sofar, r) ==
  Least(Least(share + sofar.carry, Positive(room[r])), n - SumOver(sofar.dist))

Rounds(n, share, room) ==
  LET round[k \in 0..NRegions] ==
        IF k = 0 THEN [dist |-> Zeros, carry |-> 0]
        ELSE Give(round[k - 1], InOrder(room, k),
                  Planned(n, share, room, round[k - 1], InOrder(room, k)), share)
  IN round

Distribute(n, share, room) == Rounds(n, share, room)[NRegions].dist

PlanLayoff ==
  /\ pc = "planLayoff" /\ unread = {}
  /\ Act("layoff", Distribute(total, total \div NRegions, [r \in Regions |-> states[r].pending]))
  /\ UNCHANGED <<workforceVars, mode, manual, lazy, states, cached, lastGood, have, pending,
                 size, total, avail, history>>

(* The snapshot of the states, then the compute cluster of every region.    *)
SnapshotStates ==
  /\ pc = "capacity" /\ unread = {}
  /\ pc' = "query" /\ unread' = Regions
  /\ UNCHANGED <<workforceVars, mode, manual, lazy, states, cached, lastGood, have, pending,
                 size, total, avail, plan, history>>

QueryCapacity(r) ==
  /\ pc = "query" /\ InTurn(r)
  /\ unread' = unread \ {r}
  /\ \/ avail' = [avail EXCEPT ![r] = AvailableToHire(r, states[r])] /\ NoFault
     \/ avail' = [avail EXCEPT ![r] = 0] /\ Fault
  /\ UNCHANGED <<job, op, todo, pc, mode, manual, lazy, states, cached, lastGood, have, pending,
                 size, total, plan, history>>

PlanHire_NoRemainder ==
  /\ pc = "query" /\ unread = {}
  /\ Act("hire", Distribute(total, total \div NRegions, avail))
  /\ UNCHANGED <<workforceVars, mode, manual, lazy, states, cached, lastGood, have, pending,
                 size, total, avail, history>>

PlanHire ==
  /\ pc = "query" /\ unread = {}
  /\ Act("hire", Distribute(total, 1 + total \div NRegions, avail))
  /\ UNCHANGED <<workforceVars, mode, manual, lazy, states, cached, lastGood, have, pending,
                 size, total, avail, history>>

------------------------------------------------------------------------------
(* Acting, one region after the other in list order; an exception of one    *)
(* region is logged and the next one follows.                               *)

(* _hire_on: batch_size bounds a batch, or is as large as the hire.         *)
HireOn(r) == HireOp(r, plan[r], FALSE)

ActInRegion ==
  /\ pc \in {"layoff", "hire", "resume"} /\ op = NoOp /\ unread # {}
  /\ \E r \in unread :
        /\ InTurn(r)
        /\ unread' = unread \ {r}
        /\ op' = CASE pc = "layoff" -> LayoffOp(r, plan[r], FALSE)
                   [] pc = "hire" -> HireOn(r)
                   [] pc = "resume" -> ResumeOp(r, plan[r], FALSE)
  /\ UNCHANGED <<job, todo, faults, pc, mode, manual, lazy, states, cached, lastGood, have, pending,
                 size, total, avail, plan, history>>

(* Only a tick that has hired resumes the paused workers.                   *)
Acted ==
  /\ pc \in {"layoff", "hire", "resume"} /\ op = NoOp /\ unread = {}
  /\ \/ /\ pc = "hire" /\ mode = "auto"
        /\ pc' = "discover" /\ unread' = Regions /\ plan' = Zeros
        /\ UNCHANGED <<manual, states, cached, have, pending, size, total, avail>>
     \/ /\ ~(pc = "hire" /\ mode = "auto")
        /\ TickReturns
  /\ UNCHANGED <<workforceVars, mode, lazy, lastGood, history>>

DiscoverPaused(r) ==
  /\ pc = "discover" /\ InTurn(r)
  /\ unread' = unread \ {r}
  /\ \/ plan' = [plan EXCEPT ![r] = Cardinality(JobsIn(r, {"Paused"}))] /\ NoFault
     \/ plan' = [plan EXCEPT ![r] = 0] /\ Fault
  /\ UNCHANGED <<job, op, todo, pc, mode, manual, lazy, states, cached, lastGood, have, pending,
                 size, total, avail, history>>

ResumeAllRegions ==
  /\ pc = "discover" /\ unread = {}
  /\ Act("resume", plan)
  /\ UNCHANGED <<workforceVars, mode, manual, lazy, states, cached, lastGood, have, pending,
                 size, total, avail, history>>
------------------------------------------------------------------------------
(* The steps of Workforce and of the service, with what history keeps.      *)

LaidOffRunning(r) ==
  Cardinality({i \in DOMAIN job[r] : job[r][i] = "Running" /\ job'[r][i] = "Ended"})

WorkforceActs ==
  /\ WorkforceStep
  /\ history' = [history EXCEPT
       !.faulty = @ \/ faults' # faults,
       !.slack = IF pc = "layoff" /\ mode = "auto"
                 THEN [r \in Regions |-> @[r] - LaidOffRunning(r)] ELSE @]
  /\ UNCHANGED tickVars

(* A pending worker has started to run, or has ended.                       *)
MovedOn(r) == \E i \in DOMAIN job[r] : job[r][i] \in Pending /\ job'[r][i] \notin Pending

PlatformActs(r) ==
  /\ PlatformStep(r)
  /\ history' = IF mode = "auto" /\ MovedOn(r)
                   /\ pc \in {"running", "pending", "queue", "determine",
                              "planLayoff", "layoff"}
                THEN [history EXCEPT !.slack[r] = Least(@ + 1, MaxJobs[r])] ELSE history
  /\ UNCHANGED tickVars

(* Someone calls scale_to on one workforce, between two ticks.              *)
ScaleToCalled(r, n, layoffs) ==
  /\ Idle
  /\ op' = [NoOp EXCEPT !.kind = "scale", !.r = r, !.n = n, !.layoffs = layoffs]
  /\ mode' = "scaleTo"
  /\ history' = [history EXCEPT
       !.ceiling = ActiveCount + Positive(n - Cardinality(JobsIn(r, Active))),
       !.trusted = TRUE, !.faulty = FALSE, !.slack = Zeros]
  /\ UNCHANGED <<job, todo, faults, pc, manual, unread, lazy, states, cached, lastGood, have,
                 pending, size, total, avail, plan>>

(* A scheduler that went down is started again, and remembers nothing.      *)
Restarts ==
  /\ pc = "down"
  /\ TickReturns
  /\ lastGood' = [r \in Regions |-> NoState]
  /\ UNCHANGED <<workforceVars, mode, lazy, history>>

TickStep ==
  \/ \E r \in Regions : StateRead(r) \/ StateReadFails(r) \/ QueryCapacity(r) \/ DiscoverPaused(r)
  \/ CountRunning \/ CountPending
  \/ \E n \in QueueSizes : ReadQueueSize(n)
  \/ QueueSizeFails \/ DetermineNumberOfWorkers
  \/ ScaleToZero \/ PlanLayoff \/ SnapshotStates \/ PlanHire
  \/ ActInRegion \/ Acted \/ ResumeAllRegions

(* run_forever: tick, sleep, tick.                                          *)
RunForever == TickBegins("auto", 0)

Commands ==
  \/ TickBegins("zero", 0)
  \/ \E n \in ManualHires : TickBegins("manual", n)
  \/ \E r \in Regions, n \in ScaleTargets, layoffs \in BOOLEAN : ScaleToCalled(r, n, layoffs)

Next ==
  \/ RunForever \/ TickStep \/ WorkforceActs
  \/ Commands \/ Restarts
  \/ \E r \in Regions : PlatformActs(r)

Spec == Init /\ [][Next]_vars

(* The scheduler ticks for ever and its calls end, one way or the other.    *)
FairSpec == Spec /\ WF_vars(RunForever) /\ WF_vars(TickStep) /\ WF_vars(WorkforceActs)

------------------------------------------------------------------------------
(* No command ever brings about more active workers than it may: a tick     *)
(* MaxNumWorkers or as many as there already were, scale_to its target,     *)
(* manual_hire so many per region -- whatever jobs do meanwhile, provided   *)
(* the tick counts running and pending workers in one reading (use_lazy_    *)
(* states) and every region could be read.                                  *)
CeilingKept ==
  lazy /\ history.trusted /\ (pc # "idle" \/ op # NoOp) => ActiveCount <= history.ceiling

(* The plans of a tick add up.  A hire is exact: all that is to be hired if *)
(* the regions together have room for it, all the room if not, and no       *)
(* region gets more than its room.  A lay-off of queued workers takes no    *)
(* more from a region than were pending there, never more than asked, and   *)
(* falls short of what it could take by less than one worker per region     *)
(* (the remainder of the division).                                         *)
PlansAddUp ==
  mode = "auto" =>
    LET room == SumOver([r \in Regions |-> Positive(avail[r])])
        queued == SumOver([r \in Regions |-> states[r].pending])
    IN /\ pc = "hire" => /\ \A r \in Regions : plan[r] <= Positive(avail[r])
                        /\ SumOver(plan) = Least(total, room)
       /\ pc = "layoff" => /\ \A r \in Regions : plan[r] <= states[r].pending
                          /\ SumOver(plan) <= total
                          /\ SumOver(plan) > Least(total, queued) - NRegions

(* An automatic scale-down means queued workers; a running one is laid off  *)
(* in a region only in place of one that was pending when the tick last     *)
(* read that region and has since started to run or ended.                  *)
RunningLaidOffForOthers ==
  history.trusted => \A r \in Regions : history.slack[r] >= 0

(* After run(scale_to_zero=True) in which no call failed no worker is left, *)
(* whatever started, paused or ended since the states were read.            *)
ZeroMeansZero ==
  pc = "idle" /\ mode = "zero" /\ ~history.faulty => ActiveCount = 0

PausedJob(r, i) == i \in DOMAIN job[r] /\ job[r][i] = "Paused"

(* "Resume any paused workers in every region at the end of each tick"      *)
(* (multiregion_workforce.py:623): a paused worker does not stay paused.    *)
PausedAreResumed ==
  \A r \in Regions :
    \A i \in 1..MaxJobs[r] : PausedJob(r, i) ~> ~PausedJob(r, i)
==============================================================================
