------------------------------ MODULE Workforce ------------------------------
(***************************************************************************)
(* The operations of a workforce (orchestration/workforce.py) on the jobs   *)
(* of its region: state, scale_to, hire, lay_off and resume, the last three *)
(* sequential or with a pool of threads, and the AzureML service that runs  *)
(* and refuses what it wants between any two calls.                         *)
(*                                                                          *)
(* A workforce keeps no state but what the service says.  The variable op   *)
(* is the operation under way, of which the scheduler runs one at a time,   *)
(* and todo the workers it has still to lay off or resume, which the        *)
(* threads of its pool serve in any order.                                  *)
(***************************************************************************)
EXTENDS Integers, Sequences, FiniteSets, Functions

CONSTANTS
  NRegions,     \* the workforces, one per region, 1..NRegions in list order
  MaxNodes,     \* MaxNodes[r]: maxNodeCount of the cluster of region r
  Stages,       \* the statuses a job of this instance goes through, to Running
  BatchSize,    \* workers per batch of parallel_hire_in_batches (512)
  MaxRetries,   \* _RESUME_MAX_RETRIES and _LIST_JOBS_MAX_RETRIES (3)
  MaxJobs,      \* bound: MaxJobs[r] jobs are ever submitted to region r
  MaxFaults     \* bound: calls that fail for good, in all

Regions == 1..NRegions

(* _LAYOFF_STATUS_PRIORITY: who is laid off first.                          *)
Priority == <<"Paused", "Queued", "Waiting", "Preparing", "Starting", "Running">>
Active == {Priority[k] : k \in 1..Len(Priority)}
Pending == Active \ {"Running"}
OnNode == {"Preparing", "Starting", "Running"}

(* A job that was submitted is in one of these statuses or over: what the   *)
(* Status type has before ("Not started", "Validating") and after them      *)
(* ("Finalizing", "Cancel requested") passes at once.  The code neither     *)
(* counts nor lays off a job in one of those.                               *)
ASSUME WorkforceAssumption ==
  /\ NRegions \in Nat \ {0} /\ {MaxNodes, MaxJobs} \subseteq [Regions -> Nat]
  /\ Stages \in Seq(Active) /\ Len(Stages) > 0 /\ Stages[Len(Stages)] = "Running"
  /\ \A s \in 1..(Len(Stages) - 1) : Stages[s] \in Pending
  /\ BatchSize \in Nat \ {0} /\ {MaxRetries, MaxFaults} \subseteq Nat

VARIABLES
  job,     \* job[r][i]: the status of the i-th job submitted to region r
  op,      \* the operation under way, and on which region
  todo,    \* todo[i]: the place of job i in the order of the operation, and
           \* the attempts made; its domain the jobs still to be served
  faults   \* calls that failed for good so far

workforceVars == <<job, op, todo, faults>>

NoOp == [kind |-> "none", r |-> 1, n |-> 0, batch |-> 0, prime |-> FALSE,
         seq |-> FALSE, layoffs |-> FALSE, att |-> 0]
NoOneToServe == <<>>

WorkforceTypeOK ==
  /\ job \in [Regions -> Seq(Active \cup {"Ended"})]
  /\ \A r \in Regions : Len(job[r]) <= MaxJobs[r]
  /\ op \in [kind : {"none", "scale", "hire", "layoffList", "layoff", "resumeList", "resume"},
             r : Regions, n : Nat, batch : 0..BatchSize, prime : BOOLEAN,
             seq : BOOLEAN, layoffs : BOOLEAN, att : 0..MaxRetries]
  /\ \A i \in DOMAIN todo : /\ i \in DOMAIN job[op.r]
                           /\ todo[i] \in [place : Nat, att : 0..MaxRetries]
  /\ faults \in 0..MaxFaults

WorkforceInit ==
  /\ job \in [Regions -> {<<>>, <<"Running">>, <<"Queued">>}]
  /\ \A r \in Regions : Len(job[r]) <= MaxJobs[r]
  /\ op = NoOp /\ todo = NoOneToServe /\ faults = 0

Fault == faults < MaxFaults /\ faults' = faults + 1
NoFault == UNCHANGED faults

------------------------------------------------------------------------------
(* What the workforce reads: the jobs list_jobs finds, the counts of        *)
(* get_current_state, and the room get_available_to_hire finds, where a job *)
(* that is preparing on a node counts twice.                                *)

JobsIn(r, statuses) == {i \in DOMAIN job[r] : job[r][i] \in statuses}

CurrentState(r) == [pending |-> Cardinality(JobsIn(r, Pending)),
                    running |-> Cardinality(JobsIn(r, {"Running"}))]

TargetNodeCount(r) == Cardinality(JobsIn(r, OnNode))

AvailableToHire(r, state) == MaxNodes[r] - TargetNodeCount(r) - state.pending

(* The order of a lay-off: a stable sort by status of a list that has the   *)
(* oldest first.                                                            *)
Rank(status) == CHOOSE k \in 1..Len(Priority) : Priority[k] = status

Precedes_RunningFirst(r, i, j) ==
  \/ Rank(job[r][i]) > Rank(job[r][j])
  \/ job[r][i] = job[r][j] /\ i < j

Precedes(r, i, j) ==
  \/ Rank(job[r][i]) < Rank(job[r][j])
  \/ job[r][i] = job[r][j] /\ i < j

(* The first n of the workers in these statuses, each with its place; the   *)
(* oldest are first among those of one status.                              *)
FirstOf(r, statuses, n) ==
  LET place(i) == Cardinality({j \in JobsIn(r, statuses) : Precedes(r, j, i)})
  IN [i \in {i \in JobsIn(r, statuses) : place(i) < n} |-> [place |-> place(i), att |-> 0]]

LayoffCandidates(r, n) == FirstOf(r, Active, n)

PausedCandidates(r, n) == FirstOf(r, {"Paused"}, n)

------------------------------------------------------------------------------
(* Operations as they start: non-positive sizes do nothing.                 *)

NextBatch(n) == IF n < BatchSize THEN n ELSE BatchSize

HireOp(r, n, seq) ==
  IF n <= 0 THEN NoOp
  ELSE [NoOp EXCEPT !.kind = "hire", !.r = r, !.n = n, !.seq = seq,
                    !.batch = NextBatch(n), !.prime = TRUE]

LayoffOp(r, n, seq) ==
  IF n <= 0 THEN NoOp ELSE [NoOp EXCEPT !.kind = "layoffList", !.r = r, !.n = n, !.seq = seq]

ResumeOp(r, n, seq) ==
  IF n <= 0 THEN NoOp ELSE [NoOp EXCEPT !.kind = "resumeList", !.r = r, !.n = n, !.seq = seq]

(* _request_with_retry: a network error, a 5xx or a 429 is tried again.     *)
RequestRetried ==
  /\ op.kind \in {"scale", "layoffList", "resumeList"}
  /\ op.att < MaxRetries
  /\ op' = [op EXCEPT !.att = @ + 1]
  /\ UNCHANGED <<job, todo>> /\ NoFault

(* The last attempt failed, or the service refused: list_jobs raises, and   *)
(* the operation with it.                                                   *)
RequestFailed ==
  /\ op.kind \in {"scale", "layoffList", "resumeList"}
  /\ op' = NoOp
  /\ UNCHANGED <<job, todo>> /\ Fault

(* scale_to: the state, then a sequential hire or lay-off of the difference.*)
ScaleTo ==
  /\ op.kind = "scale"
  /\ LET state == CurrentState(op.r)
         toStart == op.n - state.running - state.pending
     IN op' = IF toStart > 0 THEN HireOp(op.r, toStart, TRUE)
              ELSE IF op.layoffs THEN LayoffOp(op.r, -toStart, TRUE)
              ELSE NoOp
  /\ UNCHANGED <<job, todo>> /\ NoFault

ListWorkers ==
  /\ op.kind \in {"layoffList", "resumeList"}
  /\ LET candidates == IF op.kind = "layoffList" THEN LayoffCandidates(op.r, op.n)
                       ELSE PausedCandidates(op.r, op.n)
     IN /\ todo' = candidates
        /\ op' = IF DOMAIN candidates = {} THEN NoOp
                 ELSE [op EXCEPT !.kind = IF @ = "layoffList" THEN "layoff" ELSE "resume",
                                 !.att = 0]
  /\ UNCHANGED job /\ NoFault

------------------------------------------------------------------------------
(* Hiring.  A batch submits its first worker alone, to upload the code      *)
(* once: if that fails the whole operation does; the other submissions of a *)
(* batch run in threads and their failures are only counted.                *)

Submitted ==
  IF op.n = 1 THEN NoOp
  ELSE IF op.batch = 1 THEN [op EXCEPT !.n = @ - 1, !.batch = NextBatch(op.n - 1), !.prime = TRUE]
  ELSE [op EXCEPT !.n = @ - 1, !.batch = @ - 1, !.prime = FALSE]

(* Created, at the first attempt or at one whose answer was lost and whose  *)
(* repetition finds the name taken (JobPropertyImmutable).                  *)
SubmitJob ==
  /\ op.kind = "hire"
  /\ Len(job[op.r]) < MaxJobs[op.r]
  /\ job' = [job EXCEPT ![op.r] = Append(@, Stages[1])]
  /\ op' = Submitted
  /\ UNCHANGED todo /\ NoFault

(* Any other error, before or after the service created the job.            *)
SubmitFails ==
  /\ op.kind = "hire"
  /\ \E created \in BOOLEAN :
       /\ created => Len(job[op.r]) < MaxJobs[op.r]
       /\ job' = IF created THEN [job EXCEPT ![op.r] = Append(@, Stages[1])] ELSE job
       /\ IF ~created /\ Len(job[op.r]) = MaxJobs[op.r] THEN NoFault ELSE Fault
  /\ op' = IF op.seq \/ op.prime THEN NoOp ELSE Submitted
  /\ UNCHANGED todo

------------------------------------------------------------------------------
(* Laying off and resuming: the threads take the candidates in any order;   *)
(* a sequential operation takes the first, and stops where one raises.      *)

Turn(i) == op.seq => \A j \in DOMAIN todo : todo[i].place <= todo[j].place

Served(i) ==
  /\ todo' = Restrict(todo, DOMAIN todo \ {i})
  /\ op' = IF DOMAIN todo = {i} THEN NoOp ELSE op

Raised(i) == IF op.seq THEN todo' = NoOneToServe /\ op' = NoOp ELSE Served(i)

Cancelled(r, i) == [job EXCEPT ![r][i] = "Ended"]

CancelOne(i) ==
  /\ op.kind = "layoff" /\ Turn(i)
  /\ job' = Cancelled(op.r, i)
  /\ Served(i)
  /\ NoFault

(* A missing permission is a warning, any other error is raised.            *)
CancelFails(i) ==
  /\ op.kind = "layoff" /\ Turn(i)
  /\ Served(i) \/ Raised(i)
  /\ UNCHANGED job /\ Fault

Resumed(r, i) == IF job[r][i] = "Paused" THEN [job EXCEPT ![r][i] = Stages[1]] ELSE job

ResumeOne(i) ==
  /\ op.kind = "resume" /\ Turn(i)
  /\ job' = Resumed(op.r, i)
  /\ Served(i)
  /\ NoFault

(* A job past the maximal execution time is cancelled instead.              *)
ResumeTooLate(i) ==
  /\ op.kind = "resume" /\ Turn(i)
  /\ job[op.r][i] = "Paused"
  /\ job' = Cancelled(op.r, i)
  /\ Served(i)
  /\ NoFault

(* A 5xx is tried again; the answer alone may have been lost.               *)
ResumeRetried(i) ==
  /\ op.kind = "resume" /\ Turn(i)
  /\ todo[i].att < MaxRetries
  /\ job' \in {job, Resumed(op.r, i)}
  /\ todo' = [todo EXCEPT ![i].att = @ + 1]
  /\ UNCHANGED op /\ NoFault

(* Another 4xx is a warning, a 5xx after the last attempt is raised.        *)
ResumeFails(i) ==
  /\ op.kind = "resume" /\ Turn(i)
  /\ \/ Served(i)
     \/ todo[i].att = MaxRetries /\ Raised(i)
  /\ UNCHANGED job /\ Fault

WorkforceStep ==
  \/ RequestRetried \/ RequestFailed
  \/ ScaleTo \/ ListWorkers
  \/ SubmitJob \/ SubmitFails
  \/ \E i \in DOMAIN todo : \/ CancelOne(i) \/ CancelFails(i)
                           \/ ResumeOne(i) \/ ResumeTooLate(i)
                           \/ ResumeRetried(i) \/ ResumeFails(i)

------------------------------------------------------------------------------
(* The service: jobs get nodes, are preempted and end.                      *)

Becomes(r, i, status) == job' = [job EXCEPT ![r][i] = status] /\ UNCHANGED <<op, todo, faults>>

JobAdvances(r, i) ==
  \E s \in 1..(Len(Stages) - 1) : job[r][i] = Stages[s] /\ Becomes(r, i, Stages[s + 1])

JobPreempted(r, i) == job[r][i] = "Running" /\ Becomes(r, i, "Paused")

JobEnds(r, i) == job[r][i] \in Active /\ Becomes(r, i, "Ended")

PlatformStep(r) ==
  \E i \in DOMAIN job[r] : JobAdvances(r, i) \/ JobPreempted(r, i) \/ JobEnds(r, i)
==============================================================================
