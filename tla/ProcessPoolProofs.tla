--------------------------- MODULE ProcessPoolProofs ---------------------------
(***************************************************************************)
(* Theorems about ProcessPool, for any number of workers, calls, shutdowns  *)
(* and faults: its types, that an interrupted command is given back, that   *)
(* the shared pool is replaced, and that _in_shutdown clears.               *)
(***************************************************************************)
EXTENDS ProcessPool, TLAPS

UnderWay(w) == task[w] \in {"queued", "taken"}

(* The one process that has the call of w works on it, and the future of    *)
(* the call is open.                                                        *)
Assigned ==
  \A g \in Pools, s \in Slots, w \in Workers :
    proc[g][s].call = w =>
      /\ Busy(proc[g][s]) /\ task[w] = "taken" /\ where[w] = g /\ result[w] = "none"
      /\ \A t \in Slots : proc[g][t].call = w => t = s

(* A call that was taken and has no result has its process.                 *)
Attended ==
  \A w \in Workers : task[w] = "taken" /\ result[w] = "none" =>
    \E s \in Slots : proc[where[w]][s].call = w

(* Results belong to calls under way; a worker that braces, or has left,    *)
(* has none.                                                                *)
Settled ==
  /\ \A w \in Workers : task[w] # "taken" => result[w] = "none"
  /\ \A w \in Workers : ctl[w] \in {"brace", "left"} => task[w] = "over"

(* Pools that are broken or gone owe nobody a result, and the pool that a   *)
(* napping worker waited for is gone.                                       *)
Answered(g) ==
  \A w \in Workers : UnderWay(w) /\ where[w] = g => task[w] = "taken" /\ result[w] # "none"

PoolsAnswered ==
  /\ \A g \in Pools : broken[g] \/ pool[g] = "gone" => Answered(g)
  /\ \A w \in Workers : ctl[w] = "nap" => pool[waited[w]] = "gone"

CurrentReplaced ==
  pool[cur] \in {"shut", "gone"} =>
    leaving # "no" \/ \E w \in Workers : ctl[w] = "kill" /\ waited[w] = cur

(* A process whose command was told to stop knows it; only shells have      *)
(* handlers of their own.                                                   *)
AtWork == {"running", "silent", "exited", "ended"}

Warned ==
  /\ \A g \in Pools, s \in Slots, w \in Workers :
       told[w] /\ proc[g][s].call = w => proc[g][s].at \in AtWork /\ proc[g][s].timer # "off"
  /\ \A g \in Pools, s \in Slots :
       /\ proc[g][s].handler = "own" => kind = "shell"
       /\ proc[g][s].at \in {"starting", "spawned"} => kind = "shell"
       /\ proc[g][s].timer # "off" => kind = "shell"

(* A task whose command was told to stop can only end as interrupted.       *)
Interrupted ==
  \A w \in Workers : told[w] =>
    /\ task[w] \in {"taken", "over"}
    /\ task[w] = "over" => verdict[w] \in {"canceled", "broken"}
    /\ result[w] \in {"none", "canceled", "broken"}

FlagHeld == inShutdown => event

IInv ==
  /\ TypeOK /\ Assigned /\ Attended /\ Settled /\ PoolsAnswered /\ CurrentReplaced
  /\ Warned /\ Interrupted /\ FlagHeld

------------------------------------------------------------------------------
(* Steps by what they do to the processes                                   *)

Updates(g, s, p) ==
  /\ proc' \in [Pools -> [Slots -> Process]]
  /\ proc'[g][s] = p
  /\ \A h \in Pools, t \in Slots : h # g \/ t # s => proc'[h][t] = proc[h][t]

LEMMA SetUpdates ==
  ASSUME TypeOK, NEW g \in Pools, NEW s \in Slots, NEW p \in Process, Set(g, s, p)
  PROVE  Updates(g, s, p)
BY DEF TypeOK, Set, Updates

StartedProcess == [NoProcess EXCEPT !.at = "free"]

LEMMA SpawnedEffect ==
  ASSUME TypeOK, NEW g \in Pools, NEW n
  PROVE  /\ Spawned(g, n) \in [Slots -> Process]
         /\ \A s \in Slots :
              \/ Spawned(g, n)[s] = proc[g][s]
              \/ proc[g][s].at = "none" /\ Spawned(g, n)[s] = StartedProcess
<1>1. StartedProcess \in Process
  BY DEF NoProcess, Process, StartedProcess
<1>2. ASSUME \E s \in PoolSlots : proc[g][s].at = "none"
      PROVE  NextSlot(g) \in Slots /\ proc[g][NextSlot(g)].at = "none"
  BY <1>2 DEF NextSlot, PoolSlots
<1>3. proc[g] \in [Slots -> Process]
  BY DEF TypeOK
<1>4. \/ Spawned(g, n) = proc[g]
      \/ /\ \E s \in PoolSlots : proc[g][s].at = "none"
         /\ Spawned(g, n) = [proc[g] EXCEPT ![NextSlot(g)] = StartedProcess]
  BY DEF Spawned, StartedProcess
<1> QED BY <1>1, <1>2, <1>3, <1>4

LEMMA ProcessFields ==
  ASSUME NEW p \in Process
  PROVE  /\ NoProcess \in Process
         /\ \A a \in {"free", "starting", "spawned", "running", "silent", "exited", "ended", "dead"} :
              [p EXCEPT !.at = a] \in Process
         /\ \A w \in Workers, a \in {"starting", "running"} :
              [p EXCEPT !.at = a, !.call = w] \in Process
         /\ [p EXCEPT !.call = Nobody] \in Process
         /\ [p EXCEPT !.timer = "armed"] \in Process
         /\ [p EXCEPT !.at = "running", !.handler = "own"] \in Process
         /\ \A a \in {"exited", "ended"}, c \in {"ok", "bad"} :
              [p EXCEPT !.at = a, !.code = c] \in Process
         /\ [p EXCEPT !.at = "ended", !.code = "bad", !.timer = "spent"] \in Process
         /\ [p EXCEPT !.at = "free", !.call = Nobody, !.timer = "off", !.code = "ok",
                      !.handler = IF @ = "own" THEN "stale" ELSE @] \in Process
         /\ DeadProcess(p) \in Process /\ Handle(p) \in Process
         /\ CommandResult(p) \in {"ok", "bad", "canceled"}
         /\ p.timer # "off" => CommandResult(p) = "canceled"
<1>1. NoProcess \in Process
  BY DEF Process, NoProcess
<1>2. \A a \in {"orphaned", "dead"} : [NoProcess EXCEPT !.at = a] \in Process
  BY DEF Process, NoProcess
<1>3. DeadProcess(p) \in Process
  BY <1>2 DEF DeadProcess
<1>4. [p EXCEPT !.timer = "armed"] \in Process
  BY DEF Process
<1>5. Handle(p) \in Process
  BY <1>4 DEF Handle
<1>6. /\ CommandResult(p) \in {"ok", "bad", "canceled"}
      /\ p.timer # "off" => CommandResult(p) = "canceled"
  BY DEF Process, CommandResult
<1>7. /\ \A a \in {"free", "starting", "spawned", "running", "silent", "exited", "ended", "dead"} :
           [p EXCEPT !.at = a] \in Process
      /\ \A w \in Workers, a \in {"starting", "running"} :
           [p EXCEPT !.at = a, !.call = w] \in Process
      /\ [p EXCEPT !.call = Nobody] \in Process
  BY DEF Process
<1>8. /\ [p EXCEPT !.at = "running", !.handler = "own"] \in Process
      /\ \A a \in {"exited", "ended"}, c \in {"ok", "bad"} :
           [p EXCEPT !.at = a, !.code = c] \in Process
      /\ [p EXCEPT !.at = "ended", !.code = "bad", !.timer = "spent"] \in Process
  BY DEF Process
<1>9. [p EXCEPT !.at = "free", !.call = Nobody, !.timer = "off", !.code = "ok",
               !.handler = IF @ = "own" THEN "stale" ELSE @] \in Process
  BY DEF Process
<1> QED BY <1>1, <1>3, <1>4, <1>5, <1>6, <1>7, <1>8, <1>9

(* The command goes on: what may become of its process.                     *)
Onward(p, q) ==
  /\ q \in Process /\ q.call = p.call
  /\ Busy(p) => Busy(q)
  /\ p.at \in AtWork => q.at \in AtWork
  /\ q.timer # "off" <=> p.timer # "off"
  /\ q.handler = "own" => p.handler = "own" \/ p.at = "spawned"
  /\ q.at \in {"starting", "spawned"} => p.at = "starting"

Works(g, s) ==
  \E q \in Process :
    /\ Updates(g, s, q) /\ Onward(proc[g][s], q)
    /\ UNCHANGED <<task, result>> /\ OnlyProcess

(* It takes a call.                                                         *)
Takes(g, s) ==
  \E p \in Process, w \in QueuedIn(g) :
    /\ Updates(g, s, p)
    /\ proc[g][s].at = "free" /\ p.call = w
    /\ p.at = IF kind = "shell" THEN "starting" ELSE "running"
    /\ p.timer = proc[g][s].timer /\ p.handler = proc[g][s].handler
    /\ task' = [task EXCEPT ![w] = "taken"] /\ UNCHANGED result /\ OnlyProcess

(* It returns from one.                                                     *)
Gives(g, s) ==
  \E p \in Process, r \in {"ok", "bad", "raised", "canceled"} :
    /\ Updates(g, s, p)
    /\ Busy(proc[g][s])
    /\ p.at = "free" /\ p.call = Nobody /\ p.timer = "off" /\ p.handler # "own"
    /\ result' = IF proc[g][s].call = Nobody THEN result
                 ELSE [result EXCEPT ![proc[g][s].call] = r]
    /\ kind = "shell" /\ proc[g][s].at \in AtWork /\ proc[g][s].timer # "off" => r = "canceled"
    /\ UNCHANGED task /\ OnlyProcess

(* Its pool breaks.                                                         *)
Breaks(g) ==
  /\ proc' = [proc EXCEPT ![g] = [s \in Slots |-> DeadProcess(@[s])]]
  /\ Break(g)

PoolBreaks(g) ==
  /\ Breaks(g)
  /\ UNCHANGED <<kind, inShutdown, cur, pool, where, verdict, told, loop, leaving>>

LEMMA ReturnsGives ==
  ASSUME TypeOK, NEW g \in Pools, NEW s \in Slots, NEW r \in {"ok", "bad", "raised", "canceled"},
         Busy(proc[g][s]), Returns(g, s, r),
         kind = "shell" /\ proc[g][s].at \in AtWork /\ proc[g][s].timer # "off" => r = "canceled"
  PROVE  Gives(g, s)
<1> DEFINE p == [proc[g][s] EXCEPT !.at = "free", !.call = Nobody, !.timer = "off", !.code = "ok",
                                   !.handler = IF @ = "own" THEN "stale" ELSE @]
<1>1. proc[g][s] \in Process
  BY DEF TypeOK
<1>2. p \in Process
  BY <1>1, ProcessFields
<1>3. /\ p.at = "free" /\ p.call = Nobody /\ p.timer = "off" /\ p.handler # "own"
  BY <1>1 DEF Process
<1>4. Set(g, s, p)
  BY DEF Returns
<1>5. Updates(g, s, p)
  <2> HIDE DEF p
  <2> QED BY <1>2, <1>4, SetUpdates
<1> HIDE DEF p
<1> QED BY <1>2, <1>3, <1>5 DEF Gives, Returns

LEMMA OnwardWorks ==
  ASSUME TypeOK, NEW g \in Pools, NEW s \in Slots, NEW q, Set(g, s, q),
         Onward(proc[g][s], q), OnlyProcess, UNCHANGED <<task, result>>
  PROVE  Works(g, s)
BY SetUpdates DEF Onward, Works

LEMMA OnwardSteps ==
  ASSUME NEW p \in Process
  PROVE  /\ p.at = "starting" => Onward(p, [p EXCEPT !.at = "spawned"])
         /\ p.at = "spawned" => Onward(p, [p EXCEPT !.at = "running", !.handler = "own"])
         /\ \A a \in {"exited", "ended"}, c \in {"ok", "bad"} :
              p.at \in {"running", "silent"} => Onward(p, [p EXCEPT !.at = a, !.code = c])
         /\ p.at = "running" => Onward(p, [p EXCEPT !.at = "silent"])
         /\ p.at = "running" /\ p.timer = "armed" =>
              Onward(p, [p EXCEPT !.at = "ended", !.code = "bad", !.timer = "spent"])
         /\ p.at = "exited" => Onward(p, [p EXCEPT !.at = "ended"])
         /\ p.at = "orphaned" => Onward(p, [p EXCEPT !.at = "dead"])
<1>1. p.at = "starting" => Onward(p, [p EXCEPT !.at = "spawned"])
  BY DEF Process, Onward, Busy, Live, AtWork
<1>2. p.at = "spawned" => Onward(p, [p EXCEPT !.at = "running", !.handler = "own"])
  BY DEF Process, Onward, Busy, Live, AtWork
<1>3. ASSUME NEW a \in {"exited", "ended"}, NEW c \in {"ok", "bad"},
             p.at \in {"running", "silent"}
      PROVE  Onward(p, [p EXCEPT !.at = a, !.code = c])
  BY <1>3 DEF Process, Onward, Busy, Live, AtWork
<1>4. p.at = "running" /\ p.timer = "armed" =>
        Onward(p, [p EXCEPT !.at = "ended", !.code = "bad", !.timer = "spent"])
  BY DEF Process, Onward, Busy, Live, AtWork
<1>5. p.at = "exited" => Onward(p, [p EXCEPT !.at = "ended"])
  BY DEF Process, Onward, Busy, Live, AtWork
<1>6. p.at = "orphaned" => Onward(p, [p EXCEPT !.at = "dead"])
  BY DEF Process, Onward, Busy, Live, AtWork
<1>7. p.at = "running" => Onward(p, [p EXCEPT !.at = "silent"])
  BY DEF Process, Onward, Busy, Live, AtWork
<1> QED BY <1>1, <1>2, <1>3, <1>4, <1>5, <1>6, <1>7

LEMMA ProcessStepEffect ==
  ASSUME TypeOK, Warned, NEW g \in Pools, NEW s \in Slots, ProcessStep(g, s)
  PROVE  Takes(g, s) \/ Works(g, s) \/ Gives(g, s) \/ PoolBreaks(g)
<1> DEFINE p == proc[g][s]
<1>0. p \in Process
  BY DEF TypeOK
<1>1. ASSUME NEW w \in Workers, Take(g, s, w)
      PROVE  Takes(g, s)
  <2> DEFINE a == IF kind = "shell" THEN "starting" ELSE "running"
             q == [p EXCEPT !.at = a, !.call = w]
  <2>1. a \in {"starting", "running"}
    OBVIOUS
  <2>2. q \in Process
    BY <1>0, <2>1, ProcessFields
  <2>3. /\ q.at = a /\ q.call = w /\ q.timer = p.timer /\ q.handler = p.handler
    BY <1>0 DEF Process
  <2>4. Set(g, s, q)
    BY <1>1 DEF Take
  <2>5. Updates(g, s, q)
    <3> HIDE DEF q
    <3> QED BY <2>2, <2>4, SetUpdates
  <2> HIDE DEF q
  <2> QED BY <1>1, <2>2, <2>3, <2>5 DEF Take, Takes
<1>2. ASSUME ShellSpawns(g, s)
      PROVE  Works(g, s) \/ Gives(g, s)
  <2>1. CASE Returns(g, s, "raised")
    BY <1>2, <2>1, ReturnsGives DEF ShellSpawns, Busy, Live, AtWork
  <2>2. CASE ~Returns(g, s, "raised")
    BY <1>0, <1>2, <2>2, OnwardSteps, OnwardWorks DEF ShellSpawns
  <2> QED BY <2>1, <2>2
<1>3. ASSUME \/ HandlerInstalled(g, s) \/ StreamsClose(g, s) \/ Escalate(g, s) \/ Drained(g, s)
             \/ OrphanEnds(g, s)
      PROVE  Works(g, s)
  BY <1>0, <1>3, OnwardSteps, OnwardWorks
     DEF HandlerInstalled, StreamsClose, Escalate, Drained, OrphanEnds
<1>4. ASSUME NEW code \in {"ok", "bad"}, NEW open \in BOOLEAN, CommandExits(g, s, code, open)
      PROVE  Works(g, s) \/ Gives(g, s)
  <2>1. CASE kind = "shell"
    BY <1>0, <1>4, <2>1, OnwardSteps, OnwardWorks DEF CommandExits
  <2>2. CASE kind # "shell"
    <3> DEFINE r == IF code = "ok" THEN "ok" ELSE "raised"
    <3>1. Returns(g, s, r) /\ Busy(p)
      BY <1>4, <2>2 DEF CommandExits, Busy, Live
    <3>2. r \in {"ok", "bad", "raised", "canceled"}
      OBVIOUS
    <3> HIDE DEF r
    <3> QED BY <2>2, <3>1, <3>2, ReturnsGives
  <2> QED BY <2>1, <2>2
<1>5. ASSUME CommandReturns(g, s)
      PROVE  Gives(g, s)
  <2> DEFINE r == CommandResult(p)
  <2>1. r \in {"ok", "bad", "canceled"} /\ (p.timer # "off" => r = "canceled")
    BY <1>0, ProcessFields
  <2>2. Returns(g, s, r) /\ Busy(p)
    BY <1>5 DEF CommandReturns, Busy, Live
  <2> HIDE DEF r
  <2> QED BY <2>1, <2>2, ReturnsGives
<1>6. ASSUME WaitFails(g, s)
      PROVE  Gives(g, s)
  <2> DEFINE r == IF p.timer # "off" \/ p.at = "exited" THEN CommandResult(p) ELSE "raised"
  <2>2. r \in {"ok", "bad", "raised", "canceled"} /\ (p.timer # "off" => r = "canceled")
    BY <1>0, ProcessFields
  <2>3. Returns(g, s, r) /\ Busy(p)
    BY <1>6 DEF WaitFails, Busy, Live
  <2> HIDE DEF r
  <2> QED BY <2>2, <2>3, ReturnsGives
<1>7. ASSUME ProcessDies(g, s)
      PROVE  PoolBreaks(g)
  BY <1>7 DEF ProcessDies, PoolBreaks, Breaks
<1> QED BY <1>1, <1>2, <1>3, <1>4, <1>5, <1>6, <1>7 DEF ProcessStep
------------------------------------------------------------------------------
(* Steps by what they do to the calls                                       *)

Idles == UNCHANGED <<proc, task, where, result>>

(* The processes of a pool that owes nothing are replaced by none.          *)
Empties(g) ==
  /\ Answered(g)
  /\ proc' = [proc EXCEPT ![g] = [s \in Slots |-> NoProcess]]
  /\ UNCHANGED <<task, where, result>>

Submits(w) ==
  /\ task[w] = "pull" /\ pool[cur] = "open" /\ ~broken[cur]
  /\ task' = [task EXCEPT ![w] = "queued"] /\ where' = [where EXCEPT ![w] = cur]
  /\ \E n : proc' = [proc EXCEPT ![cur] = Spawned(cur, n)]
  /\ UNCHANGED <<result, verdict, ctl>>

Ends(w) ==
  /\ task[w] = "pull" \/ result[w] # "none"
  /\ task' = [task EXCEPT ![w] = "over"] /\ where' = [where EXCEPT ![w] = 1]
  /\ result' = [result EXCEPT ![w] = "none"]
  /\ UNCHANGED <<proc, ctl>>

Cancels(w) == CancelTask(w) /\ ctl' \in {[ctl EXCEPT ![w] = "brace"], [ctl EXCEPT ![w] = "left"]}

Warns ==
  /\ proc' = [proc EXCEPT ![cur] = [s \in Slots |-> Handle(@[s])]]
  /\ UNCHANGED <<task, where, result>>

Retasks(w) ==
  /\ task[w] \in {"pull", "over"}
  /\ \E t \in {"pull", "over"} : task' = [task EXCEPT ![w] = t]
  /\ UNCHANGED <<proc, where, result>>

(* Steps that concern a worker's control only.                              *)
Control ==
  \/ \E w \in Workers : WorkerCrashes(w) \/ PoolShutdownStarts(w)
  \/ \E f \in BOOLEAN : ShutdownRequested(f)
  \/ PoolExits \/ PoolExited \/ Finished

LEMMA StepKinds ==
  ASSUME Next
  PROVE  \/ \E g \in Pools, s \in Slots : ProcessStep(g, s)
         \/ \E g \in Pools : PoolEnds(g)
         \/ \E w \in Workers :
              \/ Submit(w) \/ SubmitReturns(w) \/ KillBegins(w) \/ KillReturns(w)
              \/ TaskCancelled(w) \/ CancelledAtExit(w)
              \/ Resumes(w) \/ Leaves(w) \/ NextTask(w)
         \/ Control
BY DEF Next, WorkerStep, Control

LEMMA EndedPoolAnswered ==
  ASSUME TypeOK, Assigned, Attended, PoolsAnswered, NEW g \in Pools, PoolEnds(g)
  PROVE  Answered(g)
<1> SUFFICES ASSUME NEW w \in Workers, UnderWay(w), where[w] = g
             PROVE  task[w] = "taken" /\ result[w] # "none"
  BY DEF Answered
<1>1. task[w] = "taken"
  BY DEF PoolEnds, QueuedIn, UnderWay
<1>2. CASE broken[g]
  BY <1>2 DEF PoolsAnswered, Answered
<1>3. CASE ~broken[g]
  BY <1>1, <1>3 DEF Attended, Assigned, PoolEnds
<1> QED BY <1>1, <1>2, <1>3

LEMMA UnusedPool ==
  ASSUME TypeOK, Unused # {}
  PROVE  /\ NewPool \in Pools /\ pool[NewPool] \in {"none", "gone"} /\ ~Referred(NewPool)
         /\ Answered(NewPool)
BY DEF NewPool, Unused, CallsOf, Answered, UnderWay

LEMMA StepEffect ==
  ASSUME IInv, Next
  PROVE  \/ \E g \in Pools, s \in Slots : Takes(g, s) \/ Works(g, s) \/ Gives(g, s)
         \/ \E g \in Pools : Breaks(g) /\ UNCHANGED where
         \/ \E g \in Pools : Empties(g)
         \/ \E w \in Workers : Submits(w) \/ Ends(w) \/ Cancels(w) \/ Retasks(w)
         \/ Warns \/ Idles
<1> USE DEF IInv
<1>1. ASSUME NEW g \in Pools, NEW s \in Slots, ProcessStep(g, s)
      PROVE  Takes(g, s) \/ Works(g, s) \/ Gives(g, s) \/ (Breaks(g) /\ UNCHANGED where)
  BY <1>1, ProcessStepEffect DEF PoolBreaks
<1>2. ASSUME NEW g \in Pools, PoolEnds(g)
      PROVE  Empties(g)
  BY <1>2, EndedPoolAnswered DEF PoolEnds, Empties, calls
<1>3. ASSUME NEW w \in Workers, Submit(w)
      PROVE  Submits(w) \/ Ends(w)
  BY <1>3 DEF Submit, Submits, Ends, Over, loop
<1>4. ASSUME NEW w \in Workers, SubmitReturns(w)
      PROVE  Ends(w)
  BY <1>4 DEF SubmitReturns, Ends, Over, loop, pools
<1>5. ASSUME NEW w \in Workers, KillBegins(w)
      PROVE  (Breaks(cur) /\ UNCHANGED where) \/ Warns
  BY <1>5 DEF KillBegins, Signalled, Breaks, Warns
<1>6. ASSUME NEW w \in Workers, KillReturns(w)
      PROVE  NewPool \in Pools /\ Empties(NewPool)
  BY <1>6, UnusedPool DEF KillReturns, Empties, calls
<1>7. ASSUME NEW w \in Workers, TaskCancelled(w) \/ CancelledAtExit(w)
      PROVE  Cancels(w)
  BY <1>7 DEF TaskCancelled, CancelledAtExit, Cancels
<1>8. ASSUME NEW w \in Workers, Resumes(w) \/ Leaves(w) \/ NextTask(w)
      PROVE  Retasks(w)
  BY <1>8 DEF Resumes, Leaves, NextTask, Retasks, Pulls, pools, Settled, TypeOK
<1>9. Control => Idles
  BY DEF Control, WorkerCrashes, PoolShutdownStarts, ShutdownRequested, PoolExits, PoolExited,
         Finished, pools, calls, vars, Idles
<1> QED BY <1>1, <1>2, <1>3, <1>4, <1>5, <1>6, <1>7, <1>8, <1>9, StepKinds DEF TypeOK
(* What the larger steps do to a process.                                   *)
LEMMA AnyProcess ==
  ASSUME TypeOK
  PROVE  \A g \in Pools, s \in Slots : proc[g][s] \in Process
BY DEF TypeOK

LEMMA BreaksEffect ==
  ASSUME TypeOK, Assigned, NEW g \in Pools, Breaks(g)
  PROVE  /\ proc' \in [Pools -> [Slots -> Process]]
         /\ \A h \in Pools \ {g} : proc'[h] = proc[h]
         /\ \A s \in Slots : LET q == proc'[g][s] IN
              /\ q.call \notin Workers /\ ~Busy(q)
              /\ q.handler = "own" => proc[g][s].handler = "own"
              /\ q.timer # "off" => proc[g][s].timer # "off"
              /\ q.at \notin {"starting", "spawned"}
<1>1. \A s \in Slots : proc[g][s] \in Process /\ DeadProcess(proc[g][s]) \in Process
  BY AnyProcess, ProcessFields
<1>2. /\ proc' = [proc EXCEPT ![g] = [s \in Slots |-> DeadProcess(proc[g][s])]]
      /\ proc \in [Pools -> [Slots -> Process]]
  BY DEF Breaks, TypeOK
<1>3. /\ proc' \in [Pools -> [Slots -> Process]]
      /\ \A h \in Pools \ {g} : proc'[h] = proc[h]
      /\ \A s \in Slots : proc'[g][s] = DeadProcess(proc[g][s])
  BY <1>1, <1>2
<1>4. ASSUME NEW s \in Slots
      PROVE  LET q == DeadProcess(proc[g][s]) IN
              /\ q.call \notin Workers /\ ~Busy(q)
              /\ q.handler = "own" => proc[g][s].handler = "own"
              /\ q.timer # "off" => proc[g][s].timer # "off"
              /\ q.at \notin {"starting", "spawned"}
  <2>1. CASE ~Live(proc[g][s])
    BY <2>1 DEF Assigned, DeadProcess, Busy, Live
  <2>2. CASE Live(proc[g][s])
    BY <2>2, PoolAssumption DEF DeadProcess, Busy, Live, NoProcess, PoolAssumption
  <2> QED BY <2>1, <2>2
<1> QED BY <1>3, <1>4

LEMMA WarnsEffect ==
  ASSUME TypeOK, Warns
  PROVE  /\ proc' \in [Pools -> [Slots -> Process]]
         /\ \A h \in Pools \ {cur} : proc'[h] = proc[h]
         /\ \A s \in Slots : LET p == proc[cur][s]
                                q == proc'[cur][s] IN
              /\ q.call = p.call /\ q.at = p.at /\ q.handler = p.handler
              /\ q.timer # "off" <=> p.timer # "off" \/ (p.handler = "own" /\ Busy(p))
<1>1. \A s \in Slots : proc[cur][s] \in Process /\ Handle(proc[cur][s]) \in Process
  <2>1. cur \in Pools
    BY DEF TypeOK
  <2> QED BY <2>1, AnyProcess, ProcessFields
<1>2. /\ proc' = [proc EXCEPT ![cur] = [s \in Slots |-> Handle(proc[cur][s])]]
      /\ proc \in [Pools -> [Slots -> Process]] /\ cur \in Pools
  BY DEF Warns, TypeOK
<1>3. /\ proc' \in [Pools -> [Slots -> Process]]
      /\ \A h \in Pools \ {cur} : proc'[h] = proc[h]
      /\ \A s \in Slots : proc'[cur][s] = Handle(proc[cur][s])
  BY <1>1, <1>2
<1>4. ASSUME NEW p \in Process
      PROVE  /\ Handle(p).call = p.call /\ Handle(p).at = p.at /\ Handle(p).handler = p.handler
             /\ Handle(p).timer # "off" <=> p.timer # "off" \/ (p.handler = "own" /\ Busy(p))
  BY DEF Process, Handle
<1> QED BY <1>1, <1>3, <1>4

LEMMA CancelsEffect ==
  ASSUME TypeOK, NEW w \in Workers, CancelTask(w)
  PROVE  /\ proc' \in [Pools -> [Slots -> Process]]
         /\ \A g \in Pools, s \in Slots : LET p == proc[g][s]
                                            q == proc'[g][s] IN
              /\ q.call = IF p.call = w THEN Nobody ELSE p.call
              /\ q.at = p.at /\ q.handler = p.handler /\ q.timer = p.timer
<1>1. \A g \in Pools, s \in Slots : /\ proc[g][s] \in Process
                                     /\ [proc[g][s] EXCEPT !.call = Nobody] \in Process
  BY AnyProcess, ProcessFields
<1>2. proc' = [g \in Pools |-> [s \in Slots |->
                 IF proc[g][s].call = w THEN [proc[g][s] EXCEPT !.call = Nobody] ELSE proc[g][s]]]
  BY DEF CancelTask
<1>3. \A g \in Pools, s \in Slots :
        proc'[g][s] = IF proc[g][s].call = w THEN [proc[g][s] EXCEPT !.call = Nobody] ELSE proc[g][s]
  BY <1>2
<1>4. proc' \in [Pools -> [Slots -> Process]]
  BY <1>1, <1>2
<1>5. ASSUME NEW p \in Process
      PROVE  LET q == [p EXCEPT !.call = Nobody] IN
               q.call = Nobody /\ q.at = p.at /\ q.handler = p.handler /\ q.timer = p.timer
  BY DEF Process
<1>6. ASSUME NEW g \in Pools, NEW s \in Slots
      PROVE  LET p == proc[g][s]
                 q == proc'[g][s] IN
             /\ q.call = IF p.call = w THEN Nobody ELSE p.call
             /\ q.at = p.at /\ q.handler = p.handler /\ q.timer = p.timer
  <2>1. proc[g][s] \in Process
    BY <1>1
  <2>2. CASE proc[g][s].call = w
    BY <1>3, <1>5, <2>1, <2>2
  <2>3. CASE proc[g][s].call # w
    BY <1>3, <2>3
  <2> QED BY <2>2, <2>3
<1> QED BY <1>4, <1>6

LEMMA EmptiesEffect ==
  ASSUME TypeOK, NEW g \in Pools, Empties(g)
  PROVE  /\ proc' \in [Pools -> [Slots -> Process]]
         /\ \A h \in Pools \ {g} : proc'[h] = proc[h]
         /\ \A s \in Slots : proc'[g][s] = NoProcess
<1>1. NoProcess \in Process
  BY DEF Process, NoProcess
<1>2. proc \in [Pools -> [Slots -> Process]]
  BY DEF TypeOK
<1> QED BY <1>1, <1>2 DEF Empties

LEMMA SubmitsEffect ==
  ASSUME TypeOK, Assigned, NEW w \in Workers, Submits(w)
  PROVE  /\ proc' \in [Pools -> [Slots -> Process]]
         /\ \A h \in Pools, s \in Slots :
              \/ proc'[h][s] = proc[h][s]
              \/ LET q == proc'[h][s] IN
                   /\ proc[h][s].call \notin Workers /\ q.call \notin Workers /\ q.at = "free"
                   /\ q.handler # "own" /\ q.timer = "off"
<1>1. PICK n : proc' = [proc EXCEPT ![cur] = Spawned(cur, n)]
  BY DEF Submits
<1>2. /\ cur \in Pools /\ proc \in [Pools -> [Slots -> Process]]
  BY DEF TypeOK
<1>3. /\ Spawned(cur, n) \in [Slots -> Process]
      /\ \A s \in Slots :
           \/ Spawned(cur, n)[s] = proc[cur][s]
           \/ proc[cur][s].at = "none" /\ Spawned(cur, n)[s] = StartedProcess
  BY <1>2, SpawnedEffect
<1>4. StartedProcess.call \notin Workers /\ StartedProcess.at = "free" /\ StartedProcess.handler # "own" /\ StartedProcess.timer = "off"
  BY PoolAssumption DEF NoProcess, PoolAssumption, StartedProcess
<1>5. \A h \in Pools, s \in Slots : proc[h][s].at = "none" => proc[h][s].call \notin Workers
  BY DEF Assigned, Busy, Live
<1> QED BY <1>1, <1>2, <1>3, <1>4, <1>5
------------------------------------------------------------------------------
(* Every step keeps each part of the invariant                              *)

LEMMA SettledStep ==
  ASSUME IInv, Next
  PROVE  Settled'
<1> USE DEF IInv
<1>0. /\ task \in [Workers -> {"pull", "queued", "taken", "over"}]
      /\ result \in [Workers -> {"none", "ok", "bad", "raised", "canceled", "broken"}]
      /\ ctl \in [Workers -> {"loop", "kill", "nap", "brace", "left", "crashed"}]
  BY DEF TypeOK
<1>1. ASSUME NEW g \in Pools, NEW s \in Slots, Takes(g, s)
      PROVE  Settled'
  BY <1>0, <1>1 DEF Takes, Settled, OnlyProcess, loop, QueuedIn
<1>2. ASSUME NEW g \in Pools, NEW s \in Slots, Works(g, s)
      PROVE  Settled'
  BY <1>0, <1>2 DEF Works, Settled, OnlyProcess, loop
<1>3. ASSUME NEW g \in Pools, NEW s \in Slots, Gives(g, s)
      PROVE  Settled'
  BY <1>0, <1>3 DEF Gives, Settled, OnlyProcess, loop, Assigned
<1>4. ASSUME NEW g \in Pools, NEW s \in Slots, ProcessStep(g, s)
      PROVE  Settled'
  <2>1. CASE PoolBreaks(g)
    BY <1>0, <2>1 DEF PoolBreaks, Breaks, Break, CallsOf, Settled, loop
  <2> QED BY <1>1, <1>2, <1>3, <1>4, <2>1, ProcessStepEffect
<1>5. ASSUME NEW g \in Pools, PoolEnds(g)
      PROVE  Settled'
  BY <1>5 DEF PoolEnds, Settled, calls, loop
<1>6. ASSUME NEW w \in Workers, Submit(w)
      PROVE  Settled'
  BY <1>0, <1>6 DEF Submit, Over, Settled, loop
<1>7. ASSUME NEW w \in Workers, SubmitReturns(w)
      PROVE  Settled'
  BY <1>0, <1>7 DEF SubmitReturns, Over, Settled, loop
<1>8. ASSUME NEW w \in Workers, KillBegins(w)
      PROVE  Settled'
  BY <1>0, <1>8 DEF KillBegins, Signalled, Break, CallsOf, Settled
<1>9. ASSUME NEW w \in Workers, KillReturns(w)
      PROVE  Settled'
  BY <1>0, <1>9 DEF KillReturns, Settled, calls
<1>10. ASSUME NEW w \in Workers, TaskCancelled(w) \/ CancelledAtExit(w)
       PROVE  Settled'
  BY <1>0, <1>10 DEF TaskCancelled, CancelledAtExit, CancelTask, Settled
<1>11. ASSUME NEW w \in Workers, Resumes(w) \/ Leaves(w) \/ NextTask(w)
       PROVE  Settled'
  BY <1>0, <1>11 DEF Resumes, Leaves, NextTask, Pulls, Settled
<1>12. Control => Settled'
  BY <1>0 DEF Control, WorkerCrashes, PoolShutdownStarts, ShutdownRequested, PoolExits, PoolExited,
         Finished, pools, calls, loop, vars, Settled
<1> QED BY <1>4, <1>5, <1>6, <1>7, <1>8, <1>9, <1>10, <1>11, <1>12, StepKinds

LEMMA AssignedStep ==
  ASSUME IInv, Next
  PROVE  Assigned'
<1> USE DEF IInv
<1>0. /\ task \in [Workers -> {"pull", "queued", "taken", "over"}]
      /\ result \in [Workers -> {"none", "ok", "bad", "raised", "canceled", "broken"}]
      /\ where \in [Workers -> Pools] /\ Nobody \notin Workers /\ cur \in Pools
  BY PoolAssumption DEF TypeOK, PoolAssumption
<1>1. ASSUME NEW g \in Pools, NEW s \in Slots, Takes(g, s)
      PROVE  Assigned'
  <2>1. PICK p \in Process, w \in QueuedIn(g) :
          /\ Updates(g, s, p) /\ p.call = w
          /\ p.at = IF kind = "shell" THEN "starting" ELSE "running"
          /\ task' = [task EXCEPT ![w] = "taken"] /\ UNCHANGED result /\ OnlyProcess
    BY <1>1 DEF Takes
  <2>2. /\ w \in Workers /\ task[w] = "queued" /\ where[w] = g /\ result[w] = "none"
        /\ UNCHANGED <<where, result>>
    BY <2>1 DEF QueuedIn, OnlyProcess, Settled
  <2>3. Busy(p)
    BY <2>1 DEF Busy, Live
  <2> SUFFICES ASSUME NEW h \in Pools, NEW t \in Slots, NEW x \in Workers, proc'[h][t].call = x
               PROVE  /\ Busy(proc'[h][t]) /\ task'[x] = "taken" /\ where'[x] = h /\ result'[x] = "none"
                      /\ \A u \in Slots : proc'[h][u].call = x => u = t
    BY DEF Assigned
  <2>4. \A k \in Pools, u \in Slots : proc[k][u].call # w
    BY <2>2 DEF Assigned
  <2>5. CASE x = w
    <3>1. \A k \in Pools, u \in Slots : proc'[k][u].call = w => k = g /\ u = s
      BY <2>1, <2>4 DEF Updates
    <3>2. h = g /\ t = s /\ proc'[h][t] = p
      BY <2>1, <2>5, <3>1 DEF Updates
    <3>3. task'[x] = "taken" /\ where'[x] = h /\ result'[x] = "none"
      BY <1>0, <2>1, <2>2, <2>5, <3>2
    <3> QED BY <2>3, <2>5, <3>1, <3>2, <3>3
  <2>6. CASE x # w
    <3>1. proc[h][t].call = x /\ (h # g \/ t # s)
      BY <2>1, <2>6 DEF Updates
    <3>2. \A u \in Slots : proc'[h][u].call = x => proc[h][u].call = x
      BY <2>1, <2>6 DEF Updates
    <3>3. proc'[h][t] = proc[h][t]
      BY <2>1, <3>1 DEF Updates
    <3> QED BY <1>0, <2>1, <2>2, <2>6, <3>1, <3>2, <3>3 DEF Assigned
  <2> QED BY <2>5, <2>6
<1>2. ASSUME NEW g \in Pools, NEW s \in Slots, Works(g, s)
      PROVE  Assigned'
  <2> SUFFICES ASSUME NEW h \in Pools, NEW t \in Slots, NEW x \in Workers, proc'[h][t].call = x
               PROVE  /\ Busy(proc'[h][t]) /\ task'[x] = "taken" /\ where'[x] = h /\ result'[x] = "none"
                      /\ \A u \in Slots : proc'[h][u].call = x => u = t
    BY DEF Assigned
  <2>1. PICK q \in Process : Updates(g, s, q) /\ Onward(proc[g][s], q)
    BY <1>2 DEF Works
  <2>2. UNCHANGED <<task, where, result>>
    BY <1>2 DEF Works, OnlyProcess
  <2>3. \A k \in Pools, u \in Slots : proc'[k][u].call = proc[k][u].call
    BY <2>1 DEF Updates, Onward
  <2>4. Busy(proc[h][t]) => Busy(proc'[h][t])
    <3>1. CASE h = g /\ t = s
      BY <2>1, <3>1 DEF Updates, Onward
    <3>2. CASE ~(h = g /\ t = s)
      BY <2>1, <3>2 DEF Updates
    <3> QED BY <3>1, <3>2
  <2> QED BY <2>2, <2>3, <2>4 DEF Assigned
<1>3. ASSUME NEW g \in Pools, NEW s \in Slots, Gives(g, s)
      PROVE  Assigned'
  <2> SUFFICES ASSUME NEW h \in Pools, NEW t \in Slots, NEW x \in Workers, proc'[h][t].call = x
               PROVE  /\ Busy(proc'[h][t]) /\ task'[x] = "taken" /\ where'[x] = h /\ result'[x] = "none"
                      /\ \A u \in Slots : proc'[h][u].call = x => u = t
    BY DEF Assigned
  <2> DEFINE y == proc[g][s].call
  <2>1. PICK p \in Process, r \in {"ok", "bad", "raised", "canceled"} :
          /\ Updates(g, s, p) /\ p.call = Nobody
          /\ result' = IF y = Nobody THEN result ELSE [result EXCEPT ![y] = r]
    BY <1>3 DEF Gives
  <2>2. UNCHANGED <<task, where>>
    BY <1>3 DEF Gives, OnlyProcess
  <2>3. h # g \/ t # s
    BY <1>0, <2>1 DEF Updates
  <2>4. proc'[h][t] = proc[h][t]
    BY <2>1, <2>3 DEF Updates
  <2>5. \A u \in Slots : proc'[h][u].call = x => proc[h][u].call = x
    BY <1>0, <2>1 DEF Updates
  <2>6. x # y
    BY <2>3, <2>4 DEF Assigned
  <2>7. result'[x] = result[x]
    BY <1>0, <2>1, <2>6
  <2> QED BY <2>2, <2>4, <2>5, <2>7 DEF Assigned
<1>4. ASSUME NEW g \in Pools, Breaks(g), UNCHANGED where
      PROVE  Assigned'
  <2> SUFFICES ASSUME NEW h \in Pools, NEW t \in Slots, NEW x \in Workers, proc'[h][t].call = x
               PROVE  /\ Busy(proc'[h][t]) /\ task'[x] = "taken" /\ where'[x] = h /\ result'[x] = "none"
                      /\ \A u \in Slots : proc'[h][u].call = x => u = t
    BY DEF Assigned
  <2>1. h # g
    BY <1>4, BreaksEffect
  <2>2. proc'[h] = proc[h]
    BY <1>4, <2>1, BreaksEffect
  <2>3. where[x] = h /\ x \notin CallsOf(g)
    BY <2>1, <2>2 DEF Assigned, CallsOf
  <2>4. task'[x] = task[x] /\ result'[x] = result[x]
    BY <1>0, <1>4, <2>3 DEF Breaks, Break
  <2> QED BY <1>4, <2>2, <2>4 DEF Assigned
<1>5. ASSUME NEW g \in Pools, Empties(g)
      PROVE  Assigned'
  BY <1>0, <1>5, EmptiesEffect DEF Empties, NoProcess, Assigned, Busy, Live
<1>6. ASSUME NEW w \in Workers, Submits(w)
      PROVE  Assigned'
  <2> SUFFICES ASSUME NEW h \in Pools, NEW t \in Slots, NEW x \in Workers, proc'[h][t].call = x
               PROVE  /\ Busy(proc'[h][t]) /\ task'[x] = "taken" /\ where'[x] = h /\ result'[x] = "none"
                      /\ \A u \in Slots : proc'[h][u].call = x => u = t
    BY DEF Assigned
  <2>1. /\ proc'[h][t] = proc[h][t]
        /\ \A u \in Slots : proc'[h][u].call = x => proc[h][u].call = x
    BY <1>6, SubmitsEffect
  <2>2. x # w
    BY <1>6, <2>1 DEF Submits, Assigned
  <2>3. task'[x] = task[x] /\ where'[x] = where[x] /\ result'[x] = result[x]
    BY <1>0, <1>6, <2>2 DEF Submits
  <2> QED BY <2>1, <2>3 DEF Assigned
<1>7. ASSUME NEW w \in Workers, Ends(w)
      PROVE  Assigned'
  BY <1>0, <1>7 DEF Ends, Assigned, Busy, Live
<1>8. ASSUME NEW w \in Workers, Cancels(w)
      PROVE  Assigned'
  <2>1. /\ proc' \in [Pools -> [Slots -> Process]]
        /\ \A h \in Pools, t \in Slots :
             /\ proc'[h][t].at = proc[h][t].at
             /\ proc'[h][t].call = IF proc[h][t].call = w THEN Nobody ELSE proc[h][t].call
    BY <1>0, <1>8, CancelsEffect DEF Cancels
  <2> SUFFICES ASSUME NEW h \in Pools, NEW t \in Slots, NEW x \in Workers, proc'[h][t].call = x
               PROVE  /\ Busy(proc'[h][t]) /\ task'[x] = "taken" /\ where'[x] = h /\ result'[x] = "none"
                      /\ \A u \in Slots : proc'[h][u].call = x => u = t
    BY DEF Assigned
  <2>2. x # w /\ proc[h][t].call = x /\ \A u \in Slots : proc'[h][u].call = x => proc[h][u].call = x
    BY <2>1, PoolAssumption DEF PoolAssumption
  <2>3. task'[x] = task[x] /\ where'[x] = where[x] /\ result'[x] = result[x]
    BY <1>0, <1>8, <2>2 DEF Cancels, CancelTask, TypeOK
  <2>4. /\ Busy(proc[h][t]) /\ task[x] = "taken" /\ where[x] = h /\ result[x] = "none"
        /\ \A u \in Slots : proc[h][u].call = x => u = t
    BY <1>0, <2>2 DEF Assigned
  <2> QED BY <2>1, <2>2, <2>3, <2>4 DEF Busy, Live
<1>9. ASSUME NEW w \in Workers, Retasks(w)
      PROVE  Assigned'
  BY <1>0, <1>9 DEF Retasks, Assigned, Busy, Live
<1>10. Warns => Assigned'
  BY <1>0, WarnsEffect DEF Warns, Assigned, Busy, Live
<1>11. Idles => Assigned'
  BY <1>0 DEF Idles, Assigned, Busy, Live
<1> QED BY <1>1, <1>2, <1>3, <1>4, <1>5, <1>6, <1>7, <1>8, <1>9, <1>10, <1>11, StepEffect

LEMMA AttendedStep ==
  ASSUME IInv, Next
  PROVE  Attended'
<1> USE DEF IInv
<1>0. /\ task \in [Workers -> {"pull", "queued", "taken", "over"}]
      /\ result \in [Workers -> {"none", "ok", "bad", "raised", "canceled", "broken"}]
      /\ where \in [Workers -> Pools] /\ Nobody \notin Workers /\ cur \in Pools
  BY PoolAssumption DEF TypeOK, PoolAssumption
<1>1. ASSUME NEW g \in Pools, NEW s \in Slots, Takes(g, s)
      PROVE  Attended'
  <2> SUFFICES ASSUME NEW x \in Workers, task'[x] = "taken", result'[x] = "none"
               PROVE  \E u \in Slots : proc'[where'[x]][u].call = x
    BY DEF Attended
  <2>1. PICK p \in Process, w \in QueuedIn(g) :
          /\ Updates(g, s, p) /\ p.call = w /\ proc[g][s].at = "free"
          /\ task' = [task EXCEPT ![w] = "taken"] /\ UNCHANGED result /\ OnlyProcess
    BY <1>1 DEF Takes
  <2>2. w \in Workers /\ where[w] = g /\ UNCHANGED <<where, result>>
    BY <2>1 DEF QueuedIn, OnlyProcess
  <2>3. CASE x = w
    BY <2>1, <2>2, <2>3 DEF Updates
  <2>4. CASE x # w
    <3>1. PICK u \in Slots : proc[where[x]][u].call = x
      BY <1>0, <2>1, <2>2, <2>4 DEF Attended
    <3>2. ~(where[x] = g /\ u = s)
      BY <2>1, <3>1 DEF Assigned, Busy, Live
    <3>3. proc'[where[x]][u] = proc[where[x]][u]
      BY <1>0, <2>1, <3>2 DEF Updates
    <3> QED BY <2>2, <3>1, <3>3
  <2> QED BY <2>3, <2>4
<1>2. ASSUME NEW g \in Pools, NEW s \in Slots, Works(g, s)
      PROVE  Attended'
  BY <1>0, <1>2 DEF Works, Onward, Updates, Attended, OnlyProcess
<1>3. ASSUME NEW g \in Pools, NEW s \in Slots, Gives(g, s)
      PROVE  Attended'
  BY <1>0, <1>3 DEF Gives, Updates, Attended, OnlyProcess
<1>4. ASSUME NEW g \in Pools, Breaks(g), UNCHANGED where
      PROVE  Attended'
  BY <1>0, <1>4, BreaksEffect DEF Break, Breaks, CallsOf, Attended
<1>5. ASSUME NEW g \in Pools, Empties(g)
      PROVE  Attended'
  BY <1>0, <1>5, EmptiesEffect DEF Empties, Answered, UnderWay, Attended
<1>6. ASSUME NEW w \in Workers, Submits(w)
      PROVE  Attended'
  <2> SUFFICES ASSUME NEW x \in Workers, task'[x] = "taken", result'[x] = "none"
               PROVE  \E u \in Slots : proc'[where'[x]][u].call = x
    BY DEF Attended
  <2>1. /\ x # w /\ task[x] = "taken" /\ result[x] = "none" /\ where'[x] = where[x]
    BY <1>0, <1>6 DEF Submits
  <2>2. PICK u \in Slots : proc[where[x]][u].call = x
    BY <2>1 DEF Attended
  <2>3. proc'[where[x]][u] = proc[where[x]][u]
    BY <1>0, <1>6, <2>2, SubmitsEffect
  <2> QED BY <2>1, <2>2, <2>3
<1>7. ASSUME NEW w \in Workers, Ends(w)
      PROVE  Attended'
  BY <1>0, <1>7 DEF Ends, Attended
<1>8. ASSUME NEW w \in Workers, Cancels(w)
      PROVE  Attended'
  <2> SUFFICES ASSUME NEW x \in Workers, task'[x] = "taken", result'[x] = "none"
               PROVE  \E u \in Slots : proc'[where'[x]][u].call = x
    BY DEF Attended
  <2>1. /\ x # w /\ task[x] = "taken" /\ result[x] = "none" /\ where'[x] = where[x]
    BY <1>0, <1>8 DEF Cancels, CancelTask
  <2>2. PICK u \in Slots : proc[where[x]][u].call = x
    BY <2>1 DEF Attended
  <2>3. proc'[where[x]][u].call = x
    <3>1. where[x] \in Pools /\ CancelTask(w)
      BY <1>0, <1>8 DEF Cancels
    <3>2. proc'[where[x]][u].call = IF proc[where[x]][u].call = w THEN Nobody ELSE proc[where[x]][u].call
      BY <3>1, CancelsEffect
    <3> QED BY <2>1, <2>2, <3>2
  <2> QED BY <2>1, <2>3
<1>9. ASSUME NEW w \in Workers, Retasks(w)
      PROVE  Attended'
  BY <1>0, <1>9 DEF Retasks, Attended
<1>10. Warns => Attended'
  BY <1>0, WarnsEffect DEF Warns, Attended
<1>11. Idles => Attended'
  BY <1>0 DEF Idles, Attended
<1> QED BY <1>1, <1>2, <1>3, <1>4, <1>5, <1>6, <1>7, <1>8, <1>9, <1>10, <1>11, StepEffect
LEMMA PoolsAnsweredStep ==
  ASSUME IInv, Next
  PROVE  PoolsAnswered'
<1> USE DEF IInv
<1>0. /\ task \in [Workers -> {"pull", "queued", "taken", "over"}]
      /\ result \in [Workers -> {"none", "ok", "bad", "raised", "canceled", "broken"}]
      /\ where \in [Workers -> Pools] /\ cur \in Pools
      /\ ctl \in [Workers -> {"loop", "kill", "nap", "brace", "left", "crashed"}]
      /\ pool \in [Pools -> {"none", "open", "shut", "gone"}] /\ broken \in [Pools -> BOOLEAN]
      /\ waited \in [Workers -> Pools]
  BY DEF TypeOK
<1> USE DEF Answered, UnderWay
<1>1. ASSUME NEW g \in Pools, NEW s \in Slots, Takes(g, s)
      PROVE  PoolsAnswered'
  BY <1>0, <1>1 DEF Takes, OnlyProcess, loop, QueuedIn, PoolsAnswered
<1>2. ASSUME NEW g \in Pools, NEW s \in Slots, Works(g, s)
      PROVE  PoolsAnswered'
  BY <1>0, <1>2 DEF Works, OnlyProcess, loop, PoolsAnswered
<1>3. ASSUME NEW g \in Pools, NEW s \in Slots, Gives(g, s)
      PROVE  PoolsAnswered'
  BY <1>0, <1>3 DEF Gives, OnlyProcess, loop, PoolsAnswered
<1>4. ASSUME NEW g \in Pools, NEW s \in Slots, ProcessStep(g, s)
      PROVE  PoolsAnswered'
  <2>1. CASE PoolBreaks(g)
    BY <1>0, <2>1 DEF PoolBreaks, Breaks, Break, CallsOf, loop, PoolsAnswered
  <2> QED BY <1>1, <1>2, <1>3, <1>4, <2>1, ProcessStepEffect
<1>5. ASSUME NEW g \in Pools, PoolEnds(g)
      PROVE  PoolsAnswered'
  <2>1. /\ Answered(g)
        /\ UNCHANGED <<broken, ctl, waited, task, where, result>>
        /\ pool' = [pool EXCEPT ![g] = "gone"]
    BY <1>5, EndedPoolAnswered DEF PoolEnds, calls, loop
  <2>2. \A h \in Pools : broken'[h] \/ pool'[h] = "gone" => Answered(h)
    BY <1>0, <2>1 DEF PoolsAnswered
  <2>3. \A w \in Workers : ctl'[w] = "nap" => pool'[waited'[w]] = "gone"
    BY <1>0, <2>1 DEF PoolsAnswered
  <2> QED BY <2>1, <2>2, <2>3 DEF PoolsAnswered
<1>6. ASSUME NEW w \in Workers, Submit(w)
      PROVE  PoolsAnswered'
  BY <1>0, <1>6 DEF Submit, Over, loop, PoolsAnswered
<1>7. ASSUME NEW w \in Workers, SubmitReturns(w)
      PROVE  PoolsAnswered'
  BY <1>0, <1>7 DEF SubmitReturns, Over, loop, pools, PoolsAnswered
<1>8. ASSUME NEW w \in Workers, KillBegins(w)
      PROVE  PoolsAnswered'
  BY <1>0, <1>8 DEF KillBegins, Signalled, Break, CallsOf, PoolsAnswered
<1>9. ASSUME NEW w \in Workers, KillReturns(w)
      PROVE  PoolsAnswered'
  <2>1. /\ NewPool \in Pools /\ ~Referred(NewPool)
    BY <1>9, UnusedPool DEF KillReturns
  <2>2. \A x \in Workers : ctl[x] \in {"kill", "nap"} => waited[x] # NewPool
    BY <2>1 DEF Referred, Waiting
  <2> QED BY <1>0, <1>9, <2>1, <2>2 DEF KillReturns, calls, PoolsAnswered
<1>10. ASSUME NEW w \in Workers, TaskCancelled(w) \/ CancelledAtExit(w)
       PROVE  PoolsAnswered'
  <2>1. /\ task' = [task EXCEPT ![w] = "over"] /\ UNCHANGED <<pool, broken, waited>>
        /\ \A x \in Workers \ {w} : where'[x] = where[x] /\ result'[x] = result[x]
        /\ \A x \in Workers : ctl'[x] = "nap" => ctl[x] = "nap"
    BY <1>0, <1>10 DEF TaskCancelled, CancelledAtExit, CancelTask
  <2>2. \A h \in Pools : Answered(h) => Answered(h)'
    BY <1>0, <2>1
  <2> QED BY <2>1, <2>2 DEF PoolsAnswered
<1>11. ASSUME NEW w \in Workers, Resumes(w) \/ Leaves(w) \/ NextTask(w)
       PROVE  PoolsAnswered'
  BY <1>0, <1>11 DEF Resumes, Leaves, NextTask, Pulls, pools, PoolsAnswered
<1>12. Control => PoolsAnswered'
  BY <1>0 DEF Control, WorkerCrashes, PoolShutdownStarts, ShutdownRequested, PoolExits, PoolExited,
         Finished, pools, calls, loop, vars, PoolsAnswered
<1> QED BY <1>4, <1>5, <1>6, <1>7, <1>8, <1>9, <1>10, <1>11, <1>12, StepKinds

LEMMA CurrentReplacedStep ==
  ASSUME IInv, Next
  PROVE  CurrentReplaced'
<1> USE DEF IInv
<1>0. /\ ctl \in [Workers -> {"loop", "kill", "nap", "brace", "left", "crashed"}]
      /\ pool \in [Pools -> {"none", "open", "shut", "gone"}] /\ cur \in Pools
      /\ waited \in [Workers -> Pools]
  BY DEF TypeOK
<1>1. ASSUME NEW g \in Pools, NEW s \in Slots, ProcessStep(g, s)
      PROVE  CurrentReplaced'
  BY <1>1, ProcessStepEffect DEF Takes, Works, Gives, PoolBreaks, OnlyProcess, loop, CurrentReplaced
<1>2. ASSUME NEW g \in Pools, PoolEnds(g)
      PROVE  CurrentReplaced'
  BY <1>0, <1>2 DEF PoolEnds, Referred, loop, CurrentReplaced
<1>3. ASSUME NEW w \in Workers, Submit(w) \/ SubmitReturns(w)
      PROVE  CurrentReplaced'
  BY <1>0, <1>3 DEF Submit, SubmitReturns, loop, pools, CurrentReplaced
<1>4. ASSUME NEW w \in Workers, KillBegins(w)
      PROVE  CurrentReplaced'
  BY <1>0, <1>4 DEF KillBegins, CurrentReplaced
<1>5. ASSUME NEW w \in Workers, KillReturns(w)
      PROVE  CurrentReplaced'
  BY <1>0, <1>5, UnusedPool DEF KillReturns, CurrentReplaced
<1>6. ASSUME NEW w \in Workers, TaskCancelled(w) \/ CancelledAtExit(w)
      PROVE  CurrentReplaced'
  BY <1>0, <1>6 DEF TaskCancelled, CancelledAtExit, CurrentReplaced
<1>7. ASSUME NEW w \in Workers, Resumes(w) \/ Leaves(w) \/ NextTask(w)
      PROVE  CurrentReplaced'
  BY <1>0, <1>7 DEF Resumes, Leaves, NextTask, pools, CurrentReplaced
<1>8. Control => CurrentReplaced'
  BY <1>0 DEF Control, WorkerCrashes, PoolShutdownStarts, ShutdownRequested, PoolExits, PoolExited,
         Finished, pools, loop, vars, CurrentReplaced
<1> QED BY <1>1, <1>2, <1>3, <1>4, <1>5, <1>6, <1>7, <1>8, StepKinds

LEMMA FlagHeldStep ==
  ASSUME IInv, Next
  PROVE  FlagHeld'
<1> USE DEF IInv
<1>1. ASSUME NEW g \in Pools, NEW s \in Slots, ProcessStep(g, s)
      PROVE  FlagHeld'
  BY <1>1, ProcessStepEffect DEF Takes, Works, Gives, PoolBreaks, OnlyProcess, loop, FlagHeld
<1>2. ASSUME NEW w \in Workers, Resumes(w)
      PROVE  FlagHeld'
  BY <1>2 DEF Resumes, FlagHeld
<1>3. ASSUME \/ \E g \in Pools : PoolEnds(g)
             \/ \E w \in Workers :
                  \/ Submit(w) \/ SubmitReturns(w) \/ KillBegins(w) \/ KillReturns(w)
                  \/ TaskCancelled(w) \/ CancelledAtExit(w) \/ Leaves(w) \/ NextTask(w)
      PROVE  FlagHeld'
  BY <1>3 DEF PoolEnds, Submit, SubmitReturns, KillBegins, KillReturns, TaskCancelled,
              CancelledAtExit, Leaves, NextTask, loop, FlagHeld
<1>4. Control => FlagHeld'
  <2>1. ASSUME NEW w \in Workers, WorkerCrashes(w)
        PROVE  FlagHeld'
    BY <2>1 DEF WorkerCrashes, FlagHeld
  <2>2. ASSUME NEW f \in BOOLEAN, ShutdownRequested(f)
        PROVE  FlagHeld'
    BY <2>2 DEF ShutdownRequested, FlagHeld
  <2>3. ASSUME (\E w \in Workers : PoolShutdownStarts(w)) \/ PoolExits \/ PoolExited \/ Finished
        PROVE  FlagHeld'
    BY <2>3 DEF PoolShutdownStarts, PoolExits, PoolExited, Finished, loop, vars, FlagHeld
  <2> QED BY <2>1, <2>2, <2>3 DEF Control
<1> QED BY <1>1, <1>2, <1>3, <1>4, StepKinds
(* The fields of a process that Warned reads.                               *)
KindFits(p) ==
  /\ p.handler = "own" => kind = "shell"
  /\ p.at \in {"starting", "spawned"} => kind = "shell"
  /\ p.timer # "off" => kind = "shell"

LEMMA WarnedStep ==
  ASSUME IInv, Next
  PROVE  Warned'
<1> DEFINE Known(g, s) == \A w \in Workers :
             told[w] /\ proc[g][s].call = w => proc[g][s].at \in AtWork /\ proc[g][s].timer # "off"
<1> USE DEF IInv
<1>0. /\ \A g \in Pools, s \in Slots : Known(g, s) /\ KindFits(proc[g][s])
      /\ Nobody \notin Workers /\ cur \in Pools /\ told \in [Workers -> BOOLEAN]
      /\ proc \in [Pools -> [Slots -> Process]]
  BY PoolAssumption DEF TypeOK, PoolAssumption, Warned, KindFits
<1>k. kind' = kind
  BY ProcessStepEffect, StepKinds DEF Takes, Works, Gives, PoolBreaks, OnlyProcess, PoolEnds, Submit,
     SubmitReturns, KillBegins, KillReturns, TaskCancelled, CancelledAtExit, Resumes, Leaves, NextTask,
     Control, WorkerCrashes, PoolShutdownStarts, ShutdownRequested, PoolExits, PoolExited, Finished, vars
<1> SUFFICES ASSUME NEW h \in Pools, NEW t \in Slots
             PROVE  Known(h, t)' /\ KindFits(proc[h][t])'
  BY DEF Warned, KindFits
<1>1. ASSUME NEW g \in Pools, NEW s \in Slots, Takes(g, s)
      PROVE  Known(h, t)' /\ KindFits(proc[h][t])'
  <2>1. PICK p \in Process, w \in QueuedIn(g) :
          /\ Updates(g, s, p) /\ p.call = w
          /\ p.at = IF kind = "shell" THEN "starting" ELSE "running"
          /\ p.timer = proc[g][s].timer /\ p.handler = proc[g][s].handler /\ OnlyProcess
    BY <1>1 DEF Takes
  <2>2. ~told[w] /\ w \in Workers
    BY <2>1 DEF QueuedIn, Interrupted
  <2>3. told' = told
    BY <2>1 DEF OnlyProcess
  <2>4. CASE h = g /\ t = s
    BY <1>0, <1>k, <2>1, <2>2, <2>3, <2>4 DEF Updates, KindFits
  <2>5. CASE ~(h = g /\ t = s)
    BY <1>0, <1>k, <2>1, <2>3, <2>5 DEF Updates, KindFits
  <2> QED BY <2>4, <2>5
<1>2. ASSUME NEW g \in Pools, NEW s \in Slots, Works(g, s)
      PROVE  Known(h, t)' /\ KindFits(proc[h][t])'
  <2>1. PICK q \in Process : Updates(g, s, q) /\ Onward(proc[g][s], q)
    BY <1>2 DEF Works
  <2>2. told' = told
    BY <1>2 DEF Works, OnlyProcess
  <2>3. CASE h = g /\ t = s
    BY <1>0, <1>k, <2>1, <2>2, <2>3 DEF Updates, Onward, KindFits
  <2>4. CASE ~(h = g /\ t = s)
    BY <1>0, <1>k, <2>1, <2>2, <2>4 DEF Updates, KindFits
  <2> QED BY <2>3, <2>4
<1>3. ASSUME NEW g \in Pools, NEW s \in Slots, Gives(g, s)
      PROVE  Known(h, t)' /\ KindFits(proc[h][t])'
  <2>1. PICK p \in Process :
          /\ Updates(g, s, p) /\ p.at = "free" /\ p.call = Nobody /\ p.timer = "off" /\ p.handler # "own"
    BY <1>3 DEF Gives
  <2>2. told' = told
    BY <1>3 DEF Gives, OnlyProcess
  <2>3. CASE h = g /\ t = s
    BY <1>0, <1>k, <2>1, <2>3 DEF Updates, KindFits
  <2>4. CASE ~(h = g /\ t = s)
    BY <1>0, <1>k, <2>1, <2>2, <2>4 DEF Updates, KindFits
  <2> QED BY <2>3, <2>4
<1>4. ASSUME NEW g \in Pools, PoolBreaks(g)
      PROVE  Known(h, t)' /\ KindFits(proc[h][t])'
  <2>1. Breaks(g) /\ told' = told
    BY <1>4 DEF PoolBreaks
  <2> QED BY <1>0, <1>k, <2>1, BreaksEffect DEF KindFits
<1>5. ASSUME NEW w \in Workers, KillBegins(w)
      PROVE  Known(h, t)' /\ KindFits(proc[h][t])'
  <2>1. CASE Breaks(cur)
    <3>1. CASE h = cur
      BY <1>0, <1>k, <2>1, <3>1, BreaksEffect DEF KindFits
    <3>2. CASE h # cur
      <4>1. \A x \in Workers : told'[x] /\ ~told[x] => \E s \in Slots : proc[cur][s].call = x
        BY <1>5 DEF KillBegins, Signalled
      <4>2. \A x \in Workers : proc[h][t].call = x => ~(told'[x] /\ ~told[x])
        BY <1>0, <3>2, <4>1 DEF Assigned
      <4>3. proc'[h] = proc[h]
        BY <2>1, <3>2, <1>0, BreaksEffect
      <4> QED BY <1>0, <1>k, <4>2, <4>3 DEF KindFits
    <3> QED BY <3>1, <3>2
  <2>2. CASE Warns
    <3>1. \A x \in Workers : told'[x] /\ ~told[x] =>
            \E s \in Slots : /\ proc[cur][s].call = x /\ proc[cur][s].at \in {"running", "silent"}
                             /\ proc[cur][s].handler = "own"
      BY <1>5 DEF KillBegins, Signalled
    <3>2. CASE h = cur
      <4>1. \A x \in Workers : proc[cur][t].call = x /\ told'[x] /\ ~told[x] =>
              proc[cur][t].at \in {"running", "silent"} /\ proc[cur][t].handler = "own"
        BY <1>0, <3>1 DEF Assigned
      <4>2. LET p == proc[cur][t]
                q == proc'[cur][t] IN
              /\ q.call = p.call /\ q.at = p.at /\ q.handler = p.handler
              /\ q.timer # "off" <=> p.timer # "off" \/ (p.handler = "own" /\ Busy(p))
        BY <2>2, WarnsEffect
      <4>3. KindFits(proc[h][t])'
        BY <1>0, <1>k, <3>2, <4>2 DEF KindFits
      <4>4. Known(h, t)'
        BY <1>0, <3>2, <4>1, <4>2 DEF AtWork, Busy, Live
      <4> QED BY <4>3, <4>4
    <3>3. CASE h # cur
      <4>1. \A x \in Workers : proc[h][t].call = x => ~(told'[x] /\ ~told[x])
        BY <1>0, <3>1, <3>3 DEF Assigned
      <4>2. proc'[h] = proc[h]
        BY <2>2, <3>3, <1>0, WarnsEffect
      <4> QED BY <1>0, <1>k, <4>1, <4>2 DEF KindFits
    <3> QED BY <3>2, <3>3
  <2> QED BY <1>5, <2>1, <2>2 DEF KillBegins, Signalled, Breaks, Warns
<1>6. ASSUME NEW g \in Pools, PoolEnds(g)
      PROVE  Known(h, t)' /\ KindFits(proc[h][t])'
  BY <1>0, <1>k, <1>6 DEF PoolEnds, calls, NoProcess, KindFits
<1>7. ASSUME NEW w \in Workers, Submit(w)
      PROVE  Known(h, t)' /\ KindFits(proc[h][t])'
  <2>1. told' = told
    BY <1>7 DEF Submit
  <2>2. CASE Submits(w)
    BY <1>0, <1>k, <2>1, <2>2, SubmitsEffect DEF KindFits
  <2>3. CASE UNCHANGED proc
    BY <1>0, <1>k, <2>1, <2>3 DEF KindFits
  <2> QED BY <1>7, <2>2, <2>3 DEF Submit, Submits, loop
<1>8. ASSUME NEW w \in Workers, KillReturns(w)
      PROVE  Known(h, t)' /\ KindFits(proc[h][t])'
  <2>1. NewPool \in Pools
    BY <1>8, UnusedPool DEF KillReturns
  <2> QED BY <1>0, <1>k, <1>8, <2>1 DEF KillReturns, calls, NoProcess, KindFits
<1>9. ASSUME NEW w \in Workers, TaskCancelled(w) \/ CancelledAtExit(w)
      PROVE  Known(h, t)' /\ KindFits(proc[h][t])'
  <2>1. CancelTask(w) /\ told' = told
    BY <1>9 DEF TaskCancelled, CancelledAtExit
  <2>2. LET p == proc[h][t]
            q == proc'[h][t] IN
          /\ q.call = IF p.call = w THEN Nobody ELSE p.call
          /\ q.at = p.at /\ q.handler = p.handler /\ q.timer = p.timer
    BY <2>1, CancelsEffect
  <2>3. \A x \in Workers : proc'[h][t].call = x => proc[h][t].call = x
    BY <1>0, <2>2
  <2> QED BY <1>0, <1>k, <2>1, <2>2, <2>3 DEF KindFits
<1>10. ASSUME NEW w \in Workers, Resumes(w) \/ Leaves(w) \/ NextTask(w)
       PROVE  Known(h, t)' /\ KindFits(proc[h][t])'
  <2>1. proc' = proc /\ \A x \in Workers : told'[x] => told[x]
    BY <1>0, <1>10 DEF Resumes, Leaves, NextTask, Pulls, pools
  <2> QED BY <1>0, <1>k, <2>1 DEF KindFits
<1>11. ASSUME (\E w \in Workers : SubmitReturns(w)) \/ Control
       PROVE  Known(h, t)' /\ KindFits(proc[h][t])'
  <2>1. UNCHANGED <<proc, told>>
    BY <1>11 DEF SubmitReturns, Control, WorkerCrashes, PoolShutdownStarts, ShutdownRequested, PoolExits,
                 PoolExited, Finished, pools, calls, vars
  <2> QED BY <1>0, <1>k, <2>1 DEF KindFits
<1> QED BY <1>1, <1>2, <1>3, <1>4, <1>5, <1>6, <1>7, <1>8, <1>9, <1>10, <1>11, StepKinds,
           ProcessStepEffect
LEMMA InterruptedStep ==
  ASSUME IInv, Next
  PROVE  Interrupted'
<1> USE DEF IInv
<1>0. /\ task \in [Workers -> {"pull", "queued", "taken", "over"}]
      /\ result \in [Workers -> {"none", "ok", "bad", "raised", "canceled", "broken"}]
      /\ verdict \in [Workers -> {"none", "success", "failed", "canceled", "broken", "refused"}]
      /\ told \in [Workers -> BOOLEAN] /\ Nobody \notin Workers
  BY PoolAssumption DEF TypeOK, PoolAssumption
<1>1. ASSUME NEW g \in Pools, NEW s \in Slots, Takes(g, s) \/ Works(g, s)
      PROVE  Interrupted'
  BY <1>0, <1>1 DEF Takes, Works, OnlyProcess, QueuedIn, Interrupted
<1>2. ASSUME NEW g \in Pools, NEW s \in Slots, Gives(g, s)
      PROVE  Interrupted'
  <2> DEFINE y == proc[g][s].call
  <2>1. PICK r \in {"ok", "bad", "raised", "canceled"} :
          /\ result' = IF y = Nobody THEN result ELSE [result EXCEPT ![y] = r]
          /\ kind = "shell" /\ proc[g][s].at \in AtWork /\ proc[g][s].timer # "off" => r = "canceled"
    BY <1>2 DEF Gives
  <2>2. UNCHANGED <<task, told, verdict>>
    BY <1>2 DEF Gives, OnlyProcess
  <2>3. y \in Workers /\ told[y] => r = "canceled"
    BY <2>1 DEF Warned
  <2>4. \A x \in Workers : told[x] => result'[x] \in {"none", "canceled", "broken"}
    BY <1>0, <2>1, <2>3 DEF Interrupted
  <2> QED BY <2>2, <2>4 DEF Interrupted
<1>3. ASSUME NEW g \in Pools, PoolBreaks(g)
      PROVE  Interrupted'
  BY <1>0, <1>3 DEF PoolBreaks, Breaks, Break, CallsOf, Interrupted
<1>4. ASSUME NEW w \in Workers, KillBegins(w)
      PROVE  Interrupted'
  <2>1. \A x \in Workers : told'[x] /\ ~told[x] => \E s \in Slots : proc[cur][s].call = x
    BY <1>4 DEF KillBegins, Signalled
  <2>2. \A x \in Workers : told'[x] /\ ~told[x] => task[x] = "taken" /\ result[x] = "none"
    <3>1. cur \in Pools
      BY DEF TypeOK
    <3> QED BY <2>1, <3>1 DEF Assigned
  <2>3. \A x \in Workers :
          /\ task'[x] \in {task[x], "taken"} /\ (task[x] = "over" => task'[x] = "over")
          /\ result'[x] \in {result[x], "broken"}
    BY <1>0, <1>4 DEF KillBegins, Signalled, Break, CallsOf
  <2>4. verdict' = verdict
    BY <1>4 DEF KillBegins
  <2>5. ASSUME NEW x \in Workers, told'[x]
        PROVE  /\ task'[x] \in {"taken", "over"}
               /\ task'[x] = "over" => verdict'[x] \in {"canceled", "broken"}
               /\ result'[x] \in {"none", "canceled", "broken"}
    <3>1. CASE told[x]
      BY <2>3, <2>4, <3>1 DEF Interrupted
    <3>2. CASE ~told[x]
      BY <2>2, <2>3, <2>5, <3>2
    <3> QED BY <3>1, <3>2
  <2> QED BY <2>5 DEF Interrupted
<1>5. ASSUME NEW w \in Workers, Submit(w)
      PROVE  Interrupted'
  BY <1>0, <1>5 DEF Submit, Over, Interrupted
<1>6. ASSUME NEW w \in Workers, SubmitReturns(w)
      PROVE  Interrupted'
  <2>1. told[w] => Answer(result[w]) \in {"canceled", "broken"}
    BY <1>6 DEF SubmitReturns, Answer, Interrupted
  <2> QED BY <1>0, <1>6, <2>1 DEF SubmitReturns, Over, Interrupted
<1>7. ASSUME NEW w \in Workers, TaskCancelled(w) \/ CancelledAtExit(w)
      PROVE  Interrupted'
  BY <1>0, <1>7 DEF TaskCancelled, CancelledAtExit, CancelTask, Interrupted
<1>8. ASSUME NEW w \in Workers, Resumes(w) \/ Leaves(w) \/ NextTask(w)
      PROVE  Interrupted'
  BY <1>0, <1>8 DEF Resumes, Leaves, NextTask, Pulls, Interrupted
<1>9. ASSUME \/ \E g \in Pools : PoolEnds(g)
             \/ \E w \in Workers : KillReturns(w)
             \/ Control
      PROVE  Interrupted'
  <2>1. UNCHANGED calls
    BY <1>9 DEF PoolEnds, KillReturns, Control, WorkerCrashes, PoolShutdownStarts, ShutdownRequested,
                PoolExits, PoolExited, Finished, vars
  <2> QED BY <2>1 DEF calls, Interrupted
<1> QED BY <1>1, <1>2, <1>3, <1>4, <1>5, <1>6, <1>7, <1>8, <1>9, StepKinds, ProcessStepEffect
LEMMA ProcTypeStep ==
  ASSUME IInv, Next
  PROVE  proc' \in [Pools -> [Slots -> Process]]
<1> USE DEF IInv
<1>0. proc \in [Pools -> [Slots -> Process]] /\ cur \in Pools
  BY DEF TypeOK
<1>1. ASSUME NEW g \in Pools, NEW s \in Slots, Takes(g, s) \/ Works(g, s) \/ Gives(g, s)
      PROVE  proc' \in [Pools -> [Slots -> Process]]
  BY <1>1 DEF Takes, Works, Gives, Updates
<1>2. ASSUME NEW g \in Pools, Breaks(g) \/ Empties(g)
      PROVE  proc' \in [Pools -> [Slots -> Process]]
  BY <1>2, BreaksEffect, EmptiesEffect
<1>3. ASSUME NEW w \in Workers, Submits(w) \/ Cancels(w)
      PROVE  proc' \in [Pools -> [Slots -> Process]]
  BY <1>3, SubmitsEffect, CancelsEffect DEF Cancels
<1>4. ASSUME NEW w \in Workers, Ends(w) \/ Retasks(w)
      PROVE  proc' \in [Pools -> [Slots -> Process]]
  BY <1>0, <1>4 DEF Ends, Retasks
<1>5. Warns \/ Idles => proc' \in [Pools -> [Slots -> Process]]
  BY <1>0, WarnsEffect DEF Idles
<1> QED BY <1>1, <1>2, <1>3, <1>4, <1>5, StepEffect

CallsTypeOK ==
  /\ task \in [Workers -> {"pull", "queued", "taken", "over"}]
  /\ where \in [Workers -> Pools]
  /\ result \in [Workers -> {"none", "ok", "bad", "raised", "canceled", "broken"}]
  /\ verdict \in [Workers -> {"none", "success", "failed", "canceled", "broken", "refused"}]
  /\ told \in [Workers -> BOOLEAN]

LoopTypeOK ==
  /\ kind \in Kinds /\ cur \in Pools /\ inShutdown \in BOOLEAN
  /\ pool \in [Pools -> {"none", "open", "shut", "gone"}]
  /\ broken \in [Pools -> BOOLEAN]
  /\ ctl \in [Workers -> {"loop", "kill", "nap", "brace", "left", "crashed"}]
  /\ waited \in [Workers -> Pools]
  /\ woken \in [Workers -> BOOLEAN]
  /\ event \in BOOLEAN /\ final \in BOOLEAN /\ leaving \in {"no", "closing", "done"}

UsedTypeOK == used \in [tasks: 0..MaxTasks, shutdowns: 0..MaxShutdowns, faults: 0..MaxFaults]

LEMMA TypeParts ==
  TypeOK <=> CallsTypeOK /\ LoopTypeOK /\ UsedTypeOK /\ proc \in [Pools -> [Slots -> Process]]
BY DEF TypeOK, CallsTypeOK, LoopTypeOK, UsedTypeOK

LEMMA UsedTypeStep ==
  ASSUME UsedTypeOK, Next
  PROVE  UsedTypeOK'
<1>1. \/ used' = used
      \/ used.tasks < MaxTasks /\ used' = [used EXCEPT !.tasks = @ + 1]
      \/ used.shutdowns < MaxShutdowns /\ used' = [used EXCEPT !.shutdowns = @ + 1]
      \/ used.faults < MaxFaults /\ used' = [used EXCEPT !.faults = @ + 1]
  <2>1. ASSUME NEW g \in Pools, NEW s \in Slots, ProcessStep(g, s)
        PROVE  used' = used \/ (used.faults < MaxFaults /\ Count("faults"))
    BY <2>1 DEF ProcessStep, Take, ShellSpawns, HandlerInstalled, StreamsClose, CommandExits, Escalate, Drained,
                CommandReturns, WaitFails, ProcessDies, OrphanEnds
  <2>2. ASSUME \/ \E g \in Pools : PoolEnds(g)
               \/ \E w \in Workers :
                    \/ SubmitReturns(w) \/ KillBegins(w) \/ KillReturns(w) \/ TaskCancelled(w)
                    \/ CancelledAtExit(w) \/ Resumes(w) \/ Leaves(w) \/ NextTask(w)
        PROVE  used' = used
    BY <2>2 DEF PoolEnds, SubmitReturns, KillBegins, KillReturns, TaskCancelled, CancelledAtExit,
                Resumes, Leaves, NextTask
  <2>3. ASSUME NEW w \in Workers, Submit(w)
        PROVE  used.tasks < MaxTasks /\ Count("tasks")
    BY <2>3 DEF Submit
  <2>4. ASSUME Control
        PROVE  used' = used \/ (used.shutdowns < MaxShutdowns /\ Count("shutdowns"))
    BY <2>4 DEF Control, WorkerCrashes, PoolShutdownStarts, ShutdownRequested, PoolExits, PoolExited,
                Finished, vars
  <2> QED BY <2>1, <2>2, <2>3, <2>4, StepKinds DEF Count
<1>2. /\ MaxTasks \in Nat /\ MaxShutdowns \in Nat /\ MaxFaults \in Nat
  BY PoolAssumption DEF PoolAssumption
<1>3. /\ used.tasks \in Nat /\ used.shutdowns \in Nat /\ used.faults \in Nat
  BY DEF UsedTypeOK
<1> QED BY <1>1, <1>2, <1>3 DEF UsedTypeOK

LEMMA CallsTypeStep ==
  ASSUME IInv, Next
  PROVE  CallsTypeOK'
<1> USE DEF IInv
<1>0. CallsTypeOK /\ cur \in Pools /\ 1 \in Pools
  BY TypeParts, PoolAssumption DEF LoopTypeOK, Pools, PoolAssumption
<1>1. ASSUME NEW g \in Pools, NEW s \in Slots, Takes(g, s) \/ Works(g, s)
      PROVE  CallsTypeOK'
  BY <1>0, <1>1 DEF Takes, Works, OnlyProcess, CallsTypeOK
<1>2. ASSUME NEW g \in Pools, NEW s \in Slots, Gives(g, s)
      PROVE  CallsTypeOK'
  <2>1. PICK r \in {"ok", "bad", "raised", "canceled"} :
          result' = IF proc[g][s].call = Nobody THEN result
                    ELSE [result EXCEPT ![proc[g][s].call] = r]
    BY <1>2 DEF Gives
  <2>2. result' \in [Workers -> {"none", "ok", "bad", "raised", "canceled", "broken"}]
    BY <1>0, <2>1 DEF CallsTypeOK
  <2>3. UNCHANGED <<task, where, verdict, told>>
    BY <1>2 DEF Gives, OnlyProcess
  <2> QED BY <1>0, <2>2, <2>3 DEF CallsTypeOK
<1>3. ASSUME NEW g \in Pools, PoolBreaks(g)
      PROVE  CallsTypeOK'
  BY <1>0, <1>3 DEF PoolBreaks, Breaks, Break, CallsTypeOK
<1>4. ASSUME NEW w \in Workers, KillBegins(w)
      PROVE  CallsTypeOK'
  BY <1>0, <1>4 DEF KillBegins, Signalled, Break, CallsTypeOK
<1>5. ASSUME NEW w \in Workers, Submit(w)
      PROVE  CallsTypeOK'
  BY <1>0, <1>5 DEF Submit, Over, CallsTypeOK
<1>6. ASSUME NEW w \in Workers, SubmitReturns(w)
      PROVE  CallsTypeOK'
  <2>1. Answer(result[w]) \in {"success", "failed", "canceled", "broken"}
    BY DEF Answer
  <2> QED BY <1>0, <1>6, <2>1 DEF SubmitReturns, Over, CallsTypeOK
<1>7. ASSUME NEW w \in Workers, TaskCancelled(w) \/ CancelledAtExit(w)
      PROVE  CallsTypeOK'
  BY <1>0, <1>7 DEF TaskCancelled, CancelledAtExit, CancelTask, CallsTypeOK
<1>8. ASSUME NEW w \in Workers, Resumes(w) \/ Leaves(w) \/ NextTask(w)
      PROVE  CallsTypeOK'
  BY <1>0, <1>8 DEF Resumes, Leaves, NextTask, Pulls, CallsTypeOK
<1>9. ASSUME \/ \E g \in Pools : PoolEnds(g)
             \/ \E w \in Workers : KillReturns(w)
             \/ Control
      PROVE  CallsTypeOK'
  <2>1. UNCHANGED calls
    BY <1>9 DEF PoolEnds, KillReturns, Control, WorkerCrashes, PoolShutdownStarts, ShutdownRequested,
                PoolExits, PoolExited, Finished, vars
  <2> QED BY <1>0, <2>1 DEF calls, CallsTypeOK
<1> QED BY <1>1, <1>2, <1>3, <1>4, <1>5, <1>6, <1>7, <1>8, <1>9, StepKinds, ProcessStepEffect

LEMMA LoopTypeStep ==
  ASSUME IInv, Next
  PROVE  LoopTypeOK'
<1> USE DEF IInv
<1>0. LoopTypeOK /\ 1 \in Pools
  BY TypeParts, PoolAssumption DEF Pools, PoolAssumption
<1>1. ASSUME NEW g \in Pools, NEW s \in Slots, ProcessStep(g, s)
      PROVE  LoopTypeOK'
  BY <1>0, <1>1, ProcessStepEffect DEF Takes, Works, Gives, PoolBreaks, Breaks, Break, OnlyProcess, loop,
     LoopTypeOK
<1>2. ASSUME NEW g \in Pools, PoolEnds(g)
      PROVE  LoopTypeOK'
  BY <1>0, <1>2 DEF PoolEnds, loop, LoopTypeOK
<1>3. ASSUME NEW w \in Workers, Submit(w) \/ SubmitReturns(w)
      PROVE  LoopTypeOK'
  BY <1>0, <1>3 DEF Submit, SubmitReturns, loop, pools, LoopTypeOK
<1>4. ASSUME NEW w \in Workers, KillBegins(w)
      PROVE  LoopTypeOK'
  BY <1>0, <1>4 DEF KillBegins, Signalled, Break, LoopTypeOK
<1>5. ASSUME NEW w \in Workers, KillReturns(w)
      PROVE  LoopTypeOK'
  BY <1>0, <1>5, UnusedPool DEF KillReturns, LoopTypeOK
<1>6. ASSUME NEW w \in Workers, TaskCancelled(w) \/ CancelledAtExit(w)
      PROVE  LoopTypeOK'
  BY <1>0, <1>6 DEF TaskCancelled, CancelledAtExit, LoopTypeOK
<1>7. ASSUME NEW w \in Workers, Resumes(w) \/ Leaves(w) \/ NextTask(w)
      PROVE  LoopTypeOK'
  BY <1>0, <1>7 DEF Resumes, Leaves, NextTask, pools, LoopTypeOK
<1>8. ASSUME NEW w \in Workers, WorkerCrashes(w) \/ PoolShutdownStarts(w)
      PROVE  LoopTypeOK'
  BY <1>0, <1>8 DEF WorkerCrashes, PoolShutdownStarts, loop, pools, LoopTypeOK
<1>9. ASSUME NEW f \in BOOLEAN, ShutdownRequested(f)
      PROVE  LoopTypeOK'
  BY <1>0, <1>9 DEF ShutdownRequested, pools, LoopTypeOK
<1>10. ASSUME PoolExits \/ PoolExited \/ Finished
       PROVE  LoopTypeOK'
  BY <1>0, <1>10 DEF PoolExits, PoolExited, Finished, vars, loop, pools, LoopTypeOK
<1> QED BY <1>1, <1>2, <1>3, <1>4, <1>5, <1>6, <1>7, <1>8, <1>9, <1>10, StepKinds DEF Control

LEMMA InitIInv == Init => IInv
<1> SUFFICES ASSUME Init PROVE IInv
  OBVIOUS
<1>1. 1 \in Pools /\ MaxTasks \in Nat /\ MaxShutdowns \in Nat /\ MaxFaults \in Nat
      /\ Nobody \notin Workers
  BY PoolAssumption DEF PoolAssumption, Pools
<1>2. NoProcess \in Process
  BY DEF NoProcess, Process
<1>3. \A g \in Pools, s \in Slots : proc[g][s] = NoProcess
  BY DEF Init
<1>4. CallsTypeOK /\ LoopTypeOK
  BY <1>1 DEF Init, CallsTypeOK, LoopTypeOK
<1>5. UsedTypeOK
  BY <1>1 DEF Init, UsedTypeOK
<1>6. proc \in [Pools -> [Slots -> Process]]
  BY <1>2 DEF Init
<1>7. Assigned /\ Warned
  BY <1>1, <1>3 DEF Assigned, Warned, NoProcess, Init
<1>8. Attended /\ Settled /\ PoolsAnswered /\ CurrentReplaced /\ Interrupted /\ FlagHeld
  BY <1>1 DEF Init, Attended, Settled, PoolsAnswered, Answered, UnderWay, CurrentReplaced, Interrupted,
              FlagHeld
<1> QED BY <1>4, <1>5, <1>6, <1>7, <1>8, TypeParts DEF IInv

LEMMA NextIInv == IInv /\ [Next]_vars => IInv'
<1> SUFFICES ASSUME IInv, [Next]_vars PROVE IInv'
  OBVIOUS
<1>1. CASE Next
  <2>1. TypeOK'
    <3>1. UsedTypeOK'
      BY <1>1, UsedTypeStep, TypeParts DEF IInv
    <3> QED BY <1>1, <3>1, CallsTypeStep, LoopTypeStep, ProcTypeStep, TypeParts
            DEF TypeOK, CallsTypeOK, LoopTypeOK, UsedTypeOK
  <2> QED BY <1>1, <2>1, AssignedStep, AttendedStep, SettledStep, PoolsAnsweredStep,
             CurrentReplacedStep, WarnedStep, InterruptedStep, FlagHeldStep DEF IInv
<1>2. CASE UNCHANGED vars
  BY <1>2 DEF vars, pools, calls, loop, IInv, TypeOK, Assigned, Attended, Settled, PoolsAnswered,
              Answered, UnderWay, CurrentReplaced, Warned, Interrupted, FlagHeld, Busy, Live
<1> QED BY <1>1, <1>2

------------------------------------------------------------------------------
(* The inductive invariant holds in every reachable state.                  *)
THEOREM Invariance == Spec => []IInv
BY InitIInv, NextIInv, PTL DEF Spec

(* The state of the pools, of their processes and of the workers around     *)
(* them (work.py) keeps its types: no pool is ever missing.                 *)
THEOREM TypeCorrectness == Spec => []TypeOK
<1>1. IInv => TypeOK
  BY DEF IInv
<1> QED BY <1>1, Invariance, PTL

(* However many workers shut the shared pool down, and whoever resumes it   *)
(* first: a task whose command was told to stop ends canceled, or broken    *)
(* with its pool (work.py, run_cmd_and_log_outputs).                        *)
THEOREM InterruptedAreGivenBack == Spec => []InterruptedIsGivenBack
<1>1. IInv => InterruptedIsGivenBack
  BY DEF IInv, Interrupted, InterruptedIsGivenBack
<1> QED BY <1>1, Invariance, PTL

(* kill_all_subprocesses of several workers on one pool: somebody replaces  *)
(* a stopped pool, and no command outlives the wait for its pool.           *)
THEOREM PoolIsReplaced == Spec => []PoolReplacedWhenDone
<1>1. IInv => PoolReplacedWhenDone
  BY DEF IInv, TypeOK, CurrentReplaced, PoolsAnswered, Answered, UnderWay, PoolReplacedWhenDone
<1> QED BY <1>1, Invariance, PTL

(* _in_shutdown does not outlive the shutdowns: while it is set, the event  *)
(* that announced them is.                                                  *)
THEOREM FlagClears == Spec => []ShutdownFlagClears
<1>1. IInv => ShutdownFlagClears
  BY DEF IInv, FlagHeld, ShutdownFlagClears
<1> QED BY <1>1, Invariance, PTL
==============================================================================
