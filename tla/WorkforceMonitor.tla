--------------------------- MODULE WorkforceMonitor ---------------------------
(***************************************************************************)
(* The pid files of the worker processes and the shutdown messages          *)
(* (orchestration/pid_file.py, orchestration/workforce_monitor.py).  A      *)
(* worker process holds the file <worker_id>.pid of its node while it runs  *)
(* and listens on one subscription that all nodes share.  The process that  *)
(* receives a message signals every process whose file it finds on its      *)
(* node, itself included, completes the message and stops listening.        *)
(*                                                                          *)
(* Which of the two signals a message asks for makes no difference here;    *)
(* what a worker does with it is the subject of WorkerPool.                 *)
(***************************************************************************)
EXTENDS Integers, FiniteSets

CONSTANTS
  Procs,          \* worker processes, each with a pid of its own
  Ids,            \* pid files, on all nodes
  Nobody,
  Placements,     \* the worker ids, on which nodes, that processes may have
  NodeOf,         \* NodeOf[i]: the node of file i
  Messages,       \* shutdown messages
  MaxDeliveries,  \* the service's delivery count of a message
  MaxFaults       \* bound: processes that crash, connections that fail

ASSUME MonitorAssumption ==
  /\ Placements \subseteq [Procs -> Ids] /\ DOMAIN NodeOf = Ids /\ Nobody \notin Procs
  /\ IsFiniteSet(Procs) /\ IsFiniteSet(Ids)
  /\ MaxDeliveries \in Nat \ {0} /\ MaxFaults \in Nat

VARIABLES
  idOf,    \* idOf[p]: the file of p's worker_id on p's node
  proc,    \* proc[p]: where process p is with its pid file
  file,    \* file[i]: who created it and whether the pid is written
  mon,     \* mon[p]: its _check_for_shutdown_events task
  malformed, \* messages that are no JSON or name no known operation
  todo,    \* todo[p]: files of the glob still to be looked at
  msg,     \* msg[m]: where the message is, who is busy with it, its deliveries
  told,    \* processes at work that were signalled (history)
  seen,    \* seen[m]: processes at work on its node when m was last received (history)
  raced,   \* files that two processes were creating at the same time (history)
  faults

pids == <<idOf, proc, file, raced>>
bus  == <<malformed, mon, todo, msg, told, seen>>
vars == <<pids, bus, faults>>

NoFile == [by |-> Nobody, written |-> FALSE]
Entering == {"exists", "stale", "reopen", "write"}

TypeOK ==
  /\ idOf \in Placements /\ malformed \subseteq Messages
  /\ proc \in [Procs -> {"off", "working", "closing", "gone", "reused"} \cup Entering]
  /\ file \in [Ids -> [by : Procs \cup {Nobody}, written : BOOLEAN]]
  /\ mon \in [Procs -> {"off", "connect", "listen", "signal", "complete", "done", "failed"}]
  /\ todo \in [Procs -> SUBSET Ids]
  /\ \A p \in Procs : /\ mon[p] # "off" => proc[p] \in {"working", "closing"}
                      /\ todo[p] # {} => mon[p] = "signal"
  /\ msg \in [Messages -> [at : {"ready", "locked", "completed", "dead"},
                           by : Procs \cup {Nobody}, deliveries : 0..MaxDeliveries]]
  /\ \A m \in Messages : msg[m].by # Nobody => msg[m].at = "locked"
  /\ told \subseteq Procs /\ seen \in [Messages -> SUBSET Procs]
  /\ raced \subseteq Ids /\ faults \in 0..MaxFaults

Init ==
  /\ idOf \in Placements /\ malformed \in SUBSET Messages
  /\ proc = [p \in Procs |-> "off"]
  /\ file = [i \in Ids |-> NoFile]
  /\ mon = [p \in Procs |-> "off"] /\ todo = [p \in Procs |-> {}]
  /\ msg = [m \in Messages |-> [at |-> "ready", by |-> Nobody, deliveries |-> 0]]
  /\ told = {} /\ seen = [m \in Messages |-> {}] /\ raced = {} /\ faults = 0

(* A pid answers to signals while its process lives, or another one has it. *)
Alive(p) == proc[p] \notin {"off", "gone"}

(* The synchronous loop over the files keeps its process from anything else.*)
Free(p) == mon[p] # "signal"

------------------------------------------------------------------------------
(* PidFile.__enter__                                                        *)

(* os.open with O_EXCL.                                                     *)
Open(p) ==
  /\ proc[p] = "off"
  /\ IF file[idOf[p]] = NoFile
     THEN /\ file' = [file EXCEPT ![idOf[p]] = [by |-> p, written |-> FALSE]]
          /\ proc' = [proc EXCEPT ![p] = "write"]
     ELSE proc' = [proc EXCEPT ![p] = "exists"] /\ UNCHANGED file
  /\ raced' = IF \E q \in Procs \ {p} : idOf[q] = idOf[p] /\ proc[q] \in Entering
              THEN raced \cup {idOf[p]} ELSE raced
  /\ UNCHANGED <<idOf, bus, faults>>

(* check_pid: the pid in a file, if a process has it.  A file that is still *)
(* empty names none.                                                        *)
InUse_NotAsked(f) == ~f.written   \* mutant: a process that has the pid is not looked for

InUse(f) == f.written /\ Alive(f.by)

(* Its holder lives: ProcessRunningException.  A file that has gone by now  *)
(* raises, too.                                                             *)
CheckPid(p) ==
  /\ proc[p] = "exists"
  /\ LET f == file[idOf[p]] IN
     proc' = [proc EXCEPT ![p] = IF f = NoFile \/ InUse(f) THEN "closing" ELSE "stale"]
  /\ UNCHANGED <<idOf, file, raced, bus, faults>>

RemoveStale(p) ==
  /\ proc[p] = "stale"
  /\ proc' = [proc EXCEPT ![p] = IF file[idOf[p]] = NoFile THEN "closing" ELSE "reopen"]
  /\ file' = [file EXCEPT ![idOf[p]] = NoFile]
  /\ UNCHANGED <<idOf, raced, bus, faults>>

Reopen(p) ==
  /\ proc[p] = "reopen"
  /\ IF file[idOf[p]] = NoFile
     THEN /\ file' = [file EXCEPT ![idOf[p]] = [by |-> p, written |-> FALSE]]
          /\ proc' = [proc EXCEPT ![p] = "write"]
     ELSE proc' = [proc EXCEPT ![p] = "closing"] /\ UNCHANGED file
  /\ UNCHANGED <<idOf, raced, bus, faults>>

(* The pid goes to the file that was opened, even if the name is another's  *)
(* by now.  The workers start, and so does the monitor.                     *)
WritePid(p) ==
  /\ proc[p] = "write"
  /\ proc' = [proc EXCEPT ![p] = "working"]
  /\ file' = IF file[idOf[p]].by = p
             THEN [file EXCEPT ![idOf[p]] = [by |-> p, written |-> TRUE]] ELSE file
  /\ mon' = [mon EXCEPT ![p] = "connect"]
  /\ UNCHANGED <<idOf, malformed, raced, todo, msg, told, seen, faults>>

------------------------------------------------------------------------------
(* The end of a process: the workers leave, told or out of tasks; __exit__  *)
(* removes the file of that name, whoever wrote it; the monitor is          *)
(* cancelled.                                                               *)

Leaves(p) ==
  /\ proc[p] = "working" /\ Free(p)
  /\ proc' = [proc EXCEPT ![p] = "closing"]
  /\ file' = [file EXCEPT ![idOf[p]] = NoFile]
  /\ told' = told \ {p}
  /\ UNCHANGED <<idOf, malformed, raced, mon, todo, msg, seen, faults>>

MonitorCancelled_Left(p) ==   \* mutant: the task is left running
  /\ proc[p] = "closing" /\ Free(p)
  /\ proc' = [proc EXCEPT ![p] = "gone"]
  /\ UNCHANGED <<idOf, file, raced, bus, faults>>

MonitorCancelled(p) ==
  /\ proc[p] = "closing" /\ Free(p)
  /\ proc' = [proc EXCEPT ![p] = "gone"]
  /\ mon' = [mon EXCEPT ![p] = "off"]
  /\ UNCHANGED <<idOf, malformed, file, raced, todo, msg, told, seen, faults>>

(* Killed: its file stays.                                                  *)
Crashes(p) ==
  /\ Alive(p) /\ proc[p] # "reused" /\ faults < MaxFaults
  /\ faults' = faults + 1
  /\ proc' = [proc EXCEPT ![p] = "gone"]
  /\ mon' = [mon EXCEPT ![p] = "off"] /\ todo' = [todo EXCEPT ![p] = {}]
  /\ told' = told \ {p}
  /\ UNCHANGED <<idOf, malformed, file, raced, msg, seen>>

(* Any other program gets the pid.                                          *)
PidReused(p) ==
  /\ proc[p] = "gone" /\ faults < MaxFaults
  /\ faults' = faults + 1
  /\ proc' = [proc EXCEPT ![p] = "reused"]
  /\ UNCHANGED <<idOf, file, raced, bus>>

------------------------------------------------------------------------------
(* _check_for_shutdown_events.                                              *)

Monitor(p, to) == mon' = [mon EXCEPT ![p] = to] /\ UNCHANGED pids

Connects(p) ==
  /\ mon[p] = "connect"
  /\ \/ Monitor(p, "listen") /\ UNCHANGED faults
     \/ Monitor(p, "failed") /\ faults < MaxFaults /\ faults' = faults + 1
  /\ UNCHANGED <<malformed, todo, msg, told, seen>>

Holds(p, m) == msg[m].by = p
LetsGo(p) == msg' = [m \in Messages |-> IF Holds(p, m) THEN [msg[m] EXCEPT !.by = Nobody] ELSE msg[m]]

AtWork == {q \in Procs : proc[q] = "working"}
Colleagues(p) == {q \in AtWork : NodeOf[idOf[q]] = NodeOf[idOf[p]]}

Received(p, m) ==
  msg' = [msg EXCEPT ![m] = [at |-> "locked", by |-> p, deliveries |-> @.deliveries + 1]]

(* One it cannot read, or that asks for something else: the next one, and   *)
(* the lock is left to expire.                                              *)
ReceivesMalformed(p, m) ==
  /\ mon[p] = "listen" /\ msg[m].at = "ready" /\ m \in malformed
  /\ Received(Nobody, m)
  /\ UNCHANGED <<pids, malformed, mon, todo, told, seen, faults>>

(* receive_messages, then the glob of send_signal_by_glob.                  *)
Receives(p, m) ==
  /\ mon[p] = "listen" /\ msg[m].at = "ready" /\ m \notin malformed
  /\ Received(p, m)
  /\ Monitor(p, "signal")
  /\ todo' = [todo EXCEPT ![p] = {i \in Ids : file[i] # NoFile /\ NodeOf[i] = NodeOf[idOf[p]]}]
  /\ seen' = [seen EXCEPT ![m] = Colleagues(p)]
  /\ UNCHANGED <<malformed, told, faults>>

(* A file that was removed since the glob: check_pid raises, the loop is    *)
(* left and the message is not completed.                                   *)
FileVanished_Ignored(p, i) ==   \* mutant: the exception ends the loop only
  /\ mon[p] = "signal" /\ i \in todo[p] /\ file[i] = NoFile
  /\ Monitor(p, "complete")
  /\ todo' = [todo EXCEPT ![p] = {}]
  /\ UNCHANGED <<malformed, msg, told, seen, faults>>

FileVanished_StopsListening(p, i) ==   \* mutant: and the listening
  /\ mon[p] = "signal" /\ i \in todo[p] /\ file[i] = NoFile
  /\ Monitor(p, "done")
  /\ todo' = [todo EXCEPT ![p] = {}] /\ LetsGo(p)
  /\ UNCHANGED <<malformed, told, seen, faults>>

FileVanished(p, i) ==
  /\ mon[p] = "signal" /\ i \in todo[p] /\ file[i] = NoFile
  /\ Monitor(p, "listen")
  /\ todo' = [todo EXCEPT ![p] = {}] /\ LetsGo(p)
  /\ UNCHANGED <<malformed, told, seen, faults>>

(* send_signal, unless check_pid says that no process has the pid.          *)
SendSignal(p, i) ==
  /\ mon[p] = "signal" /\ i \in todo[p] /\ file[i] # NoFile
  /\ told' = IF InUse(file[i]) THEN told \cup ({file[i].by} \cap AtWork) ELSE told
  /\ todo' = [todo EXCEPT ![p] = @ \ {i}]
  /\ UNCHANGED <<pids, malformed, mon, msg, seen, faults>>

GlobDone(p) ==
  /\ mon[p] = "signal" /\ todo[p] = {}
  /\ Monitor(p, "complete")
  /\ UNCHANGED <<malformed, todo, msg, told, seen, faults>>

(* complete_message succeeds, or only its answer is lost: that raises.      *)
Completes(p, m) ==
  /\ mon[p] = "complete" /\ Holds(p, m)
  /\ msg' = [msg EXCEPT ![m].at = "completed", ![m].by = Nobody]
  /\ Monitor(p, "done") \/ Monitor(p, "listen")
  /\ UNCHANGED <<malformed, todo, told, seen, faults>>

(* It fails, or the lock has expired: back to listening.                    *)
CompleteFails(p) ==
  /\ mon[p] = "complete"
  /\ Monitor(p, "listen") /\ LetsGo(p)
  /\ UNCHANGED <<malformed, todo, told, seen, faults>>

(* The service takes back a lock that has expired, whatever its holder is   *)
(* doing, and gives up a message after so many deliveries.                  *)
LockExpires(m) ==
  /\ msg[m].at = "locked"
  /\ msg' = [msg EXCEPT ![m].at = IF msg[m].deliveries < MaxDeliveries THEN "ready" ELSE "dead",
                        ![m].by = Nobody]
  /\ seen' = [seen EXCEPT ![m] = {}]
  /\ UNCHANGED <<pids, malformed, mon, todo, told, faults>>

Finished ==
  /\ \A p \in Procs : proc[p] \in {"gone", "reused"}
  /\ \A m \in Messages : msg[m].at # "locked"
  /\ UNCHANGED vars

MonitorStep(p) ==
  \/ Connects(p) \/ GlobDone(p) \/ CompleteFails(p)
  \/ \E m \in Messages : Receives(p, m) \/ ReceivesMalformed(p, m) \/ Completes(p, m)
  \/ \E i \in Ids : FileVanished(p, i) \/ SendSignal(p, i)

Next ==
  \/ \E p \in Procs : \/ Open(p) \/ CheckPid(p) \/ RemoveStale(p) \/ Reopen(p) \/ WritePid(p)
                      \/ Leaves(p) \/ MonitorCancelled(p) \/ Crashes(p) \/ PidReused(p)
                      \/ MonitorStep(p)
  \/ \E m \in Messages : LockExpires(m)
  \/ Finished

Spec == Init /\ [][Next]_vars

(* The event loop runs the monitor task, and locks do expire.  Nothing is   *)
(* assumed of when processes start and leave.                               *)
Fairness ==
  /\ \A p \in Procs : WF_vars(MonitorStep(p))
  /\ \A m \in Messages : WF_vars(LockExpires(m))

FairSpec == Spec /\ Fairness

------------------------------------------------------------------------------
(* Properties.                                                              *)

(* A message that was completed has reached every process that was at work  *)
(* on the node of its receiver when it was received: each of them was       *)
(* signalled or is on its way out, although files come and go between glob  *)
(* and check_pid and the message may have been received before elsewhere.   *)
CompletedMeansTold ==
  \A m \in Messages : msg[m].at = "completed" =>
    \A p \in seen[m] : proc[p] = "working" /\ idOf[p] \notin raced => p \in told

(* The lock holds as far as it can: two processes with the same worker id   *)
(* work at the same time only if both were creating the file at the same    *)
(* time once, whatever crashed or left its file behind before.              *)
Exclusive ==
  \A p, q \in Procs :
    p # q /\ idOf[p] = idOf[q] /\ proc[p] = "working" /\ proc[q] = "working"
      => idOf[p] \in raced

(* A shutdown message gets through: it is completed or dead-lettered, or in *)
(* the end nobody is left to be told (all at work have been signalled, but  *)
(* for processes that could not connect or raced for their file).           *)
ShutdownArrives ==
  \A m \in Messages :
    m \notin malformed /\ msg[m].at \in {"ready", "locked"} ~>
      \/ msg[m].at \in {"completed", "dead"}
      \/ \A p \in Procs : proc[p] = "working" =>
           p \in told \/ mon[p] = "failed" \/ idOf[p] \in raced
==============================================================================
