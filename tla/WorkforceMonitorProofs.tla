------------------------ MODULE WorkforceMonitorProofs ------------------------
(***************************************************************************)
(* Theorems about WorkforceMonitor, for any processes, nodes, messages and  *)
(* bounds: its types, how far the pid file excludes, and that a message is  *)
(* completed only after it has reached the node.                            *)
(***************************************************************************)
EXTENDS WorkforceMonitor, TLAPS

(* A message that can be received has a delivery left.                      *)
Deliverable == \A m \in Messages : msg[m].at = "ready" => msg[m].deliveries < MaxDeliveries

(* A file that was never created by two processes at once is its process's  *)
(* own, from the write to the end of its work.                              *)
OwnFile(p) ==
  /\ proc[p] = "working" => file[idOf[p]] = [by |-> p, written |-> TRUE]
  /\ proc[p] = "write" => file[idOf[p]] = [by |-> p, written |-> FALSE]

(* Two that enter at once have raced, and who took a file for stale keeps   *)
(* nobody from work.                                                        *)
Apart(p, q) ==
  p # q /\ idOf[p] = idOf[q] /\ idOf[p] \notin raced =>
    /\ ~(proc[p] \in Entering /\ proc[q] \in Entering)
    /\ ~(proc[p] \in {"stale", "reopen", "write"} /\ proc[q] = "working")

FileLock ==
  /\ \A p \in Procs : idOf[p] \notin raced => OwnFile(p)
  /\ \A p, q \in Procs : Apart(p, q)

(* A process that was seen at work does not start again.                    *)
Seen == \A m \in Messages : \A q \in seen[m] : proc[q] \in {"working", "closing", "gone", "reused"}

(* What is still to be done for q before m may be completed.                *)
Owed(m, q) == q \in seen[m] /\ proc[q] = "working" /\ idOf[q] \notin raced

(* The loop over the files has told or will reach everybody it owes.        *)
Held ==
  \A m \in Messages, p \in Procs : Holds(p, m) =>
    \A q \in Procs :
      /\ q \in seen[m] => NodeOf[idOf[q]] = NodeOf[idOf[p]]
      /\ mon[p] = "signal" /\ Owed(m, q) => q \in told \/ idOf[q] \in todo[p]
      /\ mon[p] = "complete" /\ Owed(m, q) => q \in told

IInv == TypeOK /\ Deliverable /\ FileLock /\ Seen /\ Held /\ CompletedMeansTold
------------------------------------------------------------------------------
(* Steps by what they leave alone *)

LockStep(p) == Open(p) \/ CheckPid(p) \/ RemoveStale(p) \/ Reopen(p)
EndStep(p) == Leaves(p) \/ MonitorCancelled(p) \/ Crashes(p) \/ PidReused(p)
PidStep(p) == LockStep(p) \/ WritePid(p) \/ EndStep(p)

LEMMA StepKinds ==
  ASSUME Next
  PROVE  \/ \E p \in Procs : PidStep(p) \/ MonitorStep(p)
         \/ \E m \in Messages : LockExpires(m)
         \/ UNCHANGED vars
BY DEF Next, PidStep, LockStep, EndStep, Finished

(* The messages and the monitors leave the pid files alone.                 *)
LEMMA BusLeavesPids ==
  ASSUME \/ \E p \in Procs : MonitorStep(p)
         \/ \E m \in Messages : LockExpires(m)
         \/ UNCHANGED vars
  PROVE  UNCHANGED pids
BY DEF MonitorStep, Connects, GlobDone, CompleteFails, Receives, ReceivesMalformed, Completes,
       FileVanished, SendSignal, LockExpires, Monitor, vars

(* A process's step with its pid file is about itself, that file and, at    *)
(* most, its own monitor.                                                   *)
LEMMA PidStepEffect ==
  ASSUME TypeOK, NEW p \in Procs, PidStep(p)
  PROVE  /\ idOf' = idOf /\ malformed' = malformed /\ msg' = msg /\ seen' = seen
         /\ raced \subseteq raced'
         /\ proc' = [proc EXCEPT ![p] = proc'[p]]
         /\ \A i \in Ids : i # idOf[p] => file'[i] = file[i]
         /\ told' \in {told, told \ {p}}
         /\ told' # told => proc'[p] # "working"
         /\ proc'[p] = "working" => proc[p] \in {"working", "write"}
         /\ proc'[p] \in Entering => proc[p] \in Entering \cup {"off"}
         /\ proc'[p] # "off"
         /\ proc[p] \in {"working", "closing", "gone", "reused"}
              => proc'[p] \in {"closing", "gone", "reused"}
         /\ mon' \in {mon, [mon EXCEPT ![p] = "connect"], [mon EXCEPT ![p] = "off"]}
         /\ todo' \in {todo, [todo EXCEPT ![p] = {}]}
         /\ todo' # todo => mon'[p] = "off"
<1>1. idOf[p] \in Ids /\ p \in DOMAIN proc
  BY MonitorAssumption DEF TypeOK
<1> USE <1>1 DEF TypeOK
<1>2. CASE LockStep(p)
  BY <1>2 DEF LockStep, Open, CheckPid, RemoveStale, Reopen, Entering, bus
<1>3. CASE WritePid(p)
  BY <1>3 DEF WritePid, Entering
<1>4. CASE EndStep(p)
  BY <1>4 DEF EndStep, Leaves, MonitorCancelled, Crashes, PidReused, Alive, Entering, bus
<1> QED BY <1>2, <1>3, <1>4 DEF PidStep

------------------------------------------------------------------------------
(* The pid files *)

LEMMA FileLockStep == ASSUME TypeOK, FileLock, Next PROVE FileLock'
<1>0. ASSUME UNCHANGED pids PROVE FileLock'
  BY <1>0 DEF pids, FileLock, OwnFile, Apart
<1>1. ASSUME NEW r \in Procs, PidStep(r), NEW p \in Procs, idOf'[p] \notin raced'
      PROVE  OwnFile(p)'
  <2>1. /\ idOf[p] \in Ids /\ idOf[r] \in Ids /\ idOf[p] \notin raced /\ OwnFile(p)
        /\ Apart(r, p) /\ Apart(p, r)
    BY <1>1, PidStepEffect, MonitorAssumption DEF TypeOK, FileLock
  <2>2. CASE p # r
    <3>1. proc'[p] = proc[p] /\ idOf' = idOf
      BY <1>1, <2>2, PidStepEffect DEF TypeOK
    <3>2. CASE idOf[p] # idOf[r]
      BY <1>1, <2>1, <3>1, <3>2, PidStepEffect DEF OwnFile
    <3>3. CASE idOf[p] = idOf[r] /\ proc[p] \in {"working", "write"}
      <4>1. CASE LockStep(r)
        BY <4>1, <1>1, <2>1, <2>2, <3>1, <3>3, MonitorAssumption
           DEF LockStep, Open, CheckPid, RemoveStale, Reopen, OwnFile, Apart, Entering, NoFile, TypeOK
      <4>2. CASE WritePid(r)
        BY <4>2, <1>1, <2>1, <2>2, <3>1, <3>3 DEF WritePid, OwnFile, Apart, Entering, TypeOK
      <4>3. CASE EndStep(r)
        <5>1. ~Leaves(r)
          <6>1. OwnFile(r)
            BY <2>1, <3>3 DEF FileLock
          <6> QED BY <6>1, <2>1, <2>2, <3>3 DEF Leaves, OwnFile, Apart
        <5> QED BY <5>1, <4>3, <2>1, <3>1 DEF EndStep, MonitorCancelled, Crashes, PidReused, OwnFile
      <4> QED BY <1>1, <4>1, <4>2, <4>3 DEF PidStep
    <3> QED BY <3>1, <3>2, <3>3 DEF OwnFile
  <2>3. CASE p = r
    <3>1. CASE LockStep(r)
      BY <3>1, <2>1, <2>3 DEF LockStep, Open, CheckPid, RemoveStale, Reopen, OwnFile, TypeOK
    <3>2. CASE WritePid(r)
      <4>1. file[idOf[p]] = [by |-> p, written |-> FALSE]
        BY <3>2, <2>1, <2>3 DEF WritePid, OwnFile
      <4>2. file[idOf[p]].by = p
        BY <4>1
      <4>3. /\ proc'[p] = "working" /\ idOf' = idOf
            /\ file' = [file EXCEPT ![idOf[p]] = [by |-> p, written |-> TRUE]]
        BY <4>2, <3>2, <2>3 DEF WritePid, TypeOK
      <4>4. file'[idOf[p]] = [by |-> p, written |-> TRUE]
        BY <4>3, <2>1 DEF TypeOK
      <4> QED BY <4>3, <4>4 DEF OwnFile
    <3>3. CASE EndStep(r)
      <4>1. proc'[p] \in {"closing", "gone", "reused"}
        BY <3>3, <2>3 DEF EndStep, Leaves, MonitorCancelled, Crashes, PidReused, TypeOK
      <4> QED BY <4>1 DEF OwnFile
    <3> QED BY <1>1, <3>1, <3>2, <3>3 DEF PidStep
  <2> QED BY <2>2, <2>3
<1>2. ASSUME NEW r \in Procs, PidStep(r), NEW p \in Procs, NEW q \in Procs
      PROVE  Apart(p, q)'
  <2> SUFFICES ASSUME p # q, idOf'[p] = idOf'[q], idOf'[p] \notin raced'
               PROVE  /\ ~(proc'[p] \in Entering /\ proc'[q] \in Entering)
                      /\ ~(proc'[p] \in {"stale", "reopen", "write"} /\ proc'[q] = "working")
    BY DEF Apart, Entering
  <2>1. /\ idOf[p] = idOf[q] /\ idOf[p] \notin raced /\ idOf[p] \in Ids
        /\ Apart(p, q) /\ Apart(q, p) /\ OwnFile(p) /\ OwnFile(q)
    BY <1>2, PidStepEffect, MonitorAssumption DEF TypeOK, FileLock
  <2>2. CASE r \notin {p, q}
    BY <1>2, <2>1, <2>2, PidStepEffect DEF TypeOK, Apart
  <2>3. CASE r = p
    <3>1. proc'[q] = proc[q]
      BY <1>2, <2>3, PidStepEffect DEF TypeOK
    <3>2. CASE Open(p)
      <4>1. proc[q] \notin Entering /\ proc'[p] \in {"write", "exists"}
        BY <3>2, <2>1 DEF Open, TypeOK
      <4>2. proc'[p] = "write" => proc[q] # "working"
        BY <3>2, <2>1 DEF Open, TypeOK, OwnFile, NoFile
      <4> QED BY <3>1, <4>1, <4>2
    <3>3. CASE CheckPid(p)
      BY <3>3, <3>1, <2>1 DEF CheckPid, TypeOK, OwnFile, Apart, Entering, InUse, Alive
    <3>4. CASE RemoveStale(p) \/ Reopen(p)
      BY <3>4, <3>1, <2>1 DEF RemoveStale, Reopen, TypeOK, Apart, Entering
    <3>5. CASE WritePid(p) \/ EndStep(p)
      BY <3>5, <3>1 DEF WritePid, EndStep, Leaves, MonitorCancelled, Crashes, PidReused, TypeOK,
                        Entering
    <3> QED BY <1>2, <2>3, <3>2, <3>3, <3>4, <3>5 DEF PidStep, LockStep
  <2>4. CASE r = q
    <3>1. proc'[p] = proc[p]
      BY <1>2, <2>4, PidStepEffect DEF TypeOK
    <3>2. CASE Open(q)
      BY <3>2, <3>1, <2>1 DEF Open, TypeOK, Entering
    <3>3. CASE CheckPid(q) \/ RemoveStale(q) \/ Reopen(q)
      BY <3>3, <3>1, <2>1 DEF CheckPid, RemoveStale, Reopen, TypeOK, Apart, Entering
    <3>4. CASE WritePid(q) \/ EndStep(q)
      BY <3>4, <3>1, <2>1 DEF WritePid, EndStep, Leaves, MonitorCancelled, Crashes, PidReused,
                              TypeOK, Apart, Entering
    <3> QED BY <1>2, <2>4, <3>2, <3>3, <3>4 DEF PidStep, LockStep
  <2> QED BY <2>2, <2>3, <2>4
<1>3. ASSUME NEW r \in Procs, PidStep(r) PROVE FileLock'
  BY <1>1, <1>2, <1>3 DEF FileLock
<1> QED BY <1>0, <1>3, StepKinds, BusLeavesPids

------------------------------------------------------------------------------
(* Types *)

(* What becomes of a message, and of the process that handles it.           *)
BusStep == \/ \E p \in Procs : MonitorStep(p)
           \/ \E m \in Messages : LockExpires(m)

LEMMA MessageStep ==
  ASSUME TypeOK, Deliverable, BusStep, NEW m \in Messages
  PROVE  /\ msg'[m] \in [at : {"ready", "locked", "completed", "dead"},
                         by : Procs \cup {Nobody}, deliveries : 0..MaxDeliveries]
         /\ msg'[m].by # Nobody => msg'[m].at = "locked"
         /\ msg'[m].at = "ready" => msg'[m].deliveries < MaxDeliveries
<1> DEFINE Record == [at : {"ready", "locked", "completed", "dead"},
                      by : Procs \cup {Nobody}, deliveries : 0..MaxDeliveries]
<1>0. MaxDeliveries \in Nat
  BY MonitorAssumption
<1>1. /\ msg \in [Messages -> Record] /\ msg[m] \in Record
      /\ msg[m].by # Nobody => msg[m].at = "locked"
      /\ msg[m].at = "ready" => msg[m].deliveries < MaxDeliveries
  BY DEF TypeOK, Deliverable
<1>2. ASSUME msg' = msg PROVE msg'[m] = msg[m]
  BY <1>2
<1>3. ASSUME NEW p \in Procs, LetsGo(p)
      PROVE  msg'[m] \in {msg[m], [msg[m] EXCEPT !.by = Nobody]}
  BY <1>1, <1>3 DEF LetsGo
<1>4. ASSUME NEW p \in Procs \cup {Nobody}, NEW n \in Messages, Received(p, n), msg[n].at = "ready"
      PROVE  \/ msg'[m] = msg[m]
             \/ /\ msg[m].at = "ready"
                /\ msg'[m] = [at |-> "locked", by |-> p, deliveries |-> msg[m].deliveries + 1]
  BY <1>1, <1>4 DEF Received
<1>5. ASSUME NEW p \in Procs, NEW n \in Messages, Completes(p, n)
      PROVE  msg'[m] \in {msg[m], [msg[m] EXCEPT !.at = "completed", !.by = Nobody]}
  BY <1>1, <1>5 DEF Completes
<1>6. ASSUME NEW n \in Messages, LockExpires(n)
      PROVE  \/ msg'[m] = msg[m]
             \/ /\ msg[m].deliveries < MaxDeliveries
                /\ msg'[m] = [msg[m] EXCEPT !.at = "ready", !.by = Nobody]
             \/ msg'[m] = [msg[m] EXCEPT !.at = "dead", !.by = Nobody]
  BY <1>1, <1>6 DEF LockExpires
<1> DEFINE Kept == /\ msg'[m] \in Record
                   /\ msg'[m].by # Nobody => msg'[m].at = "locked"
                   /\ msg'[m].at = "ready" => msg'[m].deliveries < MaxDeliveries
<1>7. ASSUME msg'[m] \in {msg[m], [msg[m] EXCEPT !.by = Nobody],
                          [msg[m] EXCEPT !.at = "completed", !.by = Nobody],
                          [msg[m] EXCEPT !.at = "dead", !.by = Nobody]}
      PROVE  Kept
  BY <1>1, <1>7
<1>8. ASSUME NEW p \in Procs \cup {Nobody}, msg[m].at = "ready",
             msg'[m] = [at |-> "locked", by |-> p, deliveries |-> msg[m].deliveries + 1]
      PROVE  Kept
  BY <1>0, <1>1, <1>8
<1>9. ASSUME msg[m].deliveries < MaxDeliveries,
             msg'[m] = [msg[m] EXCEPT !.at = "ready", !.by = Nobody]
      PROVE  Kept
  BY <1>1, <1>9
<1>10. CASE \E n \in Messages : LockExpires(n)
  BY <1>6, <1>7, <1>9, <1>10
<1>11. ASSUME NEW p \in Procs, MonitorStep(p) PROVE Kept
  <2>1. CASE Connects(p) \/ GlobDone(p) \/ \E i \in Ids : SendSignal(p, i)
    BY <2>1, <1>2, <1>7 DEF Connects, GlobDone, SendSignal
  <2>2. CASE CompleteFails(p) \/ \E i \in Ids : FileVanished(p, i)
    BY <2>2, <1>3, <1>7 DEF CompleteFails, FileVanished
  <2>3. CASE \E n \in Messages : Receives(p, n) \/ ReceivesMalformed(p, n)
    BY <2>3, <1>4, <1>7, <1>8 DEF Receives, ReceivesMalformed
  <2>4. CASE \E n \in Messages : Completes(p, n)
    BY <2>4, <1>5, <1>7
  <2> QED BY <1>11, <2>1, <2>2, <2>3, <2>4 DEF MonitorStep
<1> QED BY <1>10, <1>11 DEF BusStep

(* A monitor's step is about itself; it signals processes at work only.     *)
Stages == {"off", "connect", "listen", "signal", "complete", "done", "failed"}

MonitorEffect(p) ==
  /\ \E s \in Stages : mon' = [mon EXCEPT ![p] = s]
  /\ \E t \in SUBSET Ids : todo' = [todo EXCEPT ![p] = t]
  /\ mon[p] # "off"
  /\ todo'[p] # {} => mon'[p] = "signal"
  /\ told \subseteq told' /\ told' \subseteq told \cup AtWork
  /\ seen' = seen \/ \E m \in Messages : seen' = [seen EXCEPT ![m] = Colleagues(p)]
  /\ malformed' = malformed /\ faults' \in 0..MaxFaults

LEMMA MonitorStepEffect ==
  ASSUME TypeOK, NEW p \in Procs, MonitorStep(p)
  PROVE  MonitorEffect(p)
<1>1. /\ mon \in [Procs -> Stages] /\ todo \in [Procs -> SUBSET Ids] /\ MaxFaults \in Nat
      /\ faults \in 0..MaxFaults /\ (todo[p] # {} => mon[p] = "signal")
  BY MonitorAssumption DEF TypeOK, Stages
<1>2. mon = [mon EXCEPT ![p] = mon[p]] /\ todo = [todo EXCEPT ![p] = todo[p]]
      /\ mon[p] \in Stages /\ todo[p] \in SUBSET Ids
  BY <1>1
<1>3. CASE Connects(p)
  BY <1>1, <1>2, <1>3 DEF Connects, Monitor, MonitorEffect, Stages
<1>4. CASE GlobDone(p) \/ CompleteFails(p) \/ \E m \in Messages : Completes(p, m)
  BY <1>1, <1>2, <1>4 DEF GlobDone, CompleteFails, Completes, Monitor, MonitorEffect, Stages
<1>5. CASE \E i \in Ids : FileVanished(p, i)
  BY <1>1, <1>2, <1>5 DEF FileVanished, Monitor, MonitorEffect, Stages
<1>6. ASSUME NEW i \in Ids, SendSignal(p, i) PROVE MonitorEffect(p)
  BY <1>1, <1>2, <1>6 DEF SendSignal, MonitorEffect
<1>7. ASSUME NEW m \in Messages, ReceivesMalformed(p, m) PROVE MonitorEffect(p)
  BY <1>1, <1>2, <1>7 DEF ReceivesMalformed, MonitorEffect
<1>8. ASSUME NEW m \in Messages, Receives(p, m) PROVE MonitorEffect(p)
  <2>1. {i \in Ids : file[i] # NoFile /\ NodeOf[i] = NodeOf[idOf[p]]} \in SUBSET Ids
    OBVIOUS
  <2> QED BY <1>1, <1>8, <2>1 DEF Receives, Monitor, MonitorEffect, Stages
<1> QED BY <1>3, <1>4, <1>5, <1>6, <1>7, <1>8 DEF MonitorStep

LEMMA TypeStep == ASSUME TypeOK, Deliverable, Next PROVE TypeOK' /\ Deliverable'
<1>1. ASSUME UNCHANGED vars PROVE TypeOK' /\ Deliverable'
  BY <1>1 DEF vars, pids, bus, TypeOK, Deliverable
<1>2. ASSUME NEW p \in Procs, PidStep(p) PROVE TypeOK' /\ Deliverable'
  <2>1. idOf[p] \in Ids
    BY MonitorAssumption DEF TypeOK
  <2>2. /\ proc' \in [Procs -> {"off", "working", "closing", "gone", "reused"} \cup Entering]
        /\ mon' \in [Procs -> Stages] /\ todo' \in [Procs -> SUBSET Ids] /\ told' \subseteq Procs
    <3>1. /\ proc'[p] \in {"off", "working", "closing", "gone", "reused"} \cup Entering
          /\ proc' = [proc EXCEPT ![p] = proc'[p]]
      BY <1>2 DEF PidStep, LockStep, EndStep, Open, CheckPid, RemoveStale, Reopen, WritePid, Leaves,
                  MonitorCancelled, Crashes, PidReused, Entering, TypeOK
    <3>2. proc' \in [Procs -> {"off", "working", "closing", "gone", "reused"} \cup Entering]
      BY <3>1 DEF TypeOK
    <3>3. mon' \in [Procs -> Stages]
      BY <1>2, PidStepEffect DEF TypeOK, Stages
    <3>4. todo' \in [Procs -> SUBSET Ids] /\ told' \subseteq Procs
      BY <1>2, PidStepEffect DEF TypeOK
    <3> QED BY <3>2, <3>3, <3>4
  <2>3. file' \in [Ids -> [by : Procs \cup {Nobody}, written : BOOLEAN]]
    <3>1. \/ file' = file
          \/ \E b \in Procs \cup {Nobody}, w \in BOOLEAN :
               file' = [file EXCEPT ![idOf[p]] = [by |-> b, written |-> w]]
      BY <1>2 DEF PidStep, LockStep, EndStep, Open, CheckPid, RemoveStale, Reopen, WritePid, Leaves,
                  MonitorCancelled, Crashes, PidReused, NoFile
    <3>2. ASSUME NEW b \in Procs \cup {Nobody}, NEW w \in BOOLEAN,
                 file' = [file EXCEPT ![idOf[p]] = [by |-> b, written |-> w]]
          PROVE  file' \in [Ids -> [by : Procs \cup {Nobody}, written : BOOLEAN]]
      <4> DEFINE r == [by |-> b, written |-> w]
      <4>1. r \in [by : Procs \cup {Nobody}, written : BOOLEAN]
        OBVIOUS
      <4>2. file' = [file EXCEPT ![idOf[p]] = r]
        BY <3>2
      <4> HIDE DEF r
      <4> QED BY <2>1, <4>1, <4>2 DEF TypeOK
    <3> QED BY <3>1, <3>2 DEF TypeOK
  <2>4. raced' \subseteq Ids /\ faults' \in 0..MaxFaults
    BY <1>2, <2>1, MonitorAssumption
       DEF PidStep, LockStep, EndStep, Open, CheckPid, RemoveStale, Reopen, WritePid, Leaves,
           MonitorCancelled, Crashes, PidReused, TypeOK
  <2>5. ASSUME NEW q \in Procs
        PROVE  /\ mon'[q] # "off" => proc'[q] \in {"working", "closing"}
               /\ todo'[q] # {} => mon'[q] = "signal"
    <3>1. CASE q # p
      BY <1>2, <3>1, PidStepEffect DEF TypeOK
    <3>2. CASE q = p
      BY <1>2, <3>2 DEF PidStep, LockStep, EndStep, Open, CheckPid, RemoveStale, Reopen, WritePid,
                        Leaves, MonitorCancelled, Crashes, PidReused, Entering, Free, bus, TypeOK
    <3> QED BY <3>1, <3>2
  <2> QED BY <1>2, <2>2, <2>3, <2>4, <2>5, PidStepEffect DEF TypeOK, Deliverable, Stages
<1>3. ASSUME BusStep PROVE TypeOK' /\ Deliverable'
  <2>1. UNCHANGED pids
    BY <1>3, BusLeavesPids DEF BusStep
  <2> DEFINE Typed ==
        /\ mon' \in [Procs -> Stages] /\ todo' \in [Procs -> SUBSET Ids] /\ told' \subseteq Procs
        /\ malformed' = malformed /\ faults' \in 0..MaxFaults
        /\ seen' \in [Messages -> SUBSET Procs]
        /\ \A q \in Procs : mon'[q] # "off" => mon[q] # "off"
        /\ \A q \in Procs : todo'[q] # {} => mon'[q] = "signal"
  <2>2. Typed
    <3>1. ASSUME NEW p \in Procs, MonitorEffect(p) PROVE Typed
      <4>1. PICK s \in Stages : mon' = [mon EXCEPT ![p] = s]
        BY <3>1 DEF MonitorEffect
      <4>2. PICK t \in SUBSET Ids : todo' = [todo EXCEPT ![p] = t]
        BY <3>1 DEF MonitorEffect
      <4>3. Colleagues(p) \in SUBSET Procs /\ AtWork \in SUBSET Procs
        BY DEF Colleagues, AtWork
      <4>4. seen' \in [Messages -> SUBSET Procs] /\ told' \subseteq Procs
        BY <3>1, <4>3 DEF MonitorEffect, TypeOK
      <4> QED BY <3>1, <4>1, <4>2, <4>4 DEF MonitorEffect, TypeOK, Stages
    <3>2. ASSUME NEW m \in Messages, LockExpires(m) PROVE Typed
      BY <3>2 DEF LockExpires, TypeOK, Stages
    <3> QED BY <1>3, <3>1, <3>2, MonitorStepEffect DEF BusStep
  <2>5. msg' = [m \in Messages |-> msg'[m]]
    BY <1>3 DEF BusStep, MonitorStep, Connects, GlobDone, CompleteFails, Receives,
                ReceivesMalformed, Completes, FileVanished, SendSignal, LockExpires, LetsGo,
                Received, TypeOK
  <2>6. /\ msg' \in [Messages -> [at : {"ready", "locked", "completed", "dead"},
                                  by : Procs \cup {Nobody}, deliveries : 0..MaxDeliveries]]
        /\ \A m \in Messages : msg'[m].by # Nobody => msg'[m].at = "locked"
        /\ Deliverable'
    BY <1>3, <2>5, MessageStep DEF Deliverable
  <2> QED BY <2>1, <2>2, <2>6 DEF TypeOK, pids, Stages
<1> QED BY <1>1, <1>2, <1>3, StepKinds DEF BusStep

------------------------------------------------------------------------------
(* The messages *)

LEMMA SeenStep == ASSUME TypeOK, Seen, Next PROVE Seen'
<1>1. ASSUME NEW p \in Procs, PidStep(p), NEW m \in Messages, NEW q \in seen'[m]
      PROVE  proc'[q] \in {"working", "closing", "gone", "reused"}
  <2>1. q \in seen[m] /\ q \in Procs /\ proc[q] \in {"working", "closing", "gone", "reused"}
    BY <1>1, PidStepEffect DEF Seen, TypeOK
  <2>2. CASE q = p
    BY <1>1, <2>1, <2>2, PidStepEffect
  <2>3. CASE q # p
    BY <1>1, <2>1, <2>3, PidStepEffect DEF TypeOK
  <2> QED BY <2>2, <2>3
<1>2. ASSUME NEW p \in Procs, MonitorStep(p), NEW m \in Messages
      PROVE  \A q \in seen'[m] : proc'[q] \in {"working", "closing", "gone", "reused"}
  <2>1. proc' = proc
    BY <1>2, BusLeavesPids DEF pids
  <2>2. seen'[m] = seen[m] \/ seen'[m] = Colleagues(p)
    BY <1>2, MonitorStepEffect DEF MonitorEffect, TypeOK
  <2> QED BY <2>1, <2>2 DEF Seen, Colleagues, AtWork
<1>3. ASSUME NEW n \in Messages, LockExpires(n) PROVE Seen'
  BY <1>3 DEF LockExpires, Seen, TypeOK, pids
<1>4. ASSUME UNCHANGED vars PROVE Seen'
  BY <1>4 DEF vars, pids, bus, Seen
<1> QED BY <1>1, <1>2, <1>3, <1>4, StepKinds DEF Seen

(* A debt does not come from a step with the pid files: who is seen has     *)
(* started already, and only who is at work is owed.                        *)
LEMMA DebtsStay ==
  ASSUME TypeOK, Seen, NEW p \in Procs, PidStep(p), NEW m \in Messages, NEW q \in Procs,
         Owed(m, q)'
  PROVE  Owed(m, q) /\ (q \in told => q \in told') /\ q # p
<1>1. q \in seen[m] /\ idOf[q] \notin raced /\ proc'[q] = "working"
  BY PidStepEffect DEF Owed
<1>2. q # p
  BY <1>1, PidStepEffect DEF Seen
<1>3. proc'[q] = proc[q]
  BY <1>2, PidStepEffect DEF TypeOK
<1>4. told' \in {told, told \ {p}}
  BY PidStepEffect
<1> QED BY <1>1, <1>2, <1>3, <1>4 DEF Owed

(* Who is owed has a file that names it.                                    *)
LEMMA OwedHasFile ==
  ASSUME FileLock, NEW m \in Messages, NEW q \in Procs, Owed(m, q)
  PROVE  file[idOf[q]] = [by |-> q, written |-> TRUE]
BY DEF FileLock, OwnFile, Owed

LEMMA NobodyHasNoFile == ASSUME NEW q \in Procs PROVE [by |-> q, written |-> TRUE] # NoFile
BY DEF NoFile

LEMMA HeldStep == ASSUME TypeOK, FileLock, Seen, Held, Next PROVE Held'
<1> DEFINE HeldBy(m, p, q) ==
      /\ q \in seen[m] => NodeOf[idOf[q]] = NodeOf[idOf[p]]
      /\ mon[p] = "signal" /\ Owed(m, q) => q \in told \/ idOf[q] \in todo[p]
      /\ mon[p] = "complete" /\ Owed(m, q) => q \in told
<1>0. ASSUME UNCHANGED vars PROVE Held'
  BY <1>0 DEF vars, pids, bus, Held, Holds, Owed
<1> SUFFICES ASSUME ~UNCHANGED vars, NEW m \in Messages, NEW p \in Procs, Holds(p, m)',
                    NEW q \in Procs
             PROVE  HeldBy(m, p, q)'
  BY <1>0 DEF Held
<1>1. p # Nobody
  BY MonitorAssumption
<1>2. ASSUME NEW r \in Procs, PidStep(r) PROVE HeldBy(m, p, q)'
  <2>1. HeldBy(m, p, q)
    BY <1>2, PidStepEffect DEF Held, Holds
  <2>2. seen'[m] = seen[m] /\ idOf' = idOf
    BY <1>2, PidStepEffect
  <2>3. mon'[p] \in {"signal", "complete"} => mon[p] = mon'[p]
    BY <1>2, PidStepEffect DEF TypeOK
  <2>4. mon'[p] = "signal" => todo'[p] = todo[p]
    BY <1>2, <2>3, PidStepEffect DEF TypeOK
  <2>5. Owed(m, q)' => Owed(m, q) /\ (q \in told => q \in told')
    BY <1>2, DebtsStay
  <2> QED BY <2>1, <2>2, <2>3, <2>4, <2>5
<1>3. ASSUME NEW n \in Messages, LockExpires(n) PROVE HeldBy(m, p, q)'
  <2>1. /\ UNCHANGED <<idOf, proc, raced, mon, todo, told>> /\ m # n
    BY <1>1, <1>3 DEF LockExpires, pids, Holds, TypeOK
  <2>2. msg'[m] = msg[m] /\ seen'[m] = seen[m]
    BY <1>3, <2>1 DEF LockExpires, TypeOK
  <2>3. HeldBy(m, p, q)
    BY <2>2 DEF Held, Holds
  <2> QED BY <2>1, <2>2, <2>3 DEF Owed
<1>4. ASSUME NEW r \in Procs, MonitorStep(r), seen'[m] = seen[m], Holds(p, m), p # r
      PROVE  HeldBy(m, p, q)'
  <2>1. HeldBy(m, p, q)
    BY <1>4 DEF Held
  <2>2. UNCHANGED <<idOf, proc, raced>>
    BY <1>4, BusLeavesPids DEF pids
  <2>3. mon'[p] = mon[p] /\ todo'[p] = todo[p] /\ told \subseteq told'
    BY <1>4, MonitorStepEffect DEF MonitorEffect, TypeOK
  <2> QED BY <1>4, <2>1, <2>2, <2>3 DEF Owed
<1>5. ASSUME NEW r \in Procs, NEW n \in Messages, Receives(r, n) PROVE HeldBy(m, p, q)'
  <2>1. UNCHANGED <<idOf, proc, raced, file, told>> /\ MonitorStep(r)
    BY <1>5 DEF Receives, Monitor, pids, MonitorStep
  <2>2. /\ mon'[r] = "signal"
        /\ todo'[r] = {i \in Ids : file[i] # NoFile /\ NodeOf[i] = NodeOf[idOf[r]]}
    BY <1>5 DEF Receives, Monitor, TypeOK
  <2>3. m = n => p = r /\ seen'[m] = Colleagues(r)
    BY <1>5 DEF Receives, Received, Holds, TypeOK
  <2>4. m # n => Holds(p, m) /\ seen'[m] = seen[m]
    BY <1>5 DEF Receives, Received, Holds, TypeOK
  <2>5. q \in seen'[m] => NodeOf[idOf[q]] = NodeOf[idOf[p]]
    BY <2>3, <2>4 DEF Held, Colleagues
  <2>6. CASE p # r
    BY <1>4, <2>1, <2>3, <2>4, <2>6
  <2>7. ASSUME p = r, Owed(m, q)' PROVE idOf[q] \in todo'[p]
    <3>1. q \in seen'[m] /\ proc[q] = "working" /\ idOf[q] \notin raced /\ idOf[q] \in Ids
      BY <2>1, <2>7, MonitorAssumption DEF Owed, TypeOK
    <3>2. file[idOf[q]] # NoFile
      BY <3>1, NobodyHasNoFile DEF FileLock, OwnFile
    <3> QED BY <2>2, <2>5, <2>7, <3>1, <3>2
  <2> QED BY <2>1, <2>2, <2>5, <2>6, <2>7
<1>6. ASSUME NEW r \in Procs, NEW n \in Messages, ReceivesMalformed(r, n) PROVE HeldBy(m, p, q)'
  <2>1. UNCHANGED <<idOf, proc, raced, mon, todo, told, seen>>
    BY <1>6 DEF ReceivesMalformed, pids
  <2>2. m # n /\ msg'[m] = msg[m]
    BY <1>1, <1>6 DEF ReceivesMalformed, Received, Holds, TypeOK
  <2>3. HeldBy(m, p, q)
    BY <2>2 DEF Held, Holds
  <2> QED BY <2>1, <2>3 DEF Owed
<1>7. ASSUME NEW r \in Procs, NEW i \in Ids, SendSignal(r, i) PROVE HeldBy(m, p, q)'
  <2>1. UNCHANGED <<idOf, proc, raced, file, mon, msg, seen>> /\ MonitorStep(r)
    BY <1>7 DEF SendSignal, pids, MonitorStep
  <2>2. Holds(p, m) /\ HeldBy(m, p, q) /\ seen'[m] = seen[m]
    BY <2>1 DEF Held, Holds
  <2>3. CASE p # r
    BY <1>4, <2>1, <2>2, <2>3
  <2>4. ASSUME p = r, Owed(m, q)' PROVE q \in told' \/ idOf[q] \in todo'[p]
    <3>1. Owed(m, q) /\ mon[p] = "signal"
      BY <1>7, <2>1, <2>4 DEF Owed, SendSignal
    <3>2. todo'[p] = todo[p] \ {i} /\ told \subseteq told'
      BY <1>7, <2>4 DEF SendSignal, TypeOK
    <3>3. ASSUME idOf[q] = i PROVE q \in told'
      <4>1. file[i] = [by |-> q, written |-> TRUE]
        BY <3>1, <3>3, OwedHasFile
      <4>2. file[i].by = q /\ file[i].written
        BY <4>1
      <4>3. InUse(file[i]) /\ q \in AtWork
        BY <3>1, <4>2 DEF InUse, Alive, Owed, AtWork
      <4> QED BY <1>7, <4>2, <4>3 DEF SendSignal
    <3> QED BY <2>2, <3>1, <3>2, <3>3
  <2>5. p = r => mon[p] = "signal"
    BY <1>7 DEF SendSignal
  <2> QED BY <2>1, <2>2, <2>3, <2>4, <2>5
<1>8. ASSUME NEW r \in Procs, GlobDone(r) \/ Connects(r) PROVE HeldBy(m, p, q)'
  <2>1. UNCHANGED <<idOf, proc, raced, msg, seen, told>> /\ MonitorStep(r)
    BY <1>8 DEF GlobDone, Connects, Monitor, pids, MonitorStep
  <2>2. Holds(p, m) /\ HeldBy(m, p, q) /\ seen'[m] = seen[m]
    BY <2>1 DEF Held, Holds
  <2>3. CASE p # r
    BY <1>4, <2>1, <2>2, <2>3
  <2>4. CASE p = r /\ Connects(r)
    <3>1. mon'[p] \in {"listen", "failed"}
      BY <2>4 DEF Connects, Monitor, TypeOK
    <3> QED BY <2>1, <2>2, <3>1
  <2>5. CASE p = r /\ GlobDone(r)
    <3>1. mon'[p] = "complete" /\ mon[p] = "signal" /\ todo[p] = {}
      BY <2>5 DEF GlobDone, Monitor, TypeOK
    <3> QED BY <2>1, <2>2, <3>1 DEF Owed
  <2> QED BY <1>8, <2>3, <2>4, <2>5
<1>9. ASSUME NEW r \in Procs, CompleteFails(r) \/ \E i \in Ids : FileVanished(r, i)
      PROVE  HeldBy(m, p, q)'
  <2>1. seen' = seen /\ LetsGo(r) /\ MonitorStep(r)
    BY <1>9 DEF CompleteFails, FileVanished, MonitorStep
  <2>2. p # r /\ Holds(p, m)
    BY <1>1, <2>1 DEF LetsGo, Holds, TypeOK
  <2> QED BY <1>4, <2>1, <2>2
<1>10. ASSUME NEW r \in Procs, NEW n \in Messages, Completes(r, n) PROVE HeldBy(m, p, q)'
  <2>1. /\ UNCHANGED <<idOf, proc, raced, seen, told>> /\ MonitorStep(r)
        /\ mon'[r] \in {"done", "listen"}
    BY <1>10 DEF Completes, Monitor, pids, MonitorStep, TypeOK
  <2>2. m # n /\ Holds(p, m)
    BY <1>1, <1>10 DEF Completes, Holds, TypeOK
  <2>3. HeldBy(m, p, q)
    BY <2>2 DEF Held
  <2>4. CASE p # r
    BY <1>4, <2>1, <2>2, <2>4
  <2>5. CASE p = r
    BY <2>1, <2>3, <2>5
  <2> QED BY <2>4, <2>5
<1> QED BY <1>2, <1>3, <1>5, <1>6, <1>7, <1>8, <1>9, <1>10, StepKinds DEF MonitorStep

LEMMA CompletedStep ==
  ASSUME TypeOK, Deliverable, Seen, Held, CompletedMeansTold, Next
  PROVE  CompletedMeansTold'
<1>0. ASSUME UNCHANGED vars PROVE CompletedMeansTold'
  BY <1>0 DEF vars, pids, bus, CompletedMeansTold
<1> SUFFICES ASSUME ~UNCHANGED vars, NEW m \in Messages, msg'[m].at = "completed",
                    NEW q \in Procs, Owed(m, q)'
             PROVE  q \in told'
  <2>1. seen' \in [Messages -> SUBSET Procs]
    BY TypeStep DEF TypeOK
  <2> QED BY <1>0, <2>1 DEF CompletedMeansTold, Owed
<1>1. ASSUME msg[m].at = "completed", Owed(m, q) PROVE q \in told
  BY <1>1 DEF CompletedMeansTold, Owed
<1>2. ASSUME NEW p \in Procs, PidStep(p) PROVE q \in told'
  <2>1. Owed(m, q) /\ (q \in told => q \in told') /\ msg' = msg
    BY <1>2, DebtsStay, PidStepEffect
  <2> QED BY <1>1, <2>1
<1>3. ASSUME NEW n \in Messages, LockExpires(n) PROVE q \in told'
  <2>1. m # n /\ UNCHANGED <<idOf, proc, raced, told>>
    BY <1>3 DEF LockExpires, pids, TypeOK
  <2>2. msg'[m] = msg[m] /\ seen'[m] = seen[m]
    BY <1>3, <2>1 DEF LockExpires, TypeOK
  <2> QED BY <1>1, <2>1, <2>2 DEF Owed
<1>4. ASSUME NEW p \in Procs, MonitorStep(p), seen'[m] = seen[m], msg[m].at = "completed"
      PROVE  q \in told'
  <2>1. UNCHANGED <<idOf, proc, raced>> /\ told \subseteq told'
    BY <1>4, BusLeavesPids, MonitorStepEffect DEF pids, MonitorEffect
  <2> QED BY <1>1, <1>4, <2>1 DEF Owed
<1>5. ASSUME NEW p \in Procs, NEW n \in Messages, Completes(p, n) PROVE q \in told'
  <2>1. UNCHANGED <<idOf, proc, raced, seen, told>> /\ MonitorStep(p)
    BY <1>5 DEF Completes, Monitor, pids, MonitorStep
  <2>2. CASE m = n
    <3>1. Holds(p, m) /\ mon[p] = "complete" /\ Owed(m, q)
      BY <1>5, <2>1, <2>2 DEF Completes, Owed
    <3> QED BY <2>1, <3>1 DEF Held
  <2>3. CASE m # n
    <3>1. msg'[m] = msg[m]
      BY <1>5, <2>3 DEF Completes, TypeOK
    <3> QED BY <1>4, <2>1, <3>1
  <2> QED BY <2>2, <2>3
<1>6. ASSUME NEW p \in Procs, NEW n \in Messages, Receives(p, n) \/ ReceivesMalformed(p, n)
      PROVE  q \in told'
  <2>1. m # n /\ msg'[m] = msg[m]
    BY <1>6 DEF Receives, ReceivesMalformed, Received, TypeOK
  <2>2. seen'[m] = seen[m] /\ MonitorStep(p)
    BY <1>6, <2>1 DEF Receives, ReceivesMalformed, MonitorStep, TypeOK
  <2> QED BY <1>4, <2>1, <2>2
<1>7. ASSUME NEW p \in Procs, CompleteFails(p) \/ \E i \in Ids : FileVanished(p, i)
      PROVE  q \in told'
  <2>1. LetsGo(p) /\ seen' = seen /\ MonitorStep(p)
    BY <1>7 DEF CompleteFails, FileVanished, MonitorStep
  <2>2. msg'[m].at = msg[m].at
    BY <2>1 DEF LetsGo, TypeOK
  <2> QED BY <1>4, <2>1, <2>2
<1>8. ASSUME NEW p \in Procs, Connects(p) \/ GlobDone(p) \/ \E i \in Ids : SendSignal(p, i)
      PROVE  q \in told'
  <2>1. msg' = msg /\ seen' = seen /\ MonitorStep(p)
    BY <1>8 DEF Connects, GlobDone, SendSignal, MonitorStep
  <2> QED BY <1>4, <2>1
<1> QED BY <1>2, <1>3, <1>5, <1>6, <1>7, <1>8, StepKinds DEF MonitorStep

------------------------------------------------------------------------------
(* The theorems *)

LEMMA InitIInv == Init => IInv
<1> SUFFICES ASSUME Init PROVE IInv
  OBVIOUS
<1>1. Nobody \notin Procs /\ MaxDeliveries \in Nat \ {0} /\ MaxFaults \in Nat
  BY MonitorAssumption
<1>2. TypeOK /\ Deliverable
  BY <1>1 DEF Init, TypeOK, Deliverable, NoFile, Entering
<1>3. FileLock /\ Seen
  BY DEF Init, FileLock, OwnFile, Apart, Entering, Seen
<1>4. Held /\ CompletedMeansTold
  BY <1>1 DEF Init, Held, Holds, CompletedMeansTold
<1> QED BY <1>2, <1>3, <1>4 DEF IInv

(* All of it holds always.                                                  *)
THEOREM Invariance == Spec => []IInv
<1>1. IInv /\ Next => IInv'
  BY TypeStep, FileLockStep, SeenStep, HeldStep, CompletedStep DEF IInv
<1>2. IInv /\ UNCHANGED vars => IInv'
  BY DEF vars, pids, bus, IInv, TypeOK, Deliverable, FileLock, OwnFile, Apart, Seen, Held, Holds,
         Owed, CompletedMeansTold
<1>3. IInv /\ [Next]_vars => IInv'
  BY <1>1, <1>2
<1> QED BY InitIInv, <1>3, PTL DEF Spec

(* The types: a monitor runs only in a process that has started, and a      *)
(* message belongs to a process only while it is locked.                    *)
THEOREM TypeCorrectness == Spec => []TypeOK
<1>1. IInv => TypeOK
  BY DEF IInv
<1> QED BY Invariance, <1>1, PTL

(* Two processes with the same worker id are at work at once only if they   *)
(* were once creating the file at the same time: crashes, stale files and   *)
(* files removed by others do not undo the lock.                            *)
THEOREM LockIsExclusive == Spec => []Exclusive
<1>1. IInv => Exclusive
  <2> SUFFICES ASSUME IInv, NEW p \in Procs, NEW q \in Procs, p # q, idOf[p] = idOf[q],
                      proc[p] = "working", proc[q] = "working", idOf[p] \notin raced
               PROVE  FALSE
    BY DEF Exclusive
  <2>1. OwnFile(p) /\ OwnFile(q)
    BY DEF IInv, FileLock
  <2> QED BY <2>1 DEF OwnFile
<1> QED BY Invariance, <1>1, PTL

(* A completed message has reached every process that was at work on the    *)
(* node of its receiver, however many processes, files and deliveries.      *)
THEOREM CompletedHasReachedTheNode == Spec => []CompletedMeansTold
<1>1. IInv => CompletedMeansTold
  BY DEF IInv
<1> QED BY Invariance, <1>1, PTL
==============================================================================
