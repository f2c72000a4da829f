------------------------------ MODULE TaskLedger ------------------------------
(***************************************************************************)
(* What JobQ promises of the tasks pushed to a queue, whoever runs them: a  *)
(* task stays queued until one execution of it has succeeded or its retries *)
(* are used up and it is dead-lettered (or somebody clears the queue); a    *)
(* failure consumes exactly one retry; nothing gives retries back.  A task  *)
(* may be executed, and may succeed, more than once.                        *)
(***************************************************************************)
EXTENDS Integers

CONSTANTS Messages, MaxRetries

VARIABLES
  status,   \* "new", "queued" or "removed"
  budget,   \* the retries left
  done,     \* the tasks that have been executed successfully
  dead,     \* the tasks in the dead-letter queue
  cleared   \* the tasks removed unprocessed by clear()

ledger == <<status, budget, done, dead, cleared>>

Init ==
  /\ status = [m \in Messages |-> "new"]
  /\ budget = [m \in Messages |-> 0]
  /\ done = {} /\ dead = {} /\ cleared = {}

Push(m) ==
  /\ status[m] = "new"
  /\ status' = [status EXCEPT ![m] = "queued"]
  /\ \E n \in 0..MaxRetries : budget' = [budget EXCEPT ![m] = n]
  /\ UNCHANGED <<done, dead, cleared>>

Succeed(m) ==
  /\ status[m] # "new"
  /\ done' = done \cup {m}
  /\ UNCHANGED <<status, budget, dead, cleared>>

Retry(m) ==
  /\ status[m] = "queued" /\ budget[m] > 0
  /\ budget' = [budget EXCEPT ![m] = @ - 1]
  /\ UNCHANGED <<status, done, dead, cleared>>

DeadLetter(m) ==
  /\ status[m] # "new" /\ budget[m] = 0
  /\ dead' = dead \cup {m}
  /\ UNCHANGED <<status, budget, done, cleared>>

Remove(m) ==
  /\ status[m] = "queued" /\ m \in done \cup dead
  /\ status' = [status EXCEPT ![m] = "removed"]
  /\ UNCHANGED <<budget, done, dead, cleared>>

Clear ==
  /\ cleared' = cleared \cup {m \in Messages : status[m] = "queued"}
  /\ status' = [m \in Messages |-> IF status[m] = "queued" THEN "removed" ELSE status[m]]
  /\ UNCHANGED <<budget, done, dead>>

Next ==
  \/ \E m \in Messages : Push(m) \/ Succeed(m) \/ Retry(m) \/ DeadLetter(m) \/ Remove(m)
  \/ Clear

Spec == Init /\ [][Next]_ledger
==============================================================================
