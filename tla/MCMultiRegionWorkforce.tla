------------------------ MODULE MCMultiRegionWorkforce ------------------------
(* Constants of the TLC runs of MultiRegionWorkforce.                       *)
EXTENDS MultiRegionWorkforce

MCNodes == <<1, 2>>
MCJobs == <<1, 2>>
MCOneRegion == <<2>>
MCStages == <<"Queued", "Running">>
MCThreeStages == <<"Queued", "Preparing", "Running">>
MCManual == {-1, 1}

(* What a state is remembered by.  Two states are told apart by the locals  *)
(* of run() only where a later step or a property still reads them:         *)
(* lastGood is read by a failing call only, and none is left when all       *)
(* faults are spent; the counts are read until the decision, the distribu-  *)
(* tion until it is carried out, the sizes of a region until it is read     *)
(* again.  Between two commands no property looks at history, but for a     *)
(* scale-to-zero without a failure.                                         *)
Deciding == pc \in {"running", "pending", "queue", "determine"}
Distributing == pc \in {"planLayoff", "capacity", "query", "layoff", "hire"}

FleetView ==
  << job, op, todo, faults, pc, manual, unread, lazy, cached, size, plan,
     IF Deciding THEN <<have, pending>> ELSE <<>>,
     IF Distributing THEN <<total, avail>> ELSE <<>>,
     IF Deciding \/ Distributing \/ pc = "zero"
     THEN [r \in Regions |-> IF Fetching /\ r \in unread THEN NoState ELSE states[r]] ELSE <<>>,
     IF faults < MaxFaults THEN lastGood ELSE <<>>,
     IF Idle THEN <<mode = "zero" /\ ~history.faulty>> ELSE <<mode, history.faulty>>,
     IF history.trusted /\ ~Idle THEN history.ceiling ELSE -1,
     IF history.trusted /\ mode = "auto" /\ (Deciding \/ pc \in {"planLayoff", "layoff"})
     THEN history.slack ELSE <<>> >>
==============================================================================
