---------------------------- MODULE MCBatchEnqueue ----------------------------
(***************************************************************************)
(* Two seeds with two tasks and one task, two workers of each kind, and     *)
(* queues that hold one item.                                               *)
(***************************************************************************)
EXTENDS BatchEnqueue

CONSTANTS s1, s2, t1, t2, t3

MCListedBy == [t \in {t1, t2, t3} |-> IF t = t3 THEN s2 ELSE s1]
==============================================================================
