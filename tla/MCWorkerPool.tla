---------------------------- MODULE MCWorkerPool ----------------------------
(***************************************************************************)
(* Two workers, with no symmetry between them, as liveness is checked.      *)
(***************************************************************************)
EXTENDS WorkerPool
==============================================================================
