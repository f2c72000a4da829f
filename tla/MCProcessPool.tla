---------------------------- MODULE MCProcessPool ----------------------------
(***************************************************************************)
(* Two workers that share a pool, under either processor.                   *)
(***************************************************************************)
EXTENDS ProcessPool

CONSTANTS w1, w2   \* the workers

MCKinds == {"shell", "callback"}
==============================================================================
