------------------------- MODULE MCBackgroundDirSync -------------------------
(* Two files, one of them on the destination before the start.              *)
EXTENDS BackgroundDirSync
==============================================================================
