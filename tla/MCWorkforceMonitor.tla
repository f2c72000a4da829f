-------------------------- MODULE MCWorkforceMonitor --------------------------
(* Two processes of node n1, with the same or with different worker ids,    *)
(* and one of node n2.                                                      *)
EXTENDS WorkforceMonitor

MCPlacements == {[p \in Procs |-> CASE p = "w" -> "w.pid" [] p = "x" -> i [] p = "y" -> "y.pid"] :
                   i \in {"w.pid", "x.pid"}}
MCNodeOf == [i \in Ids |-> IF i = "y.pid" THEN "n2" ELSE "n1"]
==============================================================================
