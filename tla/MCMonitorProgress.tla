-------------------------- MODULE MCMonitorProgress --------------------------
(***************************************************************************)
(* A chain of eleven blocks, without forks.                                 *)
(***************************************************************************)
EXTENDS MonitorProgress

MCHeader == { [hash |-> n + 1, parent |-> n, number |-> n, diff |-> 0] :
                n \in 0 .. 10 }

MCExpectedDiff(parent, current) == 0
=============================================================================
