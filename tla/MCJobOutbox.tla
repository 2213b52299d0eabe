----------------------------- MODULE MCJobOutbox ----------------------------
(* Instances of JobOutbox for TLC. *)
EXTENDS JobOutbox, TLC

CONSTANTS j1, j2, p1, p2, t1, t2, s1, s2

\* j1 is urgent, j2 is not; every process serves both queues.
MCPriority == [j \in Jobs |-> IF j = j1 THEN 1 ELSE 0]
MCServes == [p \in Procs |-> Jobs]
=============================================================================
