----------------------------- MODULE MCJobQueue -----------------------------
(* Instances of JobQueue for TLC. *)
EXTENDS JobQueue, TLC

CONSTANTS j1, j2, p1, p2, t1, t2

\* j1 is urgent, j2 is not; every process serves both queues.
MCPriority == [j \in Jobs |-> IF j = j1 THEN 1 ELSE 0]
MCServes == [p \in Procs |-> Jobs]

\* Processes differ in nothing, and so do the threads of a process.
MCSymmetry == Permutations(Procs) \cup Permutations(Threads)
=============================================================================
