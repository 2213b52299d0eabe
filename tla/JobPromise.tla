----------------------------- MODULE JobPromise -----------------------------
(***************************************************************************)
(* What the database job queue promises, without rows, locks, threads or   *)
(* timeouts: a submitted job waits until one process takes it; a process   *)
(* that holds a job settles it (done, failed or deleted) or gives it back  *)
(* (retry, crash); a settled job stays settled.  Nobody takes a job another *)
(* process holds.  The promise for a job lapses when its holder keeps it    *)
(* for longer than the stale timeout: from then on two processes may work  *)
(* on it, and a late one may undo how it ended.                            *)
(***************************************************************************)
CONSTANTS
    Jobs, Procs,
    Nobody      \* stands for no process; not in Procs

VARIABLES
    phase,      \* phase[j]: how far the job is
    holder      \* holder[j]: the process responsible for it, or nobody

vars == <<phase, holder>>

Init ==
    /\ phase = [j \in Jobs |-> "new"]
    /\ holder = [j \in Jobs |-> Nobody]

Submit(j) ==
    /\ phase[j] = "new"
    /\ phase' = [phase EXCEPT ![j] = "waiting"]
    /\ UNCHANGED holder

\* A process takes a batch of waiting jobs, all at once.
Take(p, S) ==
    /\ \A j \in S : phase[j] = "waiting"
    /\ phase' = [j \in Jobs |-> IF j \in S THEN "held" ELSE phase[j]]
    /\ holder' = [j \in Jobs |-> IF j \in S THEN p ELSE holder[j]]

\* A process gives jobs back: one for a later retry, or all of them by dying.
GiveBack(p, S) ==
    /\ \A j \in S : holder[j] = p
    /\ phase' = [j \in Jobs |-> IF j \in S THEN "waiting" ELSE phase[j]]
    /\ holder' = [j \in Jobs |-> IF j \in S THEN Nobody ELSE holder[j]]

\* Only the holder brings a job to its end.
Settle(p, j) ==
    /\ holder[j] = p
    /\ phase' = [phase EXCEPT ![j] = "settled"]
    /\ holder' = [holder EXCEPT ![j] = Nobody]

\* A process keeps a job for too long.
Lapse(j) ==
    /\ phase[j] = "held"
    /\ phase' = [phase EXCEPT ![j] = "lapsed"]
    /\ holder' = [holder EXCEPT ![j] = Nobody]

Next ==
    \/ \E j \in Jobs : Submit(j) \/ Lapse(j)
    \/ \E p \in Procs, S \in SUBSET Jobs : Take(p, S) \/ GiveBack(p, S)
    \/ \E p \in Procs, j \in Jobs : Settle(p, j)

Spec == Init /\ [][Next]_vars
=============================================================================
