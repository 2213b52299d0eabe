--------------------------- MODULE JobQueueSafety ---------------------------
(***************************************************************************)
(* Theorems about JobQueue for every set of jobs, processes and threads.    *)
(* Type correctness holds always.  While rows are locked when they are      *)
(* selected and a sweep ends within a backoff (Prompt), at most one worker  *)
(* is responsible for a job that is not overdue, whatever overdue jobs and  *)
(* their late workers do: the proof of IInv, action by action.  From IInv   *)
(* follow that the queue implements JobPromise, that a deleted job stays    *)
(* deleted and a timely job ended, that orphans come from kills, lost runs  *)
(* and overdue jobs alone and that the attempts column counts executions.   *)
(***************************************************************************)
EXTENDS JobQueue, TLAPS

-----------------------------------------------------------------------------
(* Rows and loaded rows keep their types under every update of the code.    *)

LEMMA Constants ==
  /\ "enqueued" \in Status /\ "running" \in Status /\ "retrying" \in Status
  /\ "failed" \in Status /\ "done" \in Status /\ "absent" \in Status
  /\ Absent \in RowType /\ Absent.status = "absent"
  /\ Idle \in RunType /\ Idle.job = NoJob
BY DEF Status, Absent, RowType, Idle, RunType

\* The single-column updates of a row.
LEMMA RowUpdates ==
  ASSUME NEW r \in RowType, NEW st \in Status, NEW b \in BOOLEAN
  PROVE  /\ [r EXCEPT !.status = st] \in RowType
         /\ [r EXCEPT !.due = b] \in RowType
         /\ [r EXCEPT !.stale = b] \in RowType
         /\ [r EXCEPT !.status = st, !.due = b] \in RowType
         /\ [r EXCEPT !.status = st, !.stale = b] \in RowType
BY DEF RowType

LEMMA BatchTypes ==
  /\ NoPoll \in PollType /\ NoSweep \in SweepType
  /\ \A b \in PollType : [b EXCEPT !.at = "claimed"] \in PollType
  /\ \A S \in SUBSET Jobs : [at |-> "selected", ids |-> S] \in PollType
  /\ \A S, T \in SUBSET Jobs :
       [at |-> "read", failing |-> S, retrying |-> T] \in SweepType
BY DEF NoPoll, NoSweep, PollType, SweepType

\* What a worker writes back is a row again, whatever it had loaded.
LEMMA WrittenType ==
  ASSUME NEW r \in RowType, NEW c \in RunType, NEW st \in Status
  PROVE  Written(r, c, st) \in RowType
<1>1. CASE r.status = "absent"
  BY <1>1 DEF Written
<1>2. CASE r.status # "absent"
  BY <1>2 DEF Written, RowType, RunType
<1> QED
  BY <1>1, <1>2

LEMMA OutcomeType ==
  ASSUME NEW r \in RowType, NEW c \in RunType, NEW e \in BOOLEAN
  PROVE  Failed(r, c, e) \in RowType /\ Succeeded(r, c) \in RowType
BY WrittenType, Constants DEF Failed, Succeeded

-----------------------------------------------------------------------------
(* Type correctness, action by action.                                      *)

LEMMA EnqueueType ==
  ASSUME TypeOK, NEW j \in Jobs, Enqueue(j) PROVE TypeOK'
<1>1. PICK due \in BOOLEAN :
        row' = [row EXCEPT ![j] = [Absent EXCEPT !.status = "enqueued",
                                                 !.due = due]]
  BY DEF Enqueue
<1>2. [Absent EXCEPT !.status = "enqueued", !.due = due] \in RowType
  BY Constants, RowUpdates
<1>3. row' \in [Jobs -> RowType]
  BY <1>1, <1>2 DEF TypeOK
<1> QED
  BY <1>3 DEF TypeOK, Enqueue, proc, counters

LEMMA ElapsesType ==
  ASSUME TypeOK, NEW j \in Jobs, Elapses(j) PROVE TypeOK'
<1>1. row[j] \in RowType
  BY DEF TypeOK
<1>2. /\ [row[j] EXCEPT !.due = TRUE] \in RowType
      /\ [row[j] EXCEPT !.stale = TRUE] \in RowType
  BY <1>1, RowUpdates, Constants
<1>3. row' \in [Jobs -> RowType]
  BY <1>2 DEF TypeOK, Elapses, BackoffElapses, OrphanTimesOut, SlowTimesOut
<1> QED
  BY <1>3 DEF TypeOK, Elapses, BackoffElapses, OrphanTimesOut, SlowTimesOut,
              proc, counters

LEMMA PollsType ==
  ASSUME TypeOK, NEW p \in Procs, Polls(p) PROVE TypeOK'
<1>1. CASE PollSelect(p)
  <2>1. Selectable(p) \subseteq Jobs
    BY JobQueueAssumption DEF Selectable
  <2> QED
    BY <1>1, <2>1, BatchTypes DEF TypeOK, PollSelect, counters
<1>2. CASE PollCommit(p)
  <2>1. ASSUME NEW j \in Jobs
        PROVE  Taken(row[j]) \in RowType
    BY RowUpdates, Constants DEF TypeOK, Taken
  <2>2. row' \in [Jobs -> RowType]
    BY <1>2, <2>1 DEF TypeOK, PollCommit
  <2>3. poll' \in [Procs -> PollType]
    BY <1>2, BatchTypes DEF TypeOK, PollCommit
  <2>4. locked' \subseteq Jobs
    BY <1>2 DEF TypeOK, PollCommit, Unlocked
  <2> QED
    BY <1>2, <2>2, <2>3, <2>4 DEF TypeOK, PollCommit, counters
<1>3. CASE PollAborts(p)
  BY <1>3, BatchTypes DEF TypeOK, PollAborts, Unlocked, counters
<1>4. CASE PollSubmit(p)
  <2>1. queued' \in [Procs -> [Jobs -> Nat]]
    BY <1>4 DEF TypeOK, PollSubmit
  <2> QED
    BY <1>4, <2>1, BatchTypes DEF TypeOK, PollSubmit, db, counters
<1> QED
  BY <1>1, <1>2, <1>3, <1>4 DEF Polls

LEMMA SweepsType ==
  ASSUME TypeOK, NEW p \in Procs, Sweeps(p) PROVE TypeOK'
<1>1. CASE SweepRead(p)
  <2> DEFINE F == {j \in Stale : row[j].attempts >= MaxAttempts}
             R == {j \in Stale : row[j].attempts < MaxAttempts}
  <2>1. F \in SUBSET Jobs /\ R \in SUBSET Jobs
    BY DEF Stale
  <2>2. sweep' = [sweep EXCEPT ![p] = [at |-> "read", failing |-> F,
                                       retrying |-> R]]
    BY <1>1 DEF SweepRead
  <2>3. sweep' \in [Procs -> SweepType]
    <3> HIDE DEF F, R
    <3> QED
      BY <2>1, <2>2, BatchTypes DEF TypeOK
  <2> QED
    BY <1>1, <2>3 DEF TypeOK, SweepRead, db, counters
<1>2. CASE SweepCommit(p)
  <2>1. ASSUME NEW j \in Jobs
        PROVE  /\ [row[j] EXCEPT !.status = "failed"] \in RowType
               /\ Requeued(row[j]) \in RowType
    BY RowUpdates, Constants DEF TypeOK, Requeued
  <2>2. row' \in [Jobs -> RowType]
    BY <1>2, <2>1 DEF TypeOK, SweepCommit
  <2> QED
    BY <1>2, <2>2, BatchTypes DEF TypeOK, SweepCommit, counters
<1>3. CASE SweepAborts(p)
  BY <1>3, BatchTypes DEF TypeOK, SweepAborts, db, counters
<1> QED
  BY <1>1, <1>2, <1>3 DEF Sweeps

LEMMA BeginsType ==
  ASSUME TypeOK, NEW p \in Procs, NEW j \in Jobs, Begins(p, j) PROVE TypeOK'
<1>1. PICK t \in Threads : RunDrop(p, t, j) \/ RunStart(p, t, j)
  BY DEF Begins
<1>2. queued' \in [Procs -> [Jobs -> Nat]]
  <2>1. queued[p][j] - 1 \in Nat
    BY <1>1 DEF TypeOK, RunDrop, RunStart, Dequeue
  <2>2. queued' = [queued EXCEPT ![p][j] = queued[p][j] - 1]
    BY <1>1 DEF RunDrop, RunStart, Dequeue
  <2> QED
    BY <2>1, <2>2 DEF TypeOK
<1>3. CASE RunDrop(p, t, j)
  BY <1>2, <1>3 DEF TypeOK, RunDrop, db, counters
<1>4. CASE RunStart(p, t, j)
  <2>1. row[j] \in RowType
    BY DEF TypeOK
  <2>2. [job |-> j, attempts |-> row[j].attempts, status |-> row[j].status]
          \in RunType
    BY <2>1 DEF RowType, RunType
  <2>3. run' \in [Procs -> [Threads -> RunType]]
    BY <1>4, <2>2 DEF TypeOK, RunStart
  <2> QED
    BY <1>2, <1>4, <2>3 DEF TypeOK, RunStart, db, counters
<1> QED
  BY <1>1, <1>3, <1>4

LEMMA EndsType ==
  ASSUME TypeOK, NEW p \in Procs, NEW t \in Threads, Ends(p, t) PROVE TypeOK'
<1>1. run' \in [Procs -> [Threads -> RunType]]
  <2>1. run' = [run EXCEPT ![p][t] = Idle]
    BY DEF Ends, RunSucceed, RunFail
  <2> QED
    BY <2>1, Constants DEF TypeOK
<1>2. run[p][t] \in RunType
  BY DEF TypeOK
<1>3. row' \in [Jobs -> RowType]
  <2>1. CASE RunSucceed(p, t)
    BY <1>2, <2>1, OutcomeType DEF TypeOK, RunSucceed
  <2>2. CASE RunFail(p, t)
    <3>1. PICK e \in BOOLEAN :
            row' = [row EXCEPT ![run[p][t].job] = Failed(@, run[p][t], e)]
      BY <2>2 DEF RunFail
    <3> QED
      BY <1>2, <3>1, OutcomeType DEF TypeOK
  <2> QED
    BY <2>1, <2>2 DEF Ends
<1> QED
  BY <1>1, <1>3 DEF TypeOK, Ends, RunSucceed, RunFail, counters

LEMMA LostType ==
  ASSUME TypeOK, NEW p \in Procs, NEW t \in Threads, RunLost(p, t) PROVE TypeOK'
<1>1. run' \in [Procs -> [Threads -> RunType]]
  BY Constants DEF TypeOK, RunLost
<1> QED
  BY <1>1 DEF TypeOK, RunLost, db

LEMMA SwitchesType ==
  ASSUME TypeOK, NEW p \in Procs, Switches(p) PROVE TypeOK'
<1>1. CASE Crash(p)
  <2>1. run' \in [Procs -> [Threads -> RunType]]
    BY <1>1, Constants DEF TypeOK, Crash
  <2>2. queued' \in [Procs -> [Jobs -> Nat]]
    BY <1>1 DEF TypeOK, Crash
  <2> QED
    BY <1>1, <2>1, <2>2, BatchTypes DEF TypeOK, Crash, Unlocked
<1>2. CASE Stop(p)
  BY <1>2 DEF TypeOK, Stop, db
<1>3. CASE Stopped(p) \/ Start(p)
  BY <1>3 DEF TypeOK, Stopped, Start, db, counters
<1> QED
  BY <1>1, <1>2, <1>3 DEF Switches

LEMMA InitType == Init => TypeOK
BY Constants, BatchTypes DEF Init, TypeOK

LEMMA StepType == TypeOK /\ [Next]_vars => TypeOK'
<1> SUFFICES ASSUME TypeOK, [Next]_vars
             PROVE  TypeOK'
  OBVIOUS
<1>1. CASE UNCHANGED vars
  BY <1>1 DEF TypeOK, vars, db, proc, counters
<1> QED
  BY <1>1, EnqueueType, ElapsesType, PollsType, SweepsType, BeginsType,
     EndsType, LostType, SwitchesType DEF Next

\* Every variable of the queue keeps its type: a worker, the sweeper or the
\* poll loop never writes a row that is not one.
THEOREM TypeCorrect == Spec => []TypeOK
BY InitType, StepType, PTL DEF Spec

-----------------------------------------------------------------------------
(* IInv, action by action.                                                 *)

Selected(p, j) == poll[p].at = "selected" /\ j \in poll[p].ids

\* What a row a sweeper has read may look like until the sweeper commits.
Waits(r) == \/ r.status = "running" /\ r.stale
            \/ r.status = "retrying" /\ ~r.due

-----------------------------------------------------------------------------
(* Actions that hand nobody a job: locks, verdicts and loaded rows only     *)
(* disappear, and a row changes only if nobody holds or has locked it.      *)

LEMMA HandsOff ==
  ASSUME IInv, TypeOK',
         late \subseteq late', late' \subseteq born', born \subseteq born',
         \A q \in Procs, k \in Timely' : Holds(q, k)' => Holds(q, k),
         \A q \in Procs, k \in Timely' : Alone(q, k)',
         \A q \in Procs, k \in Jobs :
           Selected(q, k)' => Selected(q, k) /\ k \in locked',
         \A q \in Procs : sweep'[q] = sweep[q] \/ sweep'[q] = NoSweep,
         \A q \in Procs, t \in Threads : run'[q][t] = run[q][t] \/ run'[q][t] = Idle,
         \A k \in Jobs :
           \/ row'[k] = row[k]
           \/ /\ \A q \in Procs : ~Selected(q, k)'
              /\ row'[k].status # "absent" => k \in born'
              /\ k \in Timely' =>
                   /\ ~Held(k)'
                   /\ \A q \in Procs : Swept(q, k)' => Waits(row'[k])
                   /\ row'[k].status \notin Ended => row'[k].attempts < MaxAttempts
  PROVE  IInv'
<1>0. Timely' \subseteq Timely /\ Timely' \subseteq Jobs
  BY DEF Timely
<1>1. \A k \in Timely' : Held(k)' => Held(k)
  BY DEF Held
<1>2. OneHolder'
  BY <1>0 DEF IInv, OneHolder
<1>3. HeldIsRunning'
  BY <1>0, <1>1 DEF IInv, HeldIsRunning
<1>4. BudgetLeft' /\ RowIsBorn'
  BY <1>0 DEF IInv, BudgetLeft, RowIsBorn, Exists
<1>5. SelectedIsReserved'
  <2>1. ASSUME NEW q \in Procs, NEW k \in Jobs, Selected(q, k)'
        PROVE  /\ k \in locked'
               /\ row'[k].status \in Claimable /\ row'[k].due
               /\ \A p \in Procs : Selected(p, k)' => p = q
               /\ k \in Timely' => ~Held(k)'
    BY <1>0, <1>1, <2>1 DEF IInv, SelectedIsReserved, Selected
  <2> QED
    BY <2>1 DEF SelectedIsReserved, Selected
<1>6. SweptIsIdle'
  <2>1. ASSUME NEW q \in Procs, NEW k \in Timely', Swept(q, k)'
        PROVE  k \notin sweep'[q].failing /\ ~Held(k)' /\ Waits(row'[k])
    <3>1. sweep'[q] = sweep[q]
      BY <2>1 DEF Swept, NoSweep
    <3>2. Swept(q, k) /\ k \in Timely /\ k \in Jobs
      BY <1>0, <2>1, <3>1 DEF Swept
    <3>3. k \notin sweep[q].failing /\ ~Held(k) /\ Waits(row[k])
      BY <3>2 DEF IInv, SweptIsIdle, Waits
    <3> QED
      BY <1>1, <2>1, <3>1, <3>2, <3>3
  <2> QED
    BY <2>1 DEF SweptIsIdle, Waits
<1>7. LoadedIsCurrent'
  <2>1. ASSUME NEW q \in Procs, NEW t \in Threads, run'[q][t] # Idle
        PROVE  /\ run'[q][t].job \in Jobs
               /\ run'[q][t].job \in Timely' =>
                    /\ run'[q][t].status = "running"
                    /\ run'[q][t].attempts = row'[run'[q][t].job].attempts
    <3>1. run'[q][t] = run[q][t] /\ run[q][t].job \in Jobs
      BY <2>1 DEF IInv, LoadedIsCurrent
    <3>2. Held(run[q][t].job)'
      BY <3>1 DEF Held, Holds, Runs
    <3> QED
      BY <1>0, <2>1, <3>1, <3>2 DEF IInv, LoadedIsCurrent
  <2> QED
    BY <2>1 DEF LoadedIsCurrent
<1> QED
  BY <1>2, <1>3, <1>4, <1>5, <1>6, <1>7 DEF IInv

\* Actions that leave the processes alone leave everybody's jobs alone.
LEMMA SameProcs ==
  ASSUME IInv, UNCHANGED <<poll, queued, run>>
  PROVE  /\ \A q \in Procs, k \in Jobs : Holds(q, k)' <=> Holds(q, k)
         /\ \A q \in Procs, k \in Timely : Alone(q, k)'
         /\ \A k \in Jobs : Held(k)' <=> Held(k)
         /\ \A q \in Procs, k \in Jobs : Selected(q, k)' <=> Selected(q, k)
<1>1. \A q \in Procs, k \in Jobs : Holds(q, k)' <=> Holds(q, k)
  BY DEF Holds, Claimed, Queued, Runs
<1>2. \A q \in Procs, k \in Timely : Alone(q, k)'
  BY DEF IInv, OneHolder, Alone, Claimed, Queued, Runs
<1> QED
  BY <1>1, <1>2 DEF Held, Selected

LEMMA NothingMoves ==
  ASSUME IInv, TypeOK',
         UNCHANGED <<row, born, locked, poll, queued, run, sweep, late>>
  PROVE  IInv'
<1>1. /\ Timely' = Timely /\ Timely \subseteq Jobs
      /\ late \subseteq late' /\ late' \subseteq born' /\ born \subseteq born'
  BY DEF Timely, IInv, RowIsBorn
<1>2. \A q \in Procs, k \in Jobs : Selected(q, k)' => Selected(q, k) /\ k \in locked'
  BY SameProcs DEF IInv, SelectedIsReserved, Selected
<1> QED
  BY <1>1, <1>2, SameProcs, HandsOff

LEMMA EnqueueSafe ==
  ASSUME IInv, NEW j \in Jobs, Enqueue(j) PROVE IInv'
<1>1. TypeOK'
  BY EnqueueType DEF IInv
<1>2. row[j].status = "absent" /\ j \in born' /\ j \in Timely /\ j \notin late
  BY DEF IInv, Enqueue, RowIsBorn, Exists, TypeOK, Timely
<1>3. ~Held(j) /\ \A q \in Procs : ~Selected(q, j) /\ ~Swept(q, j)
  BY <1>2 DEF IInv, HeldIsRunning, SelectedIsReserved, Selected, SweptIsIdle, Claimable
<1>4. \A q \in Procs : ~Swept(q, j)'
  BY <1>3 DEF Swept, Enqueue, proc
<1>5. \A k \in Jobs : k # j => row'[k] = row[k]
  BY DEF Enqueue, IInv, TypeOK
<1>6. row'[j].attempts = 0
  BY DEF Enqueue, Absent, IInv, TypeOK
<1>7. 0 < MaxAttempts
  BY JobQueueAssumption
<1>8. late' = late /\ Timely' = Timely /\ Timely \subseteq Jobs /\ late \subseteq born
  BY DEF Enqueue, counters, Timely, IInv, RowIsBorn
<1>9. UNCHANGED <<poll, queued, run, sweep, locked>> /\ born \subseteq born'
  BY DEF Enqueue, proc
<1>10. \A q \in Procs, k \in Jobs : Selected(q, k)' => Selected(q, k) /\ k \in locked'
  BY <1>9, SameProcs DEF IInv, SelectedIsReserved, Selected
<1> QED
  BY <1>1, <1>2, <1>3, <1>4, <1>5, <1>6, <1>7, <1>8, <1>9, <1>10, HandsOff, SameProcs

LEMMA ElapsesSafe ==
  ASSUME Prompt, IInv, NEW j \in Jobs, Elapses(j) PROVE IInv'
<1>1. TypeOK'
  BY ElapsesType DEF IInv
<1>2. UNCHANGED <<born, locked, poll, queued, run, sweep>>
  BY DEF Elapses, BackoffElapses, OrphanTimesOut, SlowTimesOut, proc
<1>3. \A k \in Jobs : k # j => row'[k] = row[k]
  BY DEF Elapses, BackoffElapses, OrphanTimesOut, SlowTimesOut, IInv, TypeOK
<1>4. /\ late \subseteq late' /\ late' \subseteq born'
      /\ SlowTimesOut(j) => j \notin Timely'
  <2>1. late' = late \/ (SlowTimesOut(j) /\ late' = late \cup {j})
    BY DEF Elapses, BackoffElapses, OrphanTimesOut, SlowTimesOut, counters
  <2>2. SlowTimesOut(j) => j \in born /\ late' = late \cup {j}
    BY DEF SlowTimesOut, IInv, RowIsBorn, Exists
  <2> QED
    BY <1>2, <2>1, <2>2 DEF IInv, RowIsBorn, Timely
<1>5. row[j] \in RowType
  BY DEF IInv, TypeOK
<1>6. /\ \A q \in Procs : ~Selected(q, j)
      /\ row'[j].status = row[j].status /\ row'[j].attempts = row[j].attempts
      /\ j \in Timely' => ~Held(j) /\ \A q \in Procs : Swept(q, j) => Waits(row'[j])
  <2>0. j \in Timely' => j \in Timely
    BY <1>4 DEF Timely
  <2>1. CASE BackoffElapses(j)
    <3>1. row'[j] = [row[j] EXCEPT !.due = TRUE]
      BY <2>1 DEF BackoffElapses, IInv, TypeOK
    <3>2. row[j].status # "running" /\ ~row[j].due /\ \A q \in Procs : ~Swept(q, j)
      BY <2>1 DEF BackoffElapses, Claimable, Prompt
    <3> QED
      BY <1>5, <2>0, <3>1, <3>2 DEF IInv, HeldIsRunning, SelectedIsReserved, Selected, RowType
  <2>2. CASE OrphanTimesOut(j)
    <3>1. row'[j] = [row[j] EXCEPT !.stale = TRUE]
      BY <2>2 DEF OrphanTimesOut, IInv, TypeOK
    <3>2. row[j].status = "running" /\ ~Held(j)
      BY <2>2 DEF OrphanTimesOut
    <3> QED
      BY <1>5, <3>1, <3>2 DEF IInv, SelectedIsReserved, Selected, RowType, Waits, Claimable
  <2>3. CASE SlowTimesOut(j)
    <3>1. row'[j] = [row[j] EXCEPT !.stale = TRUE] /\ row[j].status = "running"
      BY <2>3 DEF SlowTimesOut, IInv, TypeOK
    <3> QED
      BY <1>4, <1>5, <2>3, <3>1 DEF IInv, SelectedIsReserved, Selected, RowType, Claimable
  <2> QED
    BY <2>1, <2>2, <2>3 DEF Elapses
<1>7. \A q \in Procs : Swept(q, j)' <=> Swept(q, j)
  BY <1>2 DEF Swept
<1>8. j \in Timely' /\ row'[j].status \notin Ended => row'[j].attempts < MaxAttempts
  BY <1>4, <1>6 DEF IInv, BudgetLeft, Timely
<1>9. row'[j].status # "absent" => j \in born'
  BY <1>2, <1>6 DEF IInv, RowIsBorn, Exists
<1>10. Timely' \subseteq Timely /\ Timely' \subseteq Jobs
  BY <1>4 DEF Timely
<1>11. \A q \in Procs, k \in Jobs : Selected(q, k)' => Selected(q, k) /\ k \in locked'
  BY <1>2, SameProcs DEF IInv, SelectedIsReserved, Selected
<1> QED
  BY <1>1, <1>2, <1>3, <1>4, <1>6, <1>7, <1>8, <1>9, <1>10, <1>11, HandsOff, SameProcs

LEMMA SweepDoneSafe ==
  ASSUME IInv, NEW p \in Procs, SweepCommit(p) \/ SweepAborts(p) PROVE IInv'
<1>1. TypeOK'
  BY SweepsType DEF IInv, Sweeps
<1>2. UNCHANGED <<born, locked, poll, queued, run, late>>
  BY DEF SweepCommit, SweepAborts, db, counters
<1>3. /\ sweep'[p] = NoSweep
      /\ \A q \in Procs : q # p => sweep'[q] = sweep[q]
  BY DEF SweepCommit, SweepAborts, IInv, TypeOK
<1>4. ASSUME NEW k \in Jobs, row'[k] # row[k]
      PROVE  Swept(p, k) /\ k \notin locked /\ Exists(k)
  BY <1>4 DEF SweepCommit, SweepAborts, db, Swept, Writable, SweepSet
<1>5. ASSUME NEW k \in Jobs, row'[k] # row[k]
      PROVE  k \in born /\ \A q \in Procs : ~Selected(q, k)
  BY <1>4, <1>5 DEF IInv, RowIsBorn, SelectedIsReserved, Selected
<1>6. ASSUME NEW k \in Timely, row'[k] # row[k]
      PROVE  /\ ~Held(k)
             /\ Waits(row'[k])
             /\ row'[k].attempts < MaxAttempts
  <2>1. k \in Jobs /\ Swept(p, k)
    BY <1>4, <1>6 DEF Timely
  <2>2. ~Held(k) /\ Waits(row[k]) /\ k \notin sweep[p].failing
    BY <1>6, <2>1 DEF IInv, SweptIsIdle, Waits
  <2>3. row'[k] = [row[k] EXCEPT !.status = "retrying", !.due = FALSE]
    BY <1>4, <1>6, <2>1, <2>2 DEF SweepCommit, SweepAborts, Requeued, db, Swept
  <2>4. row[k] \in RowType
    BY <2>1 DEF IInv, TypeOK
  <2>5. row'[k].status = "retrying" /\ ~row'[k].due /\ row'[k].attempts = row[k].attempts
    BY <2>3, <2>4 DEF RowType
  <2>6. row[k].attempts < MaxAttempts
    BY <1>6, <2>2 DEF IInv, BudgetLeft, Waits, Ended
  <2> QED
    BY <2>2, <2>5, <2>6 DEF Waits
<1>7. Timely' = Timely /\ Timely \subseteq Jobs /\ late \subseteq born
  BY <1>2 DEF Timely, IInv, RowIsBorn
<1>8. \A q \in Procs, k \in Jobs : Selected(q, k)' => Selected(q, k) /\ k \in locked'
  BY <1>2, SameProcs DEF IInv, SelectedIsReserved, Selected
<1> QED
  BY <1>1, <1>2, <1>3, <1>5, <1>6, <1>7, <1>8, HandsOff, SameProcs

LEMMA SweepReadSafe ==
  ASSUME IInv, NEW p \in Procs, SweepRead(p) PROVE IInv'
<1>1. TypeOK'
  BY SweepsType DEF IInv, Sweeps
<1>2. /\ UNCHANGED <<row, born, locked, poll, queued, run, late>>
      /\ Timely' = Timely /\ Timely \subseteq Jobs
  BY DEF SweepRead, db, counters, Timely
<1>3. OneHolder' /\ HeldIsRunning' /\ BudgetLeft' /\ RowIsBorn' /\ LoadedIsCurrent'
  BY <1>2, SameProcs DEF IInv, OneHolder, HeldIsRunning, BudgetLeft, RowIsBorn,
                         LoadedIsCurrent, Exists
<1>4. SelectedIsReserved'
  BY <1>2, SameProcs DEF IInv, SelectedIsReserved
<1>5. SweptIsIdle'
  <2>1. ASSUME NEW q \in Procs, NEW k \in Timely, Swept(q, k)'
        PROVE  k \notin sweep'[q].failing /\ ~Held(k)' /\ Waits(row'[k])
    <3>0. k \in Jobs
      BY <1>2
    <3>1. CASE q # p
      <4>1. sweep'[q] = sweep[q]
        BY <3>1 DEF SweepRead, IInv, TypeOK
      <4> QED
        BY <1>2, <2>1, <3>0, <4>1, SameProcs DEF IInv, SweptIsIdle, Swept, Waits
    <3>2. CASE q = p
      <4>1. sweep'[p] = [at |-> "read",
                         failing |-> {j \in Stale : row[j].attempts >= MaxAttempts},
                         retrying |-> {j \in Stale : row[j].attempts < MaxAttempts}]
        BY DEF SweepRead, IInv, TypeOK
      <4>2. k \in Stale
        BY <2>1, <3>2, <4>1 DEF Swept
      <4>3. row[k].status = "running" /\ row[k].stale
        BY <4>2 DEF Stale
      <4>4. row[k].attempts < MaxAttempts /\ row[k].attempts \in Nat
        BY <3>0, <4>3 DEF IInv, BudgetLeft, Ended, TypeOK, RowType
      <4>5. ~Held(k)
        BY <4>3 DEF IInv, HeldIsRunning
      <4> QED
        BY <1>2, <3>0, <3>2, <4>1, <4>3, <4>4, <4>5, SameProcs, JobQueueAssumption DEF Waits
    <3> QED
      BY <3>1, <3>2
  <2> QED
    BY <1>2, <2>1 DEF SweptIsIdle, Waits
<1> QED
  BY <1>1, <1>3, <1>4, <1>5 DEF IInv

-----------------------------------------------------------------------------
(* The poll loop: a batch is locked, claimed and queued.                    *)

LEMMA PollSelectSafe ==
  ASSUME Prompt, IInv, NEW p \in Procs, PollSelect(p) PROVE IInv'
<1>1. TypeOK'
  BY PollsType DEF IInv, Polls
<1>2. /\ UNCHANGED <<row, born, queued, run, sweep, late>>
      /\ Timely' = Timely /\ Timely \subseteq Jobs
  BY DEF PollSelect, counters, Timely
<1>3. PICK S \in SUBSET Selectable(p) :
        /\ poll' = [poll EXCEPT ![p] = [at |-> "selected", ids |-> S]]
        /\ locked' = locked \cup S
  BY DEF PollSelect, Prompt
<1>4. poll[p].at = "idle"
  BY DEF PollSelect, CanTick
<1>5. \A q \in Procs, k \in Jobs : Claimed(q, k)' <=> Claimed(q, k)
  BY <1>3, <1>4 DEF Claimed, IInv, TypeOK
<1>6. /\ \A q \in Procs, k \in Jobs : Holds(q, k)' <=> Holds(q, k)
      /\ \A q \in Procs, k \in Timely : Alone(q, k)'
  BY <1>2, <1>5 DEF Holds, Alone, Queued, Runs, IInv, OneHolder
<1>7. \A k \in Jobs : Held(k)' <=> Held(k)
  BY <1>6 DEF Held
<1>8. /\ OneHolder' /\ HeldIsRunning' /\ BudgetLeft' /\ RowIsBorn'
      /\ LoadedIsCurrent' /\ SweptIsIdle'
  BY <1>2, <1>6, <1>7 DEF IInv, OneHolder, HeldIsRunning, BudgetLeft, RowIsBorn,
                          LoadedIsCurrent, Exists, SweptIsIdle, Swept
<1>9. SelectedIsReserved'
  <2>1. ASSUME NEW q \in Procs, NEW k \in Jobs, Selected(q, k)'
        PROVE  \/ q # p /\ Selected(q, k)
               \/ q = p /\ k \in S
    BY <1>3, <2>1 DEF Selected, IInv, TypeOK
  <2>2. ASSUME NEW k \in S
        PROVE  /\ row[k].status \in Claimable /\ row[k].due /\ k \notin locked
               /\ k \in Timely => ~Held(k)
               /\ \A q \in Procs : ~Selected(q, k)
    <3>1. k \in Jobs /\ row[k].status \in Claimable /\ row[k].due /\ k \notin locked
      BY <2>2, JobQueueAssumption DEF Selectable, Prompt
    <3> QED
      BY <3>1 DEF IInv, HeldIsRunning, SelectedIsReserved, Selected, Claimable
  <2>3. ASSUME NEW q \in Procs, NEW k \in Jobs, Selected(q, k)'
        PROVE  /\ k \in locked' /\ row'[k].status \in Claimable /\ row'[k].due
               /\ \A r \in Procs : Selected(r, k)' => q = r
               /\ k \in Timely => ~Held(k)'
    <3>1. CASE q # p /\ Selected(q, k)
      BY <1>2, <1>3, <1>7, <2>1, <2>2, <3>1 DEF IInv, SelectedIsReserved, Selected
    <3>2. CASE q = p /\ k \in S
      BY <1>2, <1>3, <1>7, <2>1, <2>2, <3>2
    <3> QED
      BY <2>1, <2>3, <3>1, <3>2
  <2> QED
    BY <1>2, <2>3 DEF SelectedIsReserved, Selected
<1> QED
  BY <1>1, <1>8, <1>9 DEF IInv

\* A locked batch has all its rows: the poll loop never aborts.
LEMMA SelectedExists ==
  ASSUME IInv, NEW p \in Procs, poll[p].at = "selected"
  PROVE  Missing(poll[p].ids) = {}
BY DEF IInv, SelectedIsReserved, Missing, Exists, Claimable, TypeOK, PollType

\* Of a claimed batch only the row of an overdue job can be missing.
LEMMA ClaimedExists ==
  ASSUME IInv, NEW p \in Procs, poll[p].at = "claimed"
  PROVE  Missing(poll[p].ids) \subseteq late
<1>1. poll[p].ids \subseteq Jobs
  BY DEF IInv, TypeOK, PollType
<1>2. \A k \in poll[p].ids : Held(k)
  BY <1>1 DEF Held, Holds, Claimed
<1> QED
  BY <1>1, <1>2 DEF IInv, HeldIsRunning, Missing, Exists, Timely

LEMMA PollCommitSafe ==
  ASSUME Prompt, IInv, NEW p \in Procs, PollCommit(p) PROVE IInv'
<1>0. PICK S : S = poll[p].ids
  OBVIOUS
<1>1. TypeOK'
  BY PollsType DEF IInv, Polls
<1>2. /\ UNCHANGED <<born, queued, run, sweep, late>>
      /\ Timely' = Timely /\ Timely \subseteq Jobs
  BY DEF PollCommit, counters, Timely
<1>3. S \subseteq Jobs /\ poll[p].at = "selected" /\ Missing(S) = {}
  BY <1>0, SelectedExists DEF PollCommit, IInv, TypeOK, PollType
<1>4. /\ \A k \in S : row'[k] = [row[k] EXCEPT !.status = "running", !.stale = FALSE]
      /\ \A k \in Jobs \ S : row'[k] = row[k]
  BY <1>0, <1>3 DEF PollCommit, Taken
<1>5. \A k \in S : /\ row'[k].status = "running" /\ ~row'[k].stale
                   /\ row'[k].attempts = row[k].attempts
  <2>1. \A k \in S : row[k] \in RowType
    BY <1>3 DEF IInv, TypeOK
  <2> QED
    BY <1>4, <2>1 DEF RowType
<1>6. /\ poll'[p].at = "claimed" /\ poll'[p].ids = S
      /\ \A q \in Procs : q # p => poll'[q] = poll[q]
  <2>1. poll[p] \in PollType
    BY DEF IInv, TypeOK
  <2>2. /\ poll'[p] = [poll[p] EXCEPT !.at = "claimed"]
        /\ \A q \in Procs : q # p => poll'[q] = poll[q]
    BY DEF PollCommit, IInv, TypeOK
  <2> QED
    BY <1>0, <2>1, <2>2 DEF PollType
<1>7. locked' = locked \ S
  BY <1>0 DEF PollCommit, Unlocked, Prompt
<1>8. ASSUME NEW k \in S
      PROVE  /\ k \in Timely => ~Held(k)
             /\ row[k].status \in Claimable /\ row[k].due
             /\ \A q \in Procs : Selected(q, k) => p = q
  BY <1>0, <1>3 DEF IInv, SelectedIsReserved, Selected
<1>9. \A q \in Procs, k \in Jobs :
        Holds(q, k)' <=> (Holds(q, k) \/ (q = p /\ k \in S))
  <2>1. \A q \in Procs, k \in Jobs :
          Claimed(q, k)' <=> (Claimed(q, k) \/ (q = p /\ k \in S))
    BY <1>0, <1>3, <1>6 DEF Claimed
  <2> QED
    BY <1>2, <2>1 DEF Holds, Queued, Runs
<1>10. \A k \in Jobs : Held(k)' <=> (Held(k) \/ k \in S)
  <2>1. ASSUME NEW k \in Jobs, Held(k)' PROVE Held(k) \/ k \in S
    BY <1>9, <2>1 DEF Held
  <2>2. ASSUME NEW k \in Jobs, Held(k) \/ k \in S PROVE Held(k)'
    BY <1>9, <2>2 DEF Held
  <2> QED
    BY <2>1, <2>2
<1>11. OneHolder'
  <2>1. ASSUME NEW q \in Procs, NEW k \in Timely PROVE Alone(q, k)'
    <3>1. CASE q = p /\ k \in S
      <4>1. ~Holds(p, k)
        BY <1>2, <1>8, <3>1 DEF Held
      <4> QED
        BY <1>2, <3>1, <4>1 DEF Alone, Holds, Queued, Runs, IInv, OneHolder
    <3>2. CASE ~(q = p /\ k \in S)
      <4>1. Claimed(q, k)' => Claimed(q, k)
        BY <1>6, <3>2 DEF Claimed
      <4> QED
        BY <1>2, <4>1 DEF Alone, Queued, Runs, IInv, OneHolder
    <3> QED
      BY <3>1, <3>2
  <2>2. ASSUME NEW k \in Timely, NEW q \in Procs, NEW r \in Procs,
               Holds(q, k)', Holds(r, k)'
        PROVE  q = r
    BY <1>2, <1>8, <1>9, <2>2 DEF IInv, OneHolder, Held
  <2> QED
    BY <1>2, <2>1, <2>2 DEF OneHolder
<1>12. HeldIsRunning'
  BY <1>2, <1>4, <1>5, <1>10 DEF IInv, HeldIsRunning
<1>13. BudgetLeft' /\ RowIsBorn'
  BY <1>2, <1>4, <1>5, <1>8 DEF IInv, BudgetLeft, RowIsBorn, Exists, Claimable, Ended
<1>14. SelectedIsReserved'
  <2>1. ASSUME NEW q \in Procs, NEW k \in Jobs, Selected(q, k)'
        PROVE  q # p /\ Selected(q, k) /\ k \notin S
    BY <1>6, <1>8, <2>1 DEF Selected
  <2>2. ASSUME NEW q \in Procs, NEW k \in Jobs, Selected(q, k)'
        PROVE  /\ k \in locked' /\ row'[k].status \in Claimable /\ row'[k].due
               /\ \A r \in Procs : Selected(r, k)' => q = r
               /\ k \in Timely => ~Held(k)'
    BY <1>4, <1>7, <1>10, <2>1, <2>2 DEF IInv, SelectedIsReserved, Selected
  <2> QED
    BY <1>2, <2>2 DEF SelectedIsReserved, Selected
<1>15. SweptIsIdle'
  <2>1. ASSUME NEW q \in Procs, NEW k \in Timely, Swept(q, k)'
        PROVE  k \notin sweep'[q].failing /\ ~Held(k)' /\ Waits(row'[k])
    <3>0. k \in Jobs
      BY <1>2
    <3>1. Swept(q, k)
      BY <1>2, <2>1 DEF Swept
    <3>2. k \notin sweep[q].failing /\ ~Held(k) /\ Waits(row[k])
      BY <3>1 DEF IInv, SweptIsIdle, Waits
    <3>3. k \notin S
      BY <1>8, <3>2 DEF Waits, Claimable
    <3> QED
      BY <1>2, <1>4, <1>10, <3>0, <3>2, <3>3
  <2> QED
    BY <1>2, <2>1 DEF SweptIsIdle, Waits
<1>16. LoadedIsCurrent'
  <2>1. ASSUME NEW q \in Procs, NEW t \in Threads, run[q][t] # Idle
        PROVE  /\ run[q][t].job \in Jobs
               /\ run[q][t].job \in Timely => run[q][t].job \notin S
    <3>1. run[q][t].job \in Jobs
      BY <2>1 DEF IInv, LoadedIsCurrent
    <3>2. Held(run[q][t].job)
      BY <3>1 DEF Held, Holds, Runs
    <3> QED
      BY <1>8, <3>1, <3>2
  <2>2. \A q \in Procs, t \in Threads :
          run[q][t] # Idle /\ run[q][t].job \in Timely =>
            row'[run[q][t].job] = row[run[q][t].job]
    BY <1>4, <2>1
  <2> QED
    BY <1>2, <2>2 DEF IInv, LoadedIsCurrent
<1> QED
  BY <1>1, <1>11, <1>12, <1>13, <1>14, <1>15, <1>16 DEF IInv

LEMMA PollSubmitSafe ==
  ASSUME IInv, NEW p \in Procs, PollSubmit(p) PROVE IInv'
<1>0. PICK S : S = IF Missing(poll[p].ids) # {} THEN {} ELSE poll[p].ids
  OBVIOUS
<1>1. TypeOK'
  BY PollsType DEF IInv, Polls
<1>2. /\ UNCHANGED <<row, born, locked, run, sweep, late>>
      /\ Timely' = Timely /\ Timely \subseteq Jobs
  BY DEF PollSubmit, db, counters, Timely
<1>3. /\ S \subseteq Jobs /\ S \subseteq poll[p].ids /\ poll[p].at = "claimed"
      /\ \A k \in S : Claimed(p, k)
  BY <1>0 DEF PollSubmit, IInv, TypeOK, PollType, Claimed
<1>4. /\ \A k \in S : queued'[p][k] = queued[p][k] + 1
      /\ \A k \in Jobs \ S : queued'[p][k] = queued[p][k]
      /\ \A q \in Procs : q # p => queued'[q] = queued[q]
  <2>1. CASE Missing(poll[p].ids) # {}
    BY <1>0, <2>1 DEF PollSubmit
  <2>2. CASE Missing(poll[p].ids) = {}
    <3>1. queued' = [queued EXCEPT ![p] =
                      [k \in Jobs |-> IF k \in S THEN @[k] + 1 ELSE @[k]]]
      BY <1>0, <2>2 DEF PollSubmit
    <3> QED
      BY <1>3, <3>1 DEF IInv, TypeOK
  <2> QED
    BY <2>1, <2>2
<1>5. /\ poll'[p] = NoPoll
      /\ \A q \in Procs : q # p => poll'[q] = poll[q]
  BY DEF PollSubmit, IInv, TypeOK
<1>6. \A q \in Procs, k \in Jobs : queued[q][k] \in Nat
  BY DEF IInv, TypeOK
<1>7. \A k \in S : k \in Timely => queued[p][k] = 0
  BY <1>2, <1>3, <1>6 DEF IInv, OneHolder, Alone, Queued
<1>8. \A q \in Procs, k \in Jobs : Holds(q, k)' => Holds(q, k)
  <2>1. ASSUME NEW k \in Jobs, Holds(p, k)' PROVE Holds(p, k)
    <3>1. CASE k \in S
      BY <1>3, <3>1 DEF Holds
    <3>2. CASE k \notin S
      BY <1>2, <1>4, <1>5, <2>1, <3>2 DEF Holds, Queued, Claimed, Runs, NoPoll
    <3> QED
      BY <3>1, <3>2
  <2>2. ASSUME NEW q \in Procs, q # p, NEW k \in Jobs
        PROVE  Holds(q, k)' <=> Holds(q, k)
    BY <1>2, <1>4, <1>5, <2>2 DEF Holds, Queued, Claimed, Runs
  <2> QED
    BY <2>1, <2>2
<1>9. \A q \in Procs, k \in Timely : Alone(q, k)'
  <2>1. ASSUME NEW k \in Timely PROVE Alone(p, k)'
    <3>0. k \in Jobs
      BY <1>2
    <3>1. CASE k \in S
      BY <1>2, <1>3, <1>4, <1>5, <1>7, <3>0, <3>1
         DEF Alone, Claimed, Queued, Runs, NoPoll, IInv, OneHolder
    <3>2. CASE k \notin S
      BY <1>2, <1>4, <1>5, <3>0, <3>2
         DEF Alone, Claimed, Queued, Runs, NoPoll, IInv, OneHolder
    <3> QED
      BY <3>1, <3>2
  <2>2. ASSUME NEW q \in Procs, q # p, NEW k \in Timely PROVE Alone(q, k)'
    <3>0. k \in Jobs
      BY <1>2
    <3> QED
      BY <1>2, <1>4, <1>5, <2>2, <3>0 DEF Alone, Claimed, Queued, Runs, IInv, OneHolder
  <2> QED
    BY <2>1, <2>2
<1>10. \A q \in Procs, k \in Jobs : Selected(q, k)' => Selected(q, k) /\ k \in locked'
  BY <1>2, <1>5 DEF Selected, NoPoll, IInv, SelectedIsReserved
<1>11. late' \subseteq born' /\ \A q \in Procs, k \in Timely' : Holds(q, k)' => Holds(q, k)
  BY <1>2, <1>8 DEF IInv, RowIsBorn
<1> QED
  BY <1>1, <1>2, <1>9, <1>10, <1>11, HandsOff

-----------------------------------------------------------------------------
(* The workers.                                                             *)

\* A worker that picks up a work item of a job is its only holder.
LEMMA BeginsSafe ==
  ASSUME IInv, NEW p \in Procs, NEW j \in Jobs, Begins(p, j) PROVE IInv'
<1>1. TypeOK'
  BY BeginsType DEF IInv
<1>2. PICK t \in Threads : RunDrop(p, t, j) \/ RunStart(p, t, j)
  BY DEF Begins
<1>3. /\ UNCHANGED <<row, born, locked, poll, sweep, late>>
      /\ Timely' = Timely /\ Timely \subseteq Jobs
  BY <1>2 DEF RunDrop, RunStart, db, counters, Timely
<1>4. /\ queued[p][j] \in Nat /\ queued[p][j] > 0
      /\ queued' = [queued EXCEPT ![p][j] = @ - 1]
      /\ run[p][t] = Idle
  BY <1>2 DEF RunDrop, RunStart, Dequeue, IInv, TypeOK
<1>5. /\ queued'[p][j] = queued[p][j] - 1
      /\ \A q \in Procs, k \in Jobs : q # p \/ k # j => queued'[q][k] = queued[q][k]
      /\ Queued(p, j) /\ Holds(p, j)
  BY <1>4 DEF IInv, TypeOK, Queued, Holds
<1>6. j \in Timely =>
        /\ queued[p][j] = 1 /\ queued'[p][j] = 0
        /\ ~Claimed(p, j) /\ \A u \in Threads : ~Runs(p, u, j)
  <2>1. j \in Timely => Alone(p, j)
    BY DEF IInv, OneHolder
  <2> QED
    BY <1>4, <1>5, <2>1 DEF Alone
<1>7. \A q \in Procs, k \in Jobs : Selected(q, k)' => Selected(q, k) /\ k \in locked'
  BY <1>3 DEF Selected, IInv, SelectedIsReserved
<1>8. CASE RunDrop(p, t, j)
  <2>1. run' = run
    BY <1>8 DEF RunDrop
  <2>2. \A q \in Procs, k \in Jobs :
          (Claimed(q, k)' <=> Claimed(q, k)) /\ (Queued(q, k)' => Queued(q, k))
    BY <1>3, <1>4, <1>5 DEF Claimed, Queued
  <2>3. \A q \in Procs, k \in Jobs : Holds(q, k)' => Holds(q, k)
    BY <2>1, <2>2 DEF Holds, Runs
  <2>4. \A q \in Procs, k \in Timely : queued'[q][k] <= 1
    BY <1>3, <1>5, <1>6 DEF IInv, OneHolder, Alone
  <2>5. \A q \in Procs, k \in Timely : Alone(q, k)'
    BY <1>3, <2>1, <2>2, <2>4 DEF IInv, OneHolder, Alone, Runs
  <2>6. late' \subseteq born'
    BY <1>3 DEF IInv, RowIsBorn
  <2> QED
    BY <1>1, <1>3, <1>7, <2>1, <2>3, <2>5, <2>6, HandsOff
<1>9. CASE RunStart(p, t, j)
  <2>1. /\ run'[p][t].job = j /\ run'[p][t].attempts = row[j].attempts
        /\ run'[p][t].status = row[j].status
        /\ \A q \in Procs, u \in Threads : q # p \/ u # t => run'[q][u] = run[q][u]
    BY <1>9 DEF RunStart, IInv, TypeOK
  <2>2. \A k \in Jobs : ~Runs(p, t, k)
    BY <1>4, Constants, JobQueueAssumption DEF Runs
  <2>3. \A q \in Procs, k \in Jobs, u \in Threads :
          Runs(q, u, k)' <=> (Runs(q, u, k) \/ (q = p /\ u = t /\ k = j))
    BY <2>1, <2>2 DEF Runs
  <2>4. \A q \in Procs, k \in Jobs : Claimed(q, k)' <=> Claimed(q, k)
    BY <1>3 DEF Claimed
  <2>5. \A q \in Procs, k \in Jobs :
          /\ q # p \/ k # j => (Queued(q, k)' <=> Queued(q, k))
          /\ k \in Timely => queued'[q][k] <= 1
    BY <1>5, <1>6 DEF Queued, IInv, OneHolder, Alone
  <2>6. j \in Timely => ~Queued(p, j)'
    BY <1>6 DEF Queued
  <2>7. \A q \in Procs, k \in Jobs : Holds(q, k)' <=> Holds(q, k)
    <3>1. Holds(p, j) /\ Holds(p, j)'
      BY <1>5, <2>3 DEF Holds
    <3>2. ASSUME NEW q \in Procs, NEW k \in Jobs, q # p \/ k # j
          PROVE  Holds(q, k)' <=> Holds(q, k)
      BY <2>3, <2>4, <2>5, <3>2 DEF Holds
    <3> QED
      BY <3>1, <3>2
  <2>8. \A k \in Jobs : Held(k)' <=> Held(k)
    BY <2>7 DEF Held
  <2>9. \A q \in Procs, k \in Timely : Alone(q, k)'
    <3>1. j \in Timely => Alone(p, j)'
      BY <1>6, <2>3, <2>4, <2>5, <2>6 DEF Alone
    <3>2. ASSUME NEW q \in Procs, NEW k \in Timely, q # p \/ k # j
          PROVE  Alone(q, k)'
      BY <1>3, <2>3, <2>4, <2>5, <3>2 DEF IInv, OneHolder, Alone
    <3> QED
      BY <3>1, <3>2
  <2>10. OneHolder' /\ HeldIsRunning' /\ BudgetLeft' /\ RowIsBorn'
    BY <1>3, <2>7, <2>8, <2>9
       DEF IInv, OneHolder, HeldIsRunning, BudgetLeft, RowIsBorn, Exists
  <2>11. SelectedIsReserved' /\ SweptIsIdle'
    BY <1>3, <2>8 DEF IInv, SelectedIsReserved, SweptIsIdle, Swept
  <2>12. LoadedIsCurrent'
    <3>1. j \in Timely => row[j].status = "running"
      BY <1>5 DEF IInv, HeldIsRunning, Held
    <3> QED
      BY <1>3, <2>1, <3>1 DEF IInv, LoadedIsCurrent
  <2> QED
    BY <1>1, <2>10, <2>11, <2>12 DEF IInv
<1> QED
  BY <1>2, <1>8, <1>9

\* What the row of a worker that loaded it RUNNING becomes.
LEMMA OutcomeSafe ==
  ASSUME NEW r \in RowType, NEW c \in RunType, NEW e \in BOOLEAN, NEW new,
         r.status = "running", c.status = "running", c.attempts = r.attempts,
         new = Succeeded(r, c) \/ new = Failed(r, c, e)
  PROVE  new.status \notin Ended => new.attempts < MaxAttempts
<1>1. \A st \in {"done", "failed", "retrying"} :
        Written(r, c, st).status = st /\ Written(r, c, st).attempts = c.attempts + 1
  BY DEF Written
<1>2. Absent.status \in Ended
  BY DEF Absent, Ended
<1> QED
  BY <1>1, <1>2 DEF Succeeded, Failed, Ended

\* A thread is free again: a timely job it worked on is nobody's.
LEMMA ThreadFreed ==
  ASSUME IInv, NEW p \in Procs, NEW t \in Threads,
         NEW j \in Jobs, Runs(p, t, j),
         run' = [run EXCEPT ![p][t] = Idle], UNCHANGED <<poll, queued>>
  PROVE  /\ Holds(p, j)
         /\ \A q \in Procs, k \in Jobs : Holds(q, k)' => Holds(q, k)
         /\ \A q \in Procs, k \in Timely : Alone(q, k)'
         /\ j \in Timely => ~Held(j)'
         /\ \A q \in Procs, u \in Threads : run'[q][u] = run[q][u] \/ run'[q][u] = Idle
         /\ \A q \in Procs, u \in Threads, k \in Jobs :
              Runs(q, u, k)' <=> (Runs(q, u, k) /\ (q # p \/ u # t))
         /\ \A q \in Procs, k \in Jobs :
              k # j => (Holds(q, k)' <=> Holds(q, k))
<1>2. Holds(p, j)
  BY DEF Holds
<1>3. /\ run'[p][t] = Idle
      /\ \A q \in Procs, u \in Threads : q # p \/ u # t => run'[q][u] = run[q][u]
  BY DEF IInv, TypeOK
<1>4. \A q \in Procs, u \in Threads, k \in Jobs :
        Runs(q, u, k)' <=> (Runs(q, u, k) /\ (q # p \/ u # t))
  <2>1. \A k \in Jobs : Idle.job # k
    BY Constants, JobQueueAssumption
  <2> QED
    BY <1>3, <2>1 DEF Runs
<1>5. \A q \in Procs, k \in Jobs :
        (Claimed(q, k)' <=> Claimed(q, k)) /\ (Queued(q, k)' <=> Queued(q, k))
  BY DEF Claimed, Queued
<1>6. \A q \in Procs, k \in Jobs : Holds(q, k)' => Holds(q, k)
  BY <1>4, <1>5 DEF Holds
<1>7. \A q \in Procs, k \in Timely : Alone(q, k)'
  <2>1. Timely \subseteq Jobs
    BY DEF Timely
  <2> QED
    BY <1>4, <1>5, <2>1 DEF IInv, OneHolder, Alone
<1>8. ASSUME j \in Timely PROVE ~Held(j)'
  <2>1. ASSUME NEW q \in Procs, Holds(q, j)' PROVE FALSE
    <3>1. q = p
      BY <1>2, <1>6, <1>8, <2>1 DEF IInv, OneHolder
    <3>2. Alone(p, j)
      BY <1>8 DEF IInv, OneHolder
    <3> QED
      BY <1>2, <1>4, <1>5, <2>1, <3>1, <3>2 DEF Holds, Alone
  <2> QED
    BY <2>1 DEF Held
<1>9. \A q \in Procs, k \in Jobs : k # j => (Holds(q, k)' <=> Holds(q, k))
  <2>1. \A k \in Jobs : Runs(p, t, k) => k = j
    BY DEF Runs
  <2> QED
    BY <1>4, <1>5, <2>1 DEF Holds
<1>10. \A q \in Procs, u \in Threads : run'[q][u] = run[q][u] \/ run'[q][u] = Idle
  BY <1>3
<1> QED
  BY <1>2, <1>4, <1>6, <1>7, <1>8, <1>9, <1>10

LEMMA EndsSafe ==
  ASSUME IInv, NEW p \in Procs, NEW t \in Threads, Ends(p, t) PROVE IInv'
<1>1. TypeOK'
  BY EndsType DEF IInv
<1>2. PICK c : c = run[p][t]
  OBVIOUS
<1>3. PICK j : j = c.job
  OBVIOUS
<1>4. /\ run[p][t] # Idle /\ j \in Jobs /\ c \in RunType /\ j \notin locked
      /\ j \in Timely => c.status = "running" /\ c.attempts = row[j].attempts
  <2>1. c # Idle /\ j \notin locked
    BY <1>2, <1>3 DEF Ends, RunSucceed, RunFail, Writable
  <2>2. c \in RunType
    BY <1>2 DEF IInv, TypeOK
  <2> QED
    BY <1>2, <1>3, <2>1, <2>2 DEF IInv, LoadedIsCurrent
<1>5. /\ UNCHANGED <<born, locked, poll, queued, sweep, late>>
      /\ run' = [run EXCEPT ![p][t] = Idle]
      /\ Timely' = Timely /\ Timely \subseteq Jobs
  BY DEF Ends, RunSucceed, RunFail, counters, Timely
<1>6. PICK e \in BOOLEAN :
        \/ row' = [row EXCEPT ![j] = Succeeded(@, c)]
        \/ row' = [row EXCEPT ![j] = Failed(@, c, e)]
  BY <1>2, <1>3 DEF Ends, RunSucceed, RunFail
<1>7. /\ Runs(p, t, j) /\ Holds(p, j) /\ Held(j) /\ row[j] \in RowType
      /\ j \in Timely => row[j].status = "running"
  BY <1>2, <1>3, <1>4 DEF Runs, Holds, Held, IInv, HeldIsRunning, TypeOK
<1>8. row'[j] = Succeeded(row[j], c) \/ row'[j] = Failed(row[j], c, e)
  BY <1>4, <1>6 DEF IInv, TypeOK
<1>9. \A k \in Jobs : k # j => row'[k] = row[k]
  BY <1>6 DEF IInv, TypeOK
<1>10. j \in Timely /\ row'[j].status \notin Ended => row'[j].attempts < MaxAttempts
  BY <1>4, <1>7, <1>8, OutcomeSafe
<1>11. /\ \A q \in Procs, k \in Jobs : Holds(q, k)' => Holds(q, k)
       /\ \A q \in Procs, k \in Timely : Alone(q, k)'
       /\ j \in Timely => ~Held(j)'
       /\ \A q \in Procs, u \in Threads : run'[q][u] = run[q][u] \/ run'[q][u] = Idle
  BY <1>4, <1>5, <1>7, ThreadFreed
<1>12. \A q \in Procs : /\ ~Selected(q, j)
                        /\ j \in Timely => ~Swept(q, j)
  BY <1>4, <1>7 DEF IInv, SelectedIsReserved, Selected, SweptIsIdle
<1>13. row'[j].status # "absent" => j \in born
  <2>1. row[j].status = "absent" => row'[j].status = "absent"
    BY <1>8, Constants DEF Succeeded, Failed, Written
  <2> QED
    BY <1>4, <2>1 DEF IInv, RowIsBorn, Exists
<1>14. \A q \in Procs, k \in Jobs :
         /\ Selected(q, k)' => Selected(q, k) /\ k \in locked'
         /\ Swept(q, k)' => Swept(q, k)
  BY <1>5 DEF IInv, SelectedIsReserved, Selected, Swept
<1>15. ASSUME NEW k \in Jobs, row'[k] # row[k]
       PROVE  /\ \A q \in Procs : ~Selected(q, k)'
              /\ row'[k].status # "absent" => k \in born'
              /\ k \in Timely' =>
                   /\ ~Held(k)' /\ \A q \in Procs : ~Swept(q, k)'
                   /\ row'[k].status \notin Ended => row'[k].attempts < MaxAttempts
  <2>1. k = j
    BY <1>9, <1>15
  <2> QED
    BY <1>5, <1>10, <1>11, <1>12, <1>13, <1>14, <2>1
<1>16. late' \subseteq born'
  BY <1>5 DEF IInv, RowIsBorn
<1> QED
  BY <1>1, <1>5, <1>11, <1>14, <1>15, <1>16, HandsOff

\* A run that ends without its commit leaves the row as it is.
LEMMA LostSafe ==
  ASSUME IInv, NEW p \in Procs, NEW t \in Threads, RunLost(p, t) PROVE IInv'
<1>1. TypeOK'
  BY LostType DEF IInv
<1>2. /\ UNCHANGED <<row, born, locked, poll, queued, sweep, late>>
      /\ run' = [run EXCEPT ![p][t] = Idle] /\ run[p][t] # Idle
      /\ Timely' = Timely /\ Timely \subseteq Jobs /\ late' \subseteq born'
  BY DEF RunLost, db, Timely, IInv, RowIsBorn
<1>3. /\ \A q \in Procs, k \in Jobs : Holds(q, k)' => Holds(q, k)
      /\ \A q \in Procs, k \in Timely : Alone(q, k)'
      /\ \A q \in Procs, u \in Threads : run'[q][u] = run[q][u] \/ run'[q][u] = Idle
  <2>1. run[p][t].job \in Jobs /\ Runs(p, t, run[p][t].job)
    BY <1>2 DEF IInv, LoadedIsCurrent, Runs
  <2> QED
    BY <1>2, <2>1, ThreadFreed
<1>4. \A q \in Procs, k \in Jobs : Selected(q, k)' => Selected(q, k) /\ k \in locked'
  BY <1>2 DEF IInv, SelectedIsReserved, Selected
<1> QED
  BY <1>1, <1>2, <1>3, <1>4, HandsOff

-----------------------------------------------------------------------------
(* Processes.  A kill releases the locks of the batch it interrupts.        *)

LEMMA CrashSafe ==
  ASSUME IInv, NEW p \in Procs, Crash(p) PROVE IInv'
<1>1. TypeOK'
  BY SwitchesType DEF IInv, Switches
<1>2. /\ UNCHANGED <<row, born, late>> /\ late' \subseteq born'
      /\ Timely' = Timely /\ Timely \subseteq Jobs
  BY DEF Crash, Timely, IInv, RowIsBorn
<1>3. /\ poll'[p] = NoPoll /\ sweep'[p] = NoSweep
      /\ \A k \in Jobs : queued'[p][k] = 0
      /\ \A t \in Threads : run'[p][t] = Idle
      /\ \A q \in Procs : q # p => /\ poll'[q] = poll[q] /\ sweep'[q] = sweep[q]
                                   /\ queued'[q] = queued[q] /\ run'[q] = run[q]
  BY DEF Crash, IInv, TypeOK
<1>4. \A k \in Jobs : ~Holds(p, k)'
  BY <1>3, Constants, JobQueueAssumption DEF Holds, Claimed, Queued, Runs, NoPoll
<1>5. \A q \in Procs, k \in Jobs : Holds(q, k)' => Holds(q, k)
  <2>1. ASSUME NEW q \in Procs, q # p, NEW k \in Jobs, Holds(q, k)'
        PROVE  Holds(q, k)
    BY <1>3, <2>1 DEF Holds, Claimed, Queued, Runs
  <2> QED
    BY <1>4, <2>1
<1>6. \A q \in Procs, k \in Timely : Alone(q, k)'
  <2>1. \A k \in Jobs : Alone(p, k)'
    BY <1>3, Constants, JobQueueAssumption DEF Alone, Claimed, Queued, Runs, NoPoll
  <2>2. ASSUME NEW q \in Procs, q # p, NEW k \in Timely PROVE Alone(q, k)'
    BY <1>3, <2>2 DEF IInv, OneHolder, Alone, Claimed, Queued, Runs
  <2> QED
    BY <1>2, <2>1, <2>2
<1>7. ASSUME NEW q \in Procs, NEW k \in Jobs, Selected(q, k)'
      PROVE  Selected(q, k) /\ k \in locked'
  <2>1. q # p /\ Selected(q, k)
    BY <1>3, <1>7 DEF Selected, NoPoll
  <2>2. k \in locked /\ ~Selected(p, k)
    BY <2>1 DEF IInv, SelectedIsReserved, Selected
  <2> QED
    BY <2>1, <2>2 DEF Crash, Unlocked, Selected
<1>8. /\ \A q \in Procs : sweep'[q] = sweep[q] \/ sweep'[q] = NoSweep
      /\ \A q \in Procs, t \in Threads : run'[q][t] = run[q][t] \/ run'[q][t] = Idle
  BY <1>3
<1> QED
  BY <1>1, <1>2, <1>5, <1>6, <1>7, <1>8, HandsOff

LEMMA SwitchesSafe ==
  ASSUME IInv, NEW p \in Procs, Switches(p) PROVE IInv'
<1>1. CASE Crash(p)
  BY <1>1, CrashSafe
<1>2. CASE Stop(p) \/ Stopped(p) \/ Start(p)
  <2>1. TypeOK'
    BY SwitchesType DEF IInv
  <2>2. UNCHANGED <<row, born, locked, poll, queued, run, sweep, late>>
    BY <1>2 DEF Stop, Stopped, Start, db, counters
  <2> QED
    BY <2>1, <2>2, NothingMoves
<1> QED
  BY <1>1, <1>2 DEF Switches

-----------------------------------------------------------------------------
LEMMA InitSafe == Init => IInv
<1> SUFFICES ASSUME Init PROVE IInv
  OBVIOUS
<1>0. Timely \subseteq Jobs /\ late = {}
  BY DEF Init, Timely
<1>1. \A p \in Procs, j \in Jobs : ~Holds(p, j) /\ Alone(p, j) /\ ~Swept(p, j)
  BY Constants, JobQueueAssumption
     DEF Init, Holds, Alone, Swept, Claimed, Queued, Runs, NoPoll, NoSweep
<1>2. \A p \in Procs, t \in Threads : run[p][t] = Idle
  BY DEF Init
<1>3. \A j \in Jobs : row[j].status = "absent"
  BY DEF Init, Absent
<1> QED
  <2>1. \A j \in Jobs : ~Held(j)
    BY <1>1 DEF Held
  <2>2. OneHolder /\ HeldIsRunning /\ SweptIsIdle
    BY <1>0, <1>1, <2>1 DEF OneHolder, HeldIsRunning, SweptIsIdle
  <2>3. BudgetLeft /\ RowIsBorn
    BY <1>0, <1>3 DEF BudgetLeft, RowIsBorn, Exists, Ended
  <2>4. SelectedIsReserved /\ LoadedIsCurrent
    <3>1. \A p \in Procs : poll[p].at # "selected"
      BY DEF Init, NoPoll
    <3> QED
      BY <1>2, <3>1 DEF SelectedIsReserved, LoadedIsCurrent
  <2> QED
    BY <2>2, <2>3, <2>4, InitType DEF IInv

LEMMA StepSafe == Prompt /\ IInv /\ [Next]_vars => IInv'
<1> SUFFICES ASSUME Prompt, IInv, [Next]_vars PROVE IInv'
  OBVIOUS
<1>1. CASE UNCHANGED vars
  <2>1. /\ TypeOK'
        /\ UNCHANGED <<row, born, locked, poll, queued, run, sweep, late>>
    BY <1>1, StepType DEF IInv, vars, db, proc, counters
  <2> QED
    BY <2>1, NothingMoves
<1>2. ASSUME NEW j \in Jobs, Enqueue(j) \/ Elapses(j) PROVE IInv'
  BY <1>2, EnqueueSafe, ElapsesSafe
<1>3. ASSUME NEW p \in Procs, Polls(p) PROVE IInv'
  <2>1. ~PollAborts(p)
    BY SelectedExists DEF PollAborts
  <2> QED
    BY <1>3, <2>1, PollSelectSafe, PollCommitSafe, PollSubmitSafe DEF Polls
<1>4. ASSUME NEW p \in Procs, Sweeps(p) PROVE IInv'
  BY <1>4, SweepReadSafe, SweepDoneSafe DEF Sweeps
<1>5. ASSUME NEW p \in Procs, Switches(p) PROVE IInv'
  BY <1>5, SwitchesSafe
<1>6. ASSUME NEW p \in Procs, NEW j \in Jobs, Begins(p, j) PROVE IInv'
  BY <1>6, BeginsSafe
<1>7. ASSUME NEW p \in Procs, NEW t \in Threads, Ends(p, t) \/ RunLost(p, t)
      PROVE  IInv'
  BY <1>7, EndsSafe, LostSafe
<1> QED
  BY <1>1, <1>2, <1>3, <1>4, <1>5, <1>6, <1>7 DEF Next

\* The batch of a poll loop, the verdicts of a sweeper and the rows the workers
\* loaded agree with the table in every reachable state.
THEOREM QueueInvariant ==
  ASSUME Prompt PROVE Spec => []IInv
<1>1. IInv /\ [Next]_vars => IInv'
  BY StepSafe
<1> QED
  BY <1>1, InitSafe, PTL DEF Spec

\* "Two workers can never receive the same job", for every number of
\* processes, threads and jobs, unless that job has outlived the stale timeout.
THEOREM OneWorker ==
  ASSUME Prompt PROVE Spec => []OneHolder
<1>1. IInv => OneHolder
  BY DEF IInv
<1> QED
  BY <1>1, QueueInvariant, PTL

\* A job that may still run, and is not overdue, never has spent its
\* max_attempts.
THEOREM WithinBudget ==
  ASSUME Prompt PROVE Spec => []BudgetLeft
<1>1. IInv => BudgetLeft
  BY DEF IInv
<1> QED
  BY <1>1, QueueInvariant, PTL

-----------------------------------------------------------------------------
(* What ended stays ended, and who leaves orphans.                          *)

\* Under IInv the only timely rows whose status changes are new, locked by the poll
\* loop that claims them, read by the sweeper that requeues them, or held by
\* the worker that ends.
LEMMA EndedStays ==
  ASSUME IInv, Next, NEW j \in born, j \in Timely, row[j].status \in Ended
  PROVE  row'[j].status = row[j].status
<1>1. j \in Jobs
  BY DEF IInv, TypeOK
<1>2. ~Held(j) /\ \A q \in Procs : ~Selected(q, j) /\ ~Swept(q, j)
  BY <1>1 DEF IInv, HeldIsRunning, SelectedIsReserved, Selected, SweptIsIdle,
              Ended, Claimable
<1>3. CASE \E k \in Jobs : Enqueue(k) \/ Elapses(k)
  <2>1. PICK k \in Jobs : Enqueue(k) \/ Elapses(k)
    BY <1>3
  <2>2. CASE Enqueue(k)
    BY <1>1, <2>2 DEF Enqueue, IInv, TypeOK
  <2>3. CASE Elapses(k)
    <3>1. row[j] \in RowType /\ row \in [Jobs -> RowType]
      BY <1>1 DEF IInv, TypeOK
    <3>2. \/ row' = [row EXCEPT ![k] = [row[k] EXCEPT !.due = TRUE]]
          \/ row' = [row EXCEPT ![k] = [row[k] EXCEPT !.stale = TRUE]]
      BY <2>3 DEF Elapses, BackoffElapses, OrphanTimesOut, SlowTimesOut
    <3>3. \/ row'[j] = row[j]
          \/ row'[j] = [row[j] EXCEPT !.due = TRUE]
          \/ row'[j] = [row[j] EXCEPT !.stale = TRUE]
      BY <1>1, <3>1, <3>2
    <3> QED
      BY <3>1, <3>3 DEF RowType
  <2> QED
    BY <2>1, <2>2, <2>3
<1>4. ASSUME NEW p \in Procs, Polls(p) PROVE row'[j].status = row[j].status
  <2>1. CASE PollCommit(p)
    <3>1. j \notin poll[p].ids
      BY <1>2, <2>1 DEF PollCommit, Selected
    <3> QED
      BY <1>1, <2>1, <3>1 DEF PollCommit
  <2>2. CASE ~PollCommit(p)
    BY <1>4, <2>2 DEF Polls, PollSelect, PollAborts, PollSubmit, db
  <2> QED
    BY <2>1, <2>2
<1>5. ASSUME NEW p \in Procs, Sweeps(p) PROVE row'[j].status = row[j].status
  <2>1. CASE SweepCommit(p)
    <3>1. j \notin sweep[p].failing /\ j \notin sweep[p].retrying
      BY <1>2 DEF Swept
    <3> QED
      BY <1>1, <2>1, <3>1 DEF SweepCommit
  <2>2. CASE ~SweepCommit(p)
    BY <1>5, <2>2 DEF Sweeps, SweepRead, SweepAborts, db
  <2> QED
    BY <2>1, <2>2
<1>6. ASSUME NEW p \in Procs, Switches(p) PROVE row'[j].status = row[j].status
  BY <1>6 DEF Switches, Crash, Stop, Stopped, Start, db
<1>7. ASSUME NEW p \in Procs, NEW k \in Jobs, Begins(p, k)
      PROVE  row'[j].status = row[j].status
  BY <1>7 DEF Begins, RunDrop, RunStart, db
<1>8. ASSUME NEW p \in Procs, NEW t \in Threads, Ends(p, t) \/ RunLost(p, t)
      PROVE  row'[j].status = row[j].status
  <2>1. run[p][t].job # j
    BY <1>1, <1>2 DEF Held, Holds, Runs
  <2> QED
    BY <1>1, <1>8, <2>1 DEF Ends, RunSucceed, RunFail, RunLost, db, IInv, TypeOK
<1> QED
  BY <1>3, <1>4, <1>5, <1>6, <1>7, <1>8 DEF Next

\* No action writes a row that is gone, except Enqueue, which never uses an id
\* again.
LEMMA GoneStays ==
  ASSUME IInv, Next, NEW j \in born, row[j].status = "absent"
  PROVE  row'[j].status = "absent"
<1>1. j \in Jobs /\ row \in [Jobs -> RowType]
  BY DEF IInv, TypeOK
<1>2. ASSUME NEW k \in Jobs, Enqueue(k) \/ Elapses(k) PROVE row'[j] = row[j]
  <2>1. k # j
    BY <1>2 DEF Enqueue, Elapses, BackoffElapses, OrphanTimesOut, SlowTimesOut, Claimable
  <2> QED
    BY <1>1, <1>2, <2>1
       DEF Enqueue, Elapses, BackoffElapses, OrphanTimesOut, SlowTimesOut
<1>3. ASSUME NEW p \in Procs, Polls(p) \/ Sweeps(p) PROVE row'[j] = row[j]
  BY <1>1, <1>3
     DEF Polls, PollSelect, PollCommit, PollAborts, PollSubmit, Sweeps, SweepRead,
         SweepCommit, SweepAborts, Missing, Exists, db
<1>4. ASSUME NEW p \in Procs, Switches(p) PROVE row'[j] = row[j]
  BY <1>4 DEF Switches, Crash, Stop, Stopped, Start, db
<1>5. ASSUME NEW p \in Procs, NEW k \in Jobs, Begins(p, k) PROVE row'[j] = row[j]
  BY <1>5 DEF Begins, RunDrop, RunStart, db
<1>6. ASSUME NEW p \in Procs, NEW t \in Threads, Ends(p, t) \/ RunLost(p, t)
      PROVE  row'[j].status = "absent"
  <2>1. \A c, st : Written(row[j], c, st) = row[j]
    BY DEF Written
  <2>2. \A c, e : /\ Succeeded(row[j], c).status = "absent"
                  /\ Failed(row[j], c, e).status = "absent"
    BY <2>1, Constants DEF Succeeded, Failed
  <2>3. CASE RunLost(p, t)
    BY <2>3 DEF RunLost, db
  <2>4. CASE Ends(p, t)
    <3>1. \/ row'[j] = row[j]
          \/ row'[j] = Succeeded(row[j], run[p][t])
          \/ \E e \in BOOLEAN : row'[j] = Failed(row[j], run[p][t], e)
      BY <1>1, <2>4 DEF Ends, RunSucceed, RunFail
    <3> QED
      BY <2>2, <3>1
  <2> QED
    BY <1>6, <2>3, <2>4
<1> QED
  BY <1>2, <1>3, <1>4, <1>5, <1>6 DEF Next

\* A deleted row stays deleted for good, and a job that is done or failed stays
\* so unless it has outlived the stale timeout, whatever late workers of other
\* jobs, sweepers, poll loops, kills and stops do.
THEOREM EndsForGood ==
  ASSUME Prompt PROVE Spec => EndedForGood
<1>1. IInv /\ [Next]_vars =>
        [\A j \in born :
           /\ row[j].status = "absent" => row'[j].status = "absent"
           /\ j \in Timely /\ row[j].status \in Ended =>
                 row'[j].status = row[j].status]_vars
  BY EndedStays, GoneStays
<1> QED
  BY <1>1, QueueInvariant, PTL DEF Spec, EndedForGood

-----------------------------------------------------------------------------
(* The refinement of JobPromise.                                            *)

\* What the promise sees of a timely job that a process holds.
LEMMA HolderNow ==
  ASSUME IInv, NEW j \in Timely, NEW p \in Procs, Holds(p, j)
  PROVE  HolderOf(j) = p /\ PhaseOf(j) = "held" /\ j \in born
<1>0. j \in Jobs /\ j \notin late
  BY DEF Timely
<1>1. Held(j) /\ \A q \in Procs : Holds(q, j) => q = p
  BY DEF Held, IInv, OneHolder
<1>2. j \in born
  BY <1>0, <1>1 DEF IInv, HeldIsRunning, RowIsBorn, Exists
<1> QED
  BY <1>0, <1>1, <1>2 DEF HolderOf, PhaseOf

LEMMA HolderNext ==
  ASSUME IInv', NEW j \in Timely', NEW p \in Procs, Holds(p, j)'
  PROVE  HolderOf(j)' = p /\ PhaseOf(j)' = "held"
<1>0. j \in Jobs /\ j \notin late'
  BY DEF Timely
<1>1. Held(j)' /\ \A q \in Procs : Holds(q, j)' => q = p
  BY DEF Held, IInv, OneHolder
<1>2. j \in born'
  BY <1>0, <1>1 DEF IInv, HeldIsRunning, RowIsBorn, Exists
<1> QED
  BY <1>0, <1>1, <1>2 DEF HolderOf, PhaseOf

\* What it sees of a timely job that nobody holds.
LEMMA FreeNow ==
  ASSUME NEW j \in Timely, ~Held(j)
  PROVE  /\ HolderOf(j) = NoJob
         /\ PhaseOf(j) = IF j \notin born THEN "new"
                         ELSE IF row[j].status \in Ended THEN "settled"
                         ELSE "waiting"
BY DEF HolderOf, PhaseOf, Timely

LEMMA FreeNext ==
  ASSUME NEW j \in Timely', ~Held(j)'
  PROVE  /\ HolderOf(j)' = NoJob
         /\ PhaseOf(j)' = IF j \notin born' THEN "new"
                          ELSE IF row'[j].status \in Ended THEN "settled"
                          ELSE "waiting"
BY DEF HolderOf, PhaseOf, Timely

\* An overdue job, and a timely one whose holders stay and whose row ends in no
\* step, looks the same.
LEMMA LooksTheSame ==
  ASSUME IInv, IInv', NEW j \in Jobs, j \in late' <=> j \in late,
         j \in born' <=> j \in born,
         j \in Timely =>
           /\ \A q \in Procs : Holds(q, j)' <=> Holds(q, j)
           /\ ~Held(j) => (row'[j].status \in Ended <=> row[j].status \in Ended)
  PROVE  PhaseOf(j)' = PhaseOf(j) /\ HolderOf(j)' = HolderOf(j)
<1>0. CASE j \in late
  <2>1. j \in born /\ j \in born' /\ j \notin Timely /\ j \notin Timely'
    BY <1>0 DEF IInv, RowIsBorn, Timely
  <2> QED
    BY <1>0, <2>1 DEF PhaseOf, HolderOf
<1> SUFFICES ASSUME j \notin late
             PROVE  PhaseOf(j)' = PhaseOf(j) /\ HolderOf(j)' = HolderOf(j)
  BY <1>0
<1> j \in Timely /\ j \in Timely'
  BY DEF Timely
<1>1. CASE Held(j)
  <2>1. PICK q \in Procs : Holds(q, j)
    BY <1>1 DEF Held
  <2> QED
    BY <2>1, HolderNow, HolderNext
<1>2. CASE ~Held(j)
  <2>1. ~Held(j)'
    BY <1>2 DEF Held
  <2> QED
    BY <1>2, <2>1, FreeNow, FreeNext
<1> QED
  BY <1>1, <1>2

LEMMA Stutters ==
  ASSUME IInv, IInv', born' = born, late' = late,
         \A q \in Procs, k \in Timely : Holds(q, k)' <=> Holds(q, k),
         \A k \in Timely : ~Held(k) => (row'[k].status \in Ended <=> row[k].status \in Ended)
  PROVE  UNCHANGED Promise!vars
<1>1. \A k \in Jobs : PhaseOf(k)' = PhaseOf(k) /\ HolderOf(k)' = HolderOf(k)
  BY LooksTheSame
<1> QED
  BY <1>1 DEF Promise!vars


\* An inserted row is a submitted job.
LEMMA EnqueueMaps ==
  ASSUME IInv, IInv', NEW j \in Jobs, Enqueue(j) PROVE Promise!Submit(j)
<1>1. UNCHANGED <<poll, queued, run, late>>
  BY DEF Enqueue, proc, counters
<1>2. \A q \in Procs, k \in Jobs : Holds(q, k)' <=> Holds(q, k)
  BY <1>1, SameProcs
<1>3. j \notin born /\ row[j].status = "absent" /\ j \in Timely /\ j \in Timely'
  BY <1>1 DEF IInv, Enqueue, RowIsBorn, Exists, TypeOK, Timely
<1>4. ~Held(j) /\ ~Held(j)'
  BY <1>2, <1>3 DEF IInv, HeldIsRunning, Held
<1>5. j \in born' /\ row'[j].status = "enqueued"
  BY DEF Enqueue, Absent, IInv, TypeOK
<1>6. /\ PhaseOf(j) = "new" /\ PhaseOf(j)' = "waiting"
      /\ HolderOf(j)' = HolderOf(j)
  BY <1>3, <1>4, <1>5, FreeNow, FreeNext DEF Ended
<1>7. ASSUME NEW k \in Jobs, k # j
      PROVE  PhaseOf(k)' = PhaseOf(k) /\ HolderOf(k)' = HolderOf(k)
  <2>1. row'[k] = row[k] /\ (k \in born' <=> k \in born)
    BY <1>7 DEF Enqueue, IInv, TypeOK
  <2> QED
    BY <1>1, <1>2, <2>1, LooksTheSame
<1> QED
  BY <1>6, <1>7 DEF Promise!Submit

\* Time changes no status, but lets the promise lapse for a job held too long.
LEMMA ElapsesMaps ==
  ASSUME IInv, IInv', NEW j \in Jobs, Elapses(j)
  PROVE  UNCHANGED Promise!vars \/ Promise!Lapse(j)
<1>1. /\ UNCHANGED <<born, poll, queued, run>>
      /\ late' = late \/ (SlowTimesOut(j) /\ late' = late \cup {j})
  BY DEF Elapses, BackoffElapses, OrphanTimesOut, SlowTimesOut, proc, counters
<1>2. \A q \in Procs, k \in Jobs : Holds(q, k)' <=> Holds(q, k)
  BY <1>1, SameProcs
<1>3. row \in [Jobs -> RowType] /\ Timely \subseteq Jobs
  BY DEF IInv, TypeOK, Timely
<1>4. \/ row' = [row EXCEPT ![j] = [row[j] EXCEPT !.due = TRUE]]
      \/ row' = [row EXCEPT ![j] = [row[j] EXCEPT !.stale = TRUE]]
  BY DEF Elapses, BackoffElapses, OrphanTimesOut, SlowTimesOut
<1>5. ASSUME NEW k \in Jobs PROVE row'[k].status = row[k].status
  <2>1. \/ row'[k] = row[k]
        \/ row'[k] = [row[k] EXCEPT !.due = TRUE]
        \/ row'[k] = [row[k] EXCEPT !.stale = TRUE]
    BY <1>3, <1>4
  <2>2. row[k] \in RowType
    BY <1>3
  <2> QED
    BY <2>1, <2>2 DEF RowType
<1>6. CASE late' = late
  BY <1>1, <1>2, <1>3, <1>5, <1>6, Stutters
<1>7. CASE late' # late
  <2>1. j \in Timely /\ Held(j) /\ late' = late \cup {j} /\ j \in born /\ j \in late'
    BY <1>1, <1>7 DEF Timely, SlowTimesOut, IInv, RowIsBorn, Exists
  <2>2. PhaseOf(j) = "held"
    BY <2>1, HolderNow DEF Held
  <2>3. PhaseOf(j)' = "lapsed" /\ HolderOf(j)' = NoJob
    <3>1. j \in born' /\ j \notin Timely'
      BY <1>1, <2>1 DEF Timely
    <3> QED
      BY <2>1, <3>1 DEF PhaseOf, HolderOf
  <2>4. ASSUME NEW k \in Jobs, k # j
        PROVE  PhaseOf(k)' = PhaseOf(k) /\ HolderOf(k)' = HolderOf(k)
    BY <1>1, <1>2, <1>5, <2>1, <2>4, LooksTheSame
  <2> QED
    BY <2>2, <2>3, <2>4 DEF Promise!Lapse
<1> QED
  BY <1>6, <1>7

\* Selecting a batch, and handing it to the executor, leave everybody's jobs
\* alone; unless a row of the batch is gone, which loses the batch.
LEMMA SelectKeeps ==
  ASSUME IInv, NEW p \in Procs, PollSelect(p)
  PROVE  \A q \in Procs, k \in Jobs : Holds(q, k)' <=> Holds(q, k)
<1>1. UNCHANGED <<row, born, queued, run>> /\ poll[p].at = "idle"
  BY DEF PollSelect, CanTick
<1>2. PICK S \in SUBSET Selectable(p) :
        poll' = [poll EXCEPT ![p] = [at |-> "selected", ids |-> S]]
  BY DEF PollSelect
<1>3. \A q \in Procs, k \in Jobs : Claimed(q, k)' <=> Claimed(q, k)
  BY <1>1, <1>2 DEF Claimed, IInv, TypeOK
<1>4. \A q \in Procs, k \in Jobs : Holds(q, k)' <=> Holds(q, k)
  BY <1>1, <1>3 DEF Holds, Queued, Runs
<1> QED
  BY <1>4

LEMMA SubmitKeeps ==
  ASSUME IInv, NEW p \in Procs, PollSubmit(p)
  PROVE  /\ Missing(poll[p].ids) = {} =>
              \A q \in Procs, k \in Jobs : Holds(q, k)' <=> Holds(q, k)
         /\ \A q \in Procs, k \in Jobs :
              q # p \/ k \notin poll[p].ids => (Holds(q, k)' <=> Holds(q, k))
         /\ Missing(poll[p].ids) # {} =>
              \A k \in Timely : k \in poll[p].ids => Holds(p, k) /\ ~Held(k)'
<1>0. PICK S : S = poll[p].ids
  OBVIOUS
<1>1. /\ S \subseteq Jobs /\ poll[p].at = "claimed"
      /\ \A k \in S : Claimed(p, k) /\ Holds(p, k)
  BY <1>0 DEF PollSubmit, IInv, TypeOK, PollType, Claimed, Holds
<1>2. UNCHANGED <<row, born, run>>
  BY DEF PollSubmit, db
<1>3. /\ Missing(S) = {} => \A k \in S : queued'[p][k] = queued[p][k] + 1
      /\ Missing(S) # {} => queued' = queued
      /\ \A k \in Jobs \ S : queued'[p][k] = queued[p][k]
      /\ \A q \in Procs : q # p => queued'[q] = queued[q]
  <2>1. CASE Missing(S) # {}
    BY <1>0, <2>1 DEF PollSubmit
  <2>2. CASE Missing(S) = {}
    <3>1. queued' = [queued EXCEPT ![p] =
                      [k \in Jobs |-> IF k \in S THEN @[k] + 1 ELSE @[k]]]
      BY <1>0, <2>2 DEF PollSubmit
    <3> QED
      BY <1>1, <2>2, <3>1 DEF IInv, TypeOK
  <2> QED
    BY <2>1, <2>2
<1>4. /\ poll'[p] = NoPoll
      /\ \A q \in Procs : q # p => poll'[q] = poll[q]
  BY DEF PollSubmit, IInv, TypeOK
<1>5. ASSUME NEW k \in S, Missing(S) = {} PROVE Holds(p, k)' <=> Holds(p, k)
  <2>1. queued[p][k] \in Nat
    BY <1>1 DEF IInv, TypeOK
  <2>2. Queued(p, k)'
    BY <1>3, <1>5, <2>1 DEF Queued
  <2> QED
    BY <1>1, <2>2 DEF Holds
<1>6. ASSUME NEW k \in Jobs \ S PROVE Holds(p, k)' <=> Holds(p, k)
  BY <1>0, <1>2, <1>3, <1>4 DEF Holds, Queued, Claimed, Runs, NoPoll
<1>7. ASSUME NEW q \in Procs, q # p, NEW k \in Jobs
      PROVE  Holds(q, k)' <=> Holds(q, k)
  BY <1>2, <1>3, <1>4, <1>7 DEF Holds, Queued, Claimed, Runs
<1>8. ASSUME Missing(S) # {}, NEW k \in Timely, k \in S
      PROVE  Holds(p, k) /\ ~Held(k)'
  <2>1. Alone(p, k) /\ k \in Jobs
    BY <1>1, <1>8 DEF IInv, OneHolder
  <2>2. ~Holds(p, k)'
    BY <1>1, <1>2, <1>3, <1>4, <1>8, <2>1
       DEF Alone, Holds, Queued, Claimed, Runs, NoPoll
  <2>3. \A q \in Procs : q # p => ~Holds(q, k)'
    BY <1>1, <1>7, <1>8, <2>1 DEF IInv, OneHolder
  <2> QED
    BY <1>1, <1>8, <2>2, <2>3 DEF Held
<1> QED
  BY <1>0, <1>5, <1>6, <1>7, <1>8

\* The timely jobs of the batch a poll loop commits are taken at once; selecting
\* it and handing it to the executor change nothing of it, and losing it gives
\* them back.
LEMMA PollsMap ==
  ASSUME Prompt, IInv, IInv', NEW p \in Procs, Polls(p)
  PROVE  \/ UNCHANGED Promise!vars
         \/ \E S \in SUBSET Jobs : Promise!Take(p, S) \/ Promise!GiveBack(p, S)
<1>0. late' = late /\ Timely' = Timely /\ Timely \subseteq Jobs
  BY DEF Polls, PollSelect, PollCommit, PollAborts, PollSubmit, counters, Timely
<1>1. CASE PollSelect(p)
  BY <1>0, <1>1, SelectKeeps, Stutters DEF PollSelect
<1>2. CASE PollCommit(p)
  <2>0. PICK S : S = poll[p].ids \cap Timely
    OBVIOUS
  <2>1. S \subseteq Jobs /\ poll[p].at = "selected" /\ Missing(poll[p].ids) = {}
    BY <1>0, <1>2, <2>0, SelectedExists DEF PollCommit
  <2>2. UNCHANGED <<born, queued, run>>
    BY <1>2 DEF PollCommit
  <2>3. /\ poll'[p].at = "claimed" /\ poll'[p].ids = poll[p].ids
        /\ \A q \in Procs : q # p => poll'[q] = poll[q]
    <3>1. poll[p] \in PollType
      BY DEF IInv, TypeOK
    <3>2. /\ poll'[p] = [poll[p] EXCEPT !.at = "claimed"]
          /\ \A q \in Procs : q # p => poll'[q] = poll[q]
      BY <1>2 DEF PollCommit, IInv, TypeOK
    <3> QED
      BY <3>1, <3>2 DEF PollType
  <2>4. ASSUME NEW k \in S PROVE PhaseOf(k) = "waiting" /\ k \in Jobs
    <3>1. k \in Jobs /\ k \in Timely /\ ~Held(k) /\ row[k].status \in Claimable
      BY <2>0, <2>1 DEF IInv, SelectedIsReserved
    <3>2. k \in born
      BY <3>1 DEF IInv, RowIsBorn, Exists, Claimable
    <3> QED
      BY <3>1, <3>2, FreeNow DEF Claimable, Ended
  <2>5. ASSUME NEW k \in S PROVE PhaseOf(k)' = "held" /\ HolderOf(k)' = p
    <3>1. Holds(p, k)' /\ k \in Timely'
      BY <1>0, <2>0, <2>3 DEF Holds, Claimed
    <3> QED
      BY <3>1, HolderNext
  <2>6. ASSUME NEW k \in Jobs \ S
        PROVE  PhaseOf(k)' = PhaseOf(k) /\ HolderOf(k)' = HolderOf(k)
    <3>1. k \in Timely => row'[k] = row[k]
      BY <1>2, <2>0 DEF PollCommit
    <3>2. k \in Timely => \A q \in Procs : Claimed(q, k)' <=> Claimed(q, k)
      BY <2>0, <2>3 DEF Claimed
    <3>3. k \in Timely => \A q \in Procs : Holds(q, k)' <=> Holds(q, k)
      BY <2>2, <3>2 DEF Holds, Queued, Runs
    <3> QED
      BY <1>0, <2>2, <3>1, <3>3, LooksTheSame
  <2>7. Promise!Take(p, S)
    BY <2>1, <2>4, <2>5, <2>6 DEF Promise!Take
  <2> QED
    BY <2>1, <2>7
<1>3. CASE PollSubmit(p)
  <2>1. CASE Missing(poll[p].ids) = {}
    BY <1>0, <1>3, <2>1, SubmitKeeps, Stutters DEF PollSubmit, db
  <2>2. CASE Missing(poll[p].ids) # {}
    <3>0. PICK S : S = poll[p].ids \cap Timely
      OBVIOUS
    <3>1. UNCHANGED <<row, born>> /\ S \subseteq Jobs /\ S \subseteq Timely'
      BY <1>0, <1>3, <3>0 DEF PollSubmit, db
    <3>2. ASSUME NEW k \in S
          PROVE  HolderOf(k) = p /\ PhaseOf(k)' = "waiting" /\ HolderOf(k)' = NoJob
      <4>1. k \in Timely /\ Holds(p, k) /\ ~Held(k)'
        BY <1>3, <2>2, <3>0, SubmitKeeps
      <4>2. HolderOf(k) = p /\ k \in born /\ row[k].status = "running"
        BY <4>1, HolderNow DEF IInv, HeldIsRunning, Held
      <4> QED
        BY <3>1, <4>1, <4>2, FreeNext DEF Ended
    <3>3. ASSUME NEW k \in Jobs \ S
          PROVE  PhaseOf(k)' = PhaseOf(k) /\ HolderOf(k)' = HolderOf(k)
      <4>1. k \in Timely => \A q \in Procs : Holds(q, k)' <=> Holds(q, k)
        BY <1>3, <3>0, SubmitKeeps
      <4> QED
        BY <1>0, <3>1, <4>1, LooksTheSame
    <3>4. Promise!GiveBack(p, S)
      BY <3>1, <3>2, <3>3 DEF Promise!GiveBack
    <3> QED
      BY <3>1, <3>4
  <2> QED
    BY <2>1, <2>2
<1>4. ~PollAborts(p)
  BY SelectedExists DEF PollAborts
<1> QED
  BY <1>1, <1>2, <1>3, <1>4 DEF Polls

\* The sweeper requeues rows that are nobody's: they wait before and after.
LEMMA SweepsMap ==
  ASSUME IInv, IInv', NEW p \in Procs, Sweeps(p) PROVE UNCHANGED Promise!vars
<1>1. UNCHANGED <<born, poll, queued, run, late>> /\ Timely \subseteq Jobs
  BY DEF Sweeps, SweepRead, SweepCommit, SweepAborts, db, counters, Timely
<1>2. \A q \in Procs, k \in Jobs : Holds(q, k)' <=> Holds(q, k)
  BY <1>1, SameProcs
<1>3. ASSUME NEW k \in Timely
      PROVE  row'[k].status \in Ended <=> row[k].status \in Ended
  <2>0. k \in Jobs
    BY <1>1
  <2>1. CASE SweepCommit(p)
    <3>1. CASE Swept(p, k)
      <4>1. k \notin sweep[p].failing /\ k \in sweep[p].retrying /\ Waits(row[k])
        BY <3>1 DEF IInv, SweptIsIdle, Swept, Waits
      <4>2. row[k].status \notin Ended /\ row[k] \in RowType
        BY <2>0, <4>1 DEF Waits, Ended, IInv, TypeOK
      <4>3. row'[k] = [row[k] EXCEPT !.status = "retrying", !.due = FALSE]
        BY <2>0, <2>1, <4>1, <4>2 DEF SweepCommit, Requeued, Exists, Ended
      <4>4. row'[k].status = "retrying"
        BY <4>2, <4>3 DEF RowType
      <4> QED
        BY <4>2, <4>4 DEF Ended
    <3>2. CASE ~Swept(p, k)
      BY <2>0, <2>1, <3>2 DEF SweepCommit, Swept
    <3> QED
      BY <3>1, <3>2
  <2>2. CASE SweepRead(p) \/ SweepAborts(p)
    BY <2>2 DEF SweepRead, SweepAborts, db
  <2> QED
    BY <2>1, <2>2 DEF Sweeps
<1> QED
  BY <1>1, <1>2, <1>3, Stutters


\* A worker that picks up a work item was the job's only holder; it holds the
\* job from now on, or nobody does.
LEMMA PickUp ==
  ASSUME IInv, NEW p \in Procs, NEW t \in Threads, NEW j \in Jobs,
         RunDrop(p, t, j) \/ RunStart(p, t, j)
  PROVE  /\ Holds(p, j)
         /\ j \in Timely => \A q \in Procs, u \in Threads : ~Runs(q, u, j)
         /\ \A q \in Procs, k \in Jobs :
              q # p \/ k # j => (Holds(q, k)' <=> Holds(q, k))
         /\ RunDrop(p, t, j) /\ j \in Timely => ~Held(j)'
         /\ RunStart(p, t, j) =>
              /\ Holds(p, j)'
              /\ \A q \in Procs, u \in Threads, k \in Jobs :
                   Runs(q, u, k)' <=> (Runs(q, u, k) \/ (q = p /\ u = t /\ k = j))
<1>1. UNCHANGED <<row, born, poll>>
  BY DEF RunDrop, RunStart, db
<1>2. /\ queued[p][j] \in Nat /\ queued[p][j] > 0 /\ run[p][t] = Idle
      /\ queued'[p][j] = queued[p][j] - 1
      /\ \A q \in Procs, k \in Jobs : q # p \/ k # j => queued'[q][k] = queued[q][k]
  <2>1. /\ queued[p][j] > 0 /\ run[p][t] = Idle
        /\ queued' = [queued EXCEPT ![p][j] = @ - 1]
    BY DEF RunDrop, RunStart, Dequeue
  <2> QED
    BY <2>1 DEF IInv, TypeOK
<1>3. /\ Holds(p, j) /\ Queued(p, j)
      /\ j \in Timely => /\ queued'[p][j] = 0 /\ ~Claimed(p, j)
                         /\ \A u \in Threads : ~Runs(p, u, j)
  <2>1. Holds(p, j) /\ Queued(p, j) /\ (j \in Timely => Alone(p, j))
    BY <1>2 DEF Holds, Queued, IInv, OneHolder
  <2> QED
    BY <1>2, <2>1 DEF Alone
<1>4. \A q \in Procs, k \in Jobs : Claimed(q, k)' <=> Claimed(q, k)
  BY <1>1 DEF Claimed
<1>5. j \in Timely => \A q \in Procs : q # p => ~Holds(q, j)
  BY <1>3 DEF IInv, OneHolder
<1>6. j \in Timely => \A q \in Procs, u \in Threads : ~Runs(q, u, j)
  BY <1>3, <1>5 DEF Holds
<1>7. ASSUME RunStart(p, t, j), NEW q \in Procs, NEW u \in Threads, NEW k \in Jobs
      PROVE  Runs(q, u, k)' <=> (Runs(q, u, k) \/ (q = p /\ u = t /\ k = j))
  <2>1. /\ run'[p][t].job = j
        /\ \A r \in Procs, v \in Threads : r # p \/ v # t => run'[r][v] = run[r][v]
    BY <1>7 DEF RunStart, IInv, TypeOK
  <2>2. ~Runs(p, t, k)
    BY <1>2, Constants, JobQueueAssumption DEF Runs
  <2> QED
    BY <2>1, <2>2 DEF Runs
<1>8. RunDrop(p, t, j) => \A q \in Procs, u \in Threads, k \in Jobs : Runs(q, u, k)' <=> Runs(q, u, k)
  BY DEF RunDrop, Runs
<1>9. ASSUME NEW q \in Procs, NEW k \in Jobs, q # p \/ k # j
      PROVE  Holds(q, k)' <=> Holds(q, k)
  <2>1. Queued(q, k)' <=> Queued(q, k)
    BY <1>2, <1>9 DEF Queued
  <2>2. \A u \in Threads : Runs(q, u, k)' <=> Runs(q, u, k)
    BY <1>7, <1>8, <1>9
  <2> QED
    BY <1>4, <2>1, <2>2 DEF Holds
<1>10. ASSUME RunDrop(p, t, j), j \in Timely PROVE ~Held(j)'
  <2>1. ~Holds(p, j)'
    BY <1>3, <1>4, <1>6, <1>8, <1>10 DEF Holds, Queued
  <2> QED
    BY <1>5, <1>9, <1>10, <2>1 DEF Held
<1>11. ASSUME RunStart(p, t, j) PROVE Holds(p, j)'
  BY <1>7, <1>11 DEF Holds
<1> QED
  BY <1>3, <1>6, <1>7, <1>9, <1>10, <1>11

\* A worker that starts a run goes on holding the job; one that drops it gives
\* it back.
LEMMA BeginsMap ==
  ASSUME IInv, IInv', NEW p \in Procs, NEW j \in Jobs, Begins(p, j)
  PROVE  UNCHANGED Promise!vars \/ Promise!GiveBack(p, {j})
<1>1. PICK t \in Threads : RunDrop(p, t, j) \/ RunStart(p, t, j)
  BY DEF Begins
<1>2. /\ UNCHANGED <<row, born, late>>
      /\ Timely' = Timely /\ Timely \subseteq Jobs
  BY <1>1 DEF RunDrop, RunStart, db, counters, Timely
<1>3. CASE RunDrop(p, t, j) /\ j \in Timely
  <2>1. Holds(p, j) /\ ~Held(j)'
    BY <1>3, PickUp
  <2>2. row'[j].status \notin Ended /\ j \in born'
    <3>1. row[j].status = "running"
      BY <1>3, <2>1 DEF IInv, HeldIsRunning, Held
    <3> QED
      BY <1>2, <3>1 DEF Ended, IInv, RowIsBorn, Exists
  <2>3. HolderOf(j) = p /\ PhaseOf(j)' = "waiting" /\ HolderOf(j)' = NoJob
    BY <1>2, <1>3, <2>1, <2>2, HolderNow, FreeNext
  <2>4. ASSUME NEW k \in Jobs, k # j
        PROVE  PhaseOf(k)' = PhaseOf(k) /\ HolderOf(k)' = HolderOf(k)
    <3>1. \A q \in Procs : Holds(q, k)' <=> Holds(q, k)
      BY <1>3, <2>4, PickUp
    <3> QED
      BY <1>2, <3>1, LooksTheSame
  <2> QED
    BY <2>3, <2>4 DEF Promise!GiveBack
<1>4. CASE RunDrop(p, t, j) /\ j \notin Timely
  <2>1. \A q \in Procs, k \in Timely : Holds(q, k)' <=> Holds(q, k)
    BY <1>2, <1>4, PickUp
  <2> QED
    BY <1>2, <2>1, Stutters
<1>5. CASE RunStart(p, t, j)
  <2>1. \A q \in Procs, k \in Jobs : Holds(q, k)' <=> Holds(q, k)
    BY <1>5, PickUp
  <2> QED
    BY <1>2, <2>1, Stutters
<1> QED
  BY <1>1, <1>3, <1>4, <1>5

\* After its run a job is nobody's.
LEMMA EndsFrees ==
  ASSUME IInv, NEW p \in Procs, NEW t \in Threads, Ends(p, t) \/ RunLost(p, t)
  PROVE  /\ UNCHANGED <<born, late, execs>> /\ Timely' = Timely
         /\ \E j \in Jobs :
              /\ run[p][t].job = j /\ Runs(p, t, j) /\ Holds(p, j)
              /\ j \in Timely => ~Held(j)'
              /\ \A k \in Jobs : k # j => row'[k] = row[k]
              /\ \A q \in Procs, k \in Jobs : k # j => (Holds(q, k)' <=> Holds(q, k))
              /\ \A q \in Procs, u \in Threads : run'[q][u] = run[q][u] \/ run'[q][u] = Idle
<1>1. /\ run[p][t] # Idle /\ UNCHANGED <<poll, queued, born, late, execs>>
      /\ run' = [run EXCEPT ![p][t] = Idle]
  BY DEF Ends, RunSucceed, RunFail, RunLost, counters, db
<1>2. PICK j \in Jobs : run[p][t].job = j /\ Runs(p, t, j)
  BY <1>1 DEF Runs, IInv, LoadedIsCurrent
<1>3. \A k \in Jobs : k # j => row'[k] = row[k]
  BY <1>2 DEF Ends, RunSucceed, RunFail, RunLost, db, IInv, TypeOK
<1>4. /\ Holds(p, j)
      /\ j \in Timely => ~Held(j)'
      /\ \A q \in Procs, k \in Jobs : k # j => (Holds(q, k)' <=> Holds(q, k))
      /\ \A q \in Procs, u \in Threads : run'[q][u] = run[q][u] \/ run'[q][u] = Idle
  <2>1. UNCHANGED <<poll, queued>> /\ run' = [run EXCEPT ![p][t] = Idle] /\ Runs(p, t, j)
    BY <1>1, <1>2
  <2> QED
    BY <2>1, ThreadFreed
<1> QED
  BY <1>1, <1>2, <1>3, <1>4 DEF Timely

\* A worker settles its job, or gives it back for a retry.
LEMMA EndsMap ==
  ASSUME IInv, IInv', NEW p \in Procs, NEW t \in Threads, Ends(p, t) \/ RunLost(p, t)
  PROVE  \/ UNCHANGED Promise!vars
         \/ \E j \in Jobs : Promise!Settle(p, j) \/ Promise!GiveBack(p, {j})
<1>1. PICK j \in Jobs :
        /\ run[p][t].job = j /\ Holds(p, j)
        /\ j \in Timely => ~Held(j)'
        /\ \A k \in Jobs : k # j => row'[k] = row[k]
        /\ \A q \in Procs, k \in Jobs : k # j => (Holds(q, k)' <=> Holds(q, k))
  BY EndsFrees
<1>2. born' = born /\ late' = late /\ Timely' = Timely /\ Timely \subseteq Jobs
  BY EndsFrees DEF Timely
<1>3. ASSUME NEW k \in Jobs, k # j
      PROVE  PhaseOf(k)' = PhaseOf(k) /\ HolderOf(k)' = HolderOf(k)
  BY <1>1, <1>2, <1>3, LooksTheSame
<1>4. CASE j \notin Timely
  BY <1>1, <1>2, <1>4, Stutters
<1>5. CASE j \in Timely
  <2>1. j \in born' /\ HolderOf(j) = p
    BY <1>1, <1>2, <1>5, HolderNow
  <2>2. /\ PhaseOf(j)' = IF row'[j].status \in Ended THEN "settled" ELSE "waiting"
        /\ HolderOf(j)' = NoJob
    BY <1>1, <1>2, <1>5, <2>1, FreeNext
  <2>3. CASE row'[j].status \in Ended
    BY <1>3, <2>1, <2>2, <2>3 DEF Promise!Settle
  <2>4. CASE row'[j].status \notin Ended
    BY <1>3, <2>1, <2>2, <2>4 DEF Promise!GiveBack
  <2> QED
    BY <2>3, <2>4
<1> QED
  BY <1>4, <1>5

\* A kill gives back everything the process held; a stop and a start nothing.
LEMMA SwitchesMap ==
  ASSUME IInv, IInv', NEW p \in Procs, Switches(p)
  PROVE  UNCHANGED Promise!vars \/ \E S \in SUBSET Jobs : Promise!GiveBack(p, S)
<1>0. late' = late /\ Timely' = Timely /\ Timely \subseteq Jobs
  BY DEF Switches, Crash, Stop, Stopped, Start, counters, Timely
<1>1. CASE Crash(p)
  <2> DEFINE S == {k \in Timely : Holds(p, k)}
  <2>1. /\ UNCHANGED <<row, born>>
        /\ poll'[p] = NoPoll
        /\ \A k \in Jobs : queued'[p][k] = 0
        /\ \A t \in Threads : run'[p][t] = Idle
        /\ \A q \in Procs : q # p => /\ poll'[q] = poll[q]
                                     /\ queued'[q] = queued[q] /\ run'[q] = run[q]
    BY <1>1 DEF Crash, IInv, TypeOK
  <2>2. \A k \in Jobs : ~Holds(p, k)'
    BY <2>1, Constants, JobQueueAssumption DEF Holds, Claimed, Queued, Runs, NoPoll
  <2>3. \A q \in Procs, k \in Jobs : q # p => (Holds(q, k)' <=> Holds(q, k))
    BY <2>1 DEF Holds, Claimed, Queued, Runs
  <2>4. ASSUME NEW k \in S
        PROVE  HolderOf(k) = p /\ PhaseOf(k)' = "waiting" /\ HolderOf(k)' = NoJob
    <3>1. k \in Jobs /\ k \in Timely /\ Holds(p, k) /\ Held(k)
      BY <1>0 DEF Held
    <3>2. ~Held(k)'
      BY <2>2, <2>3, <3>1 DEF Held, IInv, OneHolder
    <3>3. row'[k].status \notin Ended /\ k \in born'
      <4>1. row[k].status = "running"
        BY <3>1 DEF IInv, HeldIsRunning
      <4> QED
        BY <2>1, <3>1, <4>1, HolderNow DEF Ended
    <3> QED
      BY <1>0, <3>1, <3>2, <3>3, HolderNow, FreeNext
  <2>5. ASSUME NEW k \in Jobs \ S
        PROVE  PhaseOf(k)' = PhaseOf(k) /\ HolderOf(k)' = HolderOf(k)
    <3>1. k \in Timely => \A q \in Procs : Holds(q, k)' <=> Holds(q, k)
      BY <2>2, <2>3
    <3> QED
      BY <1>0, <2>1, <3>1, LooksTheSame
  <2>6. S \subseteq Jobs /\ Promise!GiveBack(p, S)
    BY <1>0, <2>4, <2>5 DEF Promise!GiveBack
  <2> QED
    BY <2>6
<1>2. CASE Stop(p) \/ Stopped(p) \/ Start(p)
  <2>1. UNCHANGED <<row, born, poll, queued, run>>
    BY <1>2 DEF Stop, Stopped, Start, db
  <2> QED
    BY <1>0, <2>1, SameProcs, Stutters
<1> QED
  BY <1>1, <1>2 DEF Switches

LEMMA StartsPromise == Init => Promise!Init
<1> SUFFICES ASSUME Init PROVE Promise!Init
  OBVIOUS
<1>1. \A j \in Jobs : ~Held(j) /\ j \notin born /\ j \in Timely
  BY Constants, JobQueueAssumption
     DEF Init, Held, Holds, Claimed, Queued, Runs, NoPoll, Timely
<1>2. \A j \in Jobs : PhaseOf(j) = "new" /\ HolderOf(j) = NoJob
  BY <1>1, FreeNow
<1> QED
  BY <1>2 DEF Promise!Init

LEMMA StepMaps ==
  Prompt /\ IInv /\ IInv' /\ [Next]_vars => [Promise!Next]_(Promise!vars)
<1> SUFFICES ASSUME Prompt, IInv, IInv', [Next]_vars
             PROVE  Promise!Next \/ UNCHANGED Promise!vars
  OBVIOUS
<1>1. CASE UNCHANGED vars
  <2>1. UNCHANGED <<row, born, poll, queued, run, late>> /\ Timely \subseteq Jobs
    BY <1>1 DEF vars, db, proc, counters, Timely
  <2> QED
    BY <2>1, SameProcs, Stutters
<1>2. ASSUME NEW j \in Jobs, Enqueue(j) \/ Elapses(j)
      PROVE  Promise!Next \/ UNCHANGED Promise!vars
  BY <1>2, EnqueueMaps, ElapsesMaps DEF Promise!Next
<1>3. ASSUME NEW p \in Procs, Polls(p) \/ Sweeps(p) \/ Switches(p)
      PROVE  Promise!Next \/ UNCHANGED Promise!vars
  BY <1>3, PollsMap, SweepsMap, SwitchesMap DEF Promise!Next
<1>4. ASSUME NEW p \in Procs, NEW j \in Jobs, Begins(p, j)
      PROVE  Promise!Next \/ UNCHANGED Promise!vars
  BY <1>4, BeginsMap DEF Promise!Next
<1>5. ASSUME NEW p \in Procs, NEW t \in Threads, Ends(p, t) \/ RunLost(p, t)
      PROVE  Promise!Next \/ UNCHANGED Promise!vars
  BY <1>5, EndsMap DEF Promise!Next
<1> QED
  BY <1>1, <1>2, <1>3, <1>4, <1>5 DEF Next

\* The queue implements the promise: a submitted job waits until one process
\* takes it, which settles it or gives it back, and settled is for good, until
\* the job outlives the stale timeout.
THEOREM QueueKeepsPromise ==
  ASSUME Prompt PROVE Spec => KeepsPromise
<1>1. Prompt /\ IInv /\ IInv' /\ [Next]_vars => [Promise!Next]_(Promise!vars)
  BY StepMaps
<1> QED
  BY <1>1, StartsPromise, QueueInvariant, PTL DEF Spec, KeepsPromise, Promise!Spec


-----------------------------------------------------------------------------
(* Orphans and the attempts column.                                         *)

\* Kills and lost runs are counted one by one, and what was late stays so.
LEMMA KillsCount ==
  ASSUME [Next]_vars
  PROVE  /\ late \subseteq late'
         /\ \/ crashes' = crashes
            \/ /\ crashes' = crashes + 1
               /\ \E p \in Procs : Crash(p) \/ \E t \in Threads : RunLost(p, t)
<1>1. CASE UNCHANGED vars
  BY <1>1 DEF vars, counters
<1>2. ASSUME NEW j \in Jobs, Enqueue(j) \/ Elapses(j)
      PROVE  crashes' = crashes /\ late \subseteq late'
  BY <1>2 DEF Enqueue, Elapses, BackoffElapses, OrphanTimesOut, SlowTimesOut, counters
<1>3. ASSUME NEW p \in Procs, Polls(p) \/ Sweeps(p)
      PROVE  crashes' = crashes /\ late' = late
  BY <1>3 DEF Polls, PollSelect, PollCommit, PollAborts, PollSubmit, Sweeps,
              SweepRead, SweepCommit, SweepAborts, counters
<1>4. ASSUME NEW p \in Procs, Switches(p)
      PROVE  late' = late /\ (crashes' = crashes \/ (crashes' = crashes + 1 /\ Crash(p)))
  <2>1. CASE Crash(p)
    BY <2>1 DEF Crash
  <2>2. CASE Stop(p) \/ Stopped(p) \/ Start(p)
    BY <2>2 DEF Stop, Stopped, Start, counters
  <2> QED
    BY <1>4, <2>1, <2>2 DEF Switches
<1>5. ASSUME NEW p \in Procs, NEW j \in Jobs, Begins(p, j)
      PROVE  crashes' = crashes /\ late' = late
  BY <1>5 DEF Begins, RunDrop, RunStart, counters
<1>6. ASSUME NEW p \in Procs, NEW t \in Threads, Ends(p, t) \/ RunLost(p, t)
      PROVE  /\ late' = late
             /\ crashes' = crashes \/ (crashes' = crashes + 1 /\ RunLost(p, t))
  BY <1>6 DEF Ends, RunSucceed, RunFail, RunLost, counters
<1> QED
  BY <1>1, <1>2, <1>3, <1>4, <1>5, <1>6 DEF Next

\* A step without a kill leaves no RUNNING row behind that nobody works on: a
\* worker drops only jobs whose class does not resolve or whose row is gone,
\* and the row of a held job is there.
LEMMA NoNewOrphans ==
  ASSUME Prompt, Broken = {}, IInv, OrphanOnlyByCrash, [Next]_vars
  PROVE  OrphanOnlyByCrash'
<1> SUFFICES ASSUME crashes' = 0, late' = {}, NEW j \in Jobs, row'[j].status = "running"
             PROVE  Held(j)'
  BY DEF OrphanOnlyByCrash
<1>1. crashes = 0 /\ late = {} /\ Timely = Jobs
  <2>1. (crashes' = crashes \/ crashes' = crashes + 1) /\ late \subseteq late'
    BY KillsCount
  <2> QED
    BY <2>1 DEF IInv, TypeOK, Timely
<1>2. row[j].status = "running" => Held(j)
  BY <1>1 DEF OrphanOnlyByCrash
<1>3. ASSUME row[j].status = "running",
             \A q \in Procs : Holds(q, j)' <=> Holds(q, j)
      PROVE  Held(j)'
  BY <1>2, <1>3 DEF Held
<1>4. CASE UNCHANGED vars
  BY <1>3, <1>4, SameProcs DEF vars, db, proc
<1>5. ASSUME NEW k \in Jobs, Enqueue(k) \/ Elapses(k) PROVE Held(j)'
  <2>1. UNCHANGED <<poll, queued, run>>
    BY <1>5 DEF Enqueue, Elapses, BackoffElapses, OrphanTimesOut, SlowTimesOut, proc
  <2>2. row[j].status = "running"
    <3>1. row[j] \in RowType /\ row \in [Jobs -> RowType]
      BY DEF IInv, TypeOK
    <3>2. CASE Enqueue(k)
      BY <3>1, <3>2 DEF Enqueue, Absent
    <3>3. CASE Elapses(k)
      <4>1. \/ row' = [row EXCEPT ![k] = [row[k] EXCEPT !.due = TRUE]]
            \/ row' = [row EXCEPT ![k] = [row[k] EXCEPT !.stale = TRUE]]
        BY <3>3 DEF Elapses, BackoffElapses, OrphanTimesOut, SlowTimesOut
      <4>2. \/ row'[j] = row[j]
            \/ row'[j] = [row[j] EXCEPT !.due = TRUE]
            \/ row'[j] = [row[j] EXCEPT !.stale = TRUE]
        BY <3>1, <4>1
      <4> QED
        BY <3>1, <4>2 DEF RowType
    <3> QED
      BY <1>5, <3>2, <3>3
  <2> QED
    BY <1>3, <2>1, <2>2, SameProcs
<1>6. ASSUME NEW p \in Procs, Polls(p) PROVE Held(j)'
  <2>1. CASE PollSelect(p)
    BY <1>3, <2>1, SelectKeeps DEF PollSelect
  <2>2. CASE PollSubmit(p)
    <3>1. Missing(poll[p].ids) = {}
      BY <1>1, <2>2, ClaimedExists DEF PollSubmit
    <3> QED
      BY <1>3, <2>2, <3>1, SubmitKeeps DEF PollSubmit, db
  <2>3. CASE PollCommit(p)
    <3>1. /\ poll'[p] = [poll[p] EXCEPT !.at = "claimed"] /\ poll[p] \in PollType
          /\ poll[p].at = "selected"
          /\ \A q \in Procs : q # p => poll'[q] = poll[q]
      BY <2>3 DEF PollCommit, IInv, TypeOK
    <3>2. CASE j \in poll[p].ids
      <4>1. Claimed(p, j)'
        BY <3>1, <3>2 DEF Claimed, PollType
      <4> QED
        BY <4>1 DEF Held, Holds
    <3>3. CASE j \notin poll[p].ids
      <4>1. row'[j] = row[j]
        BY <2>3, <3>3 DEF PollCommit
      <4>2. \A q \in Procs : Claimed(q, j)' <=> Claimed(q, j)
        BY <3>1, <3>3 DEF Claimed, PollType
      <4>3. \A q \in Procs : Holds(q, j)' <=> Holds(q, j)
        BY <2>3, <4>2 DEF PollCommit, Holds, Queued, Runs
      <4> QED
        BY <1>3, <4>1, <4>3
    <3> QED
      BY <3>2, <3>3
  <2>4. ~PollAborts(p)
    BY SelectedExists DEF PollAborts
  <2> QED
    BY <1>6, <2>1, <2>2, <2>3, <2>4 DEF Polls
<1>7. ASSUME NEW p \in Procs, Sweeps(p) PROVE Held(j)'
  <2>1. UNCHANGED <<poll, queued, run>>
    BY <1>7 DEF Sweeps, SweepRead, SweepCommit, SweepAborts, db
  <2>2. row[j].status = "running"
    <3>1. CASE SweepCommit(p)
      <4>1. row[j] \in RowType
        BY DEF IInv, TypeOK
      <4> QED
        BY <3>1, <4>1 DEF SweepCommit, Requeued, RowType
    <3>2. CASE SweepRead(p) \/ SweepAborts(p)
      BY <3>2 DEF SweepRead, SweepAborts, db
    <3> QED
      BY <1>7, <3>1, <3>2 DEF Sweeps
  <2> QED
    BY <1>3, <2>1, <2>2, SameProcs
<1>8. ASSUME NEW p \in Procs, Switches(p) PROVE Held(j)'
  <2>1. ~Crash(p)
    BY <1>1 DEF Crash
  <2>2. UNCHANGED <<row, poll, queued, run>>
    BY <1>8, <2>1 DEF Switches, Stop, Stopped, Start, db
  <2> QED
    BY <1>3, <2>2, SameProcs
<1>9. ASSUME NEW p \in Procs, NEW k \in Jobs, Begins(p, k) PROVE Held(j)'
  <2>1. PICK t \in Threads : RunDrop(p, t, k) \/ RunStart(p, t, k)
    BY <1>9 DEF Begins
  <2>2. Exists(k) /\ row' = row
    <3>1. Holds(p, k)
      BY <2>1, PickUp
    <3> QED
      BY <1>1, <2>1, <3>1 DEF IInv, HeldIsRunning, Held, Exists, RunDrop, RunStart, db
  <2>3. RunStart(p, t, k)
    BY <2>1, <2>2 DEF RunDrop
  <2>4. \A q \in Procs : Holds(q, j)' <=> Holds(q, j)
    BY <2>3, PickUp
  <2> QED
    BY <1>3, <2>2, <2>4
<1>10. ASSUME NEW p \in Procs, NEW t \in Threads, Ends(p, t) \/ RunLost(p, t)
       PROVE  Held(j)'
  <2>0. ~RunLost(p, t)
    BY <1>1 DEF RunLost
  <2>1. PICK k \in Jobs :
          /\ run[p][t].job = k /\ Runs(p, t, k) /\ Holds(p, k)
          /\ \A q \in Procs, i \in Jobs : i # k => (Holds(q, i)' <=> Holds(q, i))
    BY <1>10, EndsFrees
  <2>2. run[p][t] \in RunType /\ row[k] \in RowType /\ row \in [Jobs -> RowType]
    BY DEF IInv, TypeOK
  <2>3. row[k].status = "running" /\ run[p][t].status = "running"
    BY <1>1, <1>10, <2>0, <2>1
       DEF IInv, HeldIsRunning, Held, LoadedIsCurrent, Ends, RunSucceed, RunFail
  <2>4. \A st \in {"done", "failed", "retrying"} :
          Written(row[k], run[p][t], st).status = st
    BY <2>3 DEF Written
  <2>5. /\ \A i \in Jobs : i # k => row'[i] = row[i]
        /\ \/ row'[k] = Succeeded(row[k], run[p][t])
           \/ \E e \in BOOLEAN : row'[k] = Failed(row[k], run[p][t], e)
    BY <1>10, <2>0, <2>1, <2>2 DEF Ends, RunSucceed, RunFail
  <2>6. row'[k].status # "running"
    BY <2>4, <2>5 DEF Succeeded, Failed, Absent
  <2> QED
    BY <1>3, <2>1, <2>5, <2>6
<1> QED
  BY <1>4, <1>5, <1>6, <1>7, <1>8, <1>9, <1>10 DEF Next

\* Only a kill, a lost run or an overdue job leaves a RUNNING row that nobody
\* works on, for jobs whose class resolves.
THEOREM OrphansComeFromKills ==
  ASSUME Prompt, Broken = {} PROVE Spec => []OrphanOnlyByCrash
<1>1. Init => OrphanOnlyByCrash
  BY DEF Init, OrphanOnlyByCrash, Absent
<1>2. IInv /\ OrphanOnlyByCrash /\ [Next]_vars => OrphanOnlyByCrash'
  BY NoNewOrphans
<1> QED
  BY <1>1, <1>2, QueueInvariant, PTL DEF Spec

\* Whether an execution of j is under way.
InARun(j) == \E p \in Procs, t \in Threads : Runs(p, t, j)

\* What AttemptsCounted needs to be inductive: a job that is not born was not
\* executed, and the copy a worker holds does not count its own execution.
Counted(j) ==
    /\ j \notin born => execs[j] = 0
    /\ Exists(j) => row[j].attempts <= execs[j]
    /\ j \in Timely /\ Exists(j) =>
          execs[j] <= row[j].attempts + crashes + IF InARun(j) THEN 1 ELSE 0

RowsCounted == \A j \in Jobs : Counted(j)

RunsCounted ==
    \A p \in Procs, t \in Threads : run[p][t] # Idle =>
        run[p][t].attempts + 1 <= execs[run[p][t].job]

LEMMA CountedCounts ==
  ASSUME RowsCounted PROVE AttemptsCounted
BY DEF RowsCounted, Counted, AttemptsCounted, InARun

\* A step that executes nothing keeps the count.
LEMMA NothingToCount ==
  ASSUME IInv, RowsCounted, crashes' = crashes, execs' = execs,
         late \subseteq late', born \subseteq born',
         NEW j \in Jobs, j \in Timely' => (InARun(j)' <=> InARun(j)),
         \/ row'[j].attempts = row[j].attempts /\ (Exists(j)' => Exists(j))
         \/ row'[j].status = "absent"
  PROVE  Counted(j)'
<1>1. Exists(j)' => row'[j].attempts = row[j].attempts /\ Exists(j)
  BY DEF Exists
<1>2. j \in Timely' => j \in Timely
  BY DEF Timely
<1>3. Counted(j)
  BY DEF RowsCounted
<1> QED
  BY <1>1, <1>2, <1>3 DEF Counted

\* Executions are only added, and a worker that starts one loads a row that does
\* not count it.
LEMMA RunsStayCounted ==
  ASSUME IInv, RowsCounted, RunsCounted, [Next]_vars
  PROVE  RunsCounted'
<1>0. /\ execs \in [Jobs -> Nat] /\ row \in [Jobs -> RowType]
      /\ \A p \in Procs, t \in Threads : run[p][t] # Idle =>
           run[p][t].job \in Jobs /\ run[p][t].attempts \in Nat
      /\ run \in [Procs -> [Threads -> RunType]]
  BY DEF IInv, TypeOK, LoadedIsCurrent, RunType
<1>1. ASSUME execs' = execs,
             \A q \in Procs, u \in Threads : run'[q][u] = run[q][u] \/ run'[q][u] = Idle
      PROVE  RunsCounted'
  BY <1>1 DEF RunsCounted
<1>2. ASSUME NEW p \in Procs, NEW t \in Threads, NEW j \in Jobs, RunStart(p, t, j)
      PROVE  RunsCounted'
  <2>1. /\ run'[p][t].job = j /\ run'[p][t].attempts = row[j].attempts
        /\ \A q \in Procs, u \in Threads : q # p \/ u # t => run'[q][u] = run[q][u]
        /\ execs'[j] = execs[j] + 1
        /\ \A k \in Jobs : k # j => execs'[k] = execs[k]
        /\ Exists(j)
    BY <1>0, <1>2 DEF RunStart
  <2>2. row[j].attempts \in Nat /\ execs[j] \in Nat /\ row[j].attempts <= execs[j]
    BY <1>0, <2>1 DEF RowsCounted, Counted, RowType
  <2>3. ASSUME NEW q \in Procs, NEW u \in Threads, run'[q][u] # Idle
        PROVE  run'[q][u].attempts + 1 <= execs'[run'[q][u].job]
    <3>1. CASE q = p /\ u = t
      BY <2>1, <2>2, <3>1
    <3>2. CASE q # p \/ u # t
      <4>1. run'[q][u] = run[q][u] /\ run[q][u].job \in Jobs /\ run[q][u].attempts \in Nat
        BY <1>0, <2>1, <2>3, <3>2
      <4>2. run[q][u].attempts + 1 <= execs[run[q][u].job]
        BY <2>3, <4>1 DEF RunsCounted
      <4>3. execs'[run[q][u].job] >= execs[run[q][u].job] /\ execs[run[q][u].job] \in Nat
        BY <1>0, <2>1, <2>2, <4>1
      <4>4. execs'[run[q][u].job] \in Nat
        BY <1>0, <2>1, <2>2, <4>1
      <4> QED
        BY <4>1, <4>2, <4>3, <4>4
    <3> QED
      BY <3>1, <3>2
  <2> QED
    BY <2>3 DEF RunsCounted
<1>3. CASE UNCHANGED vars
  BY <1>1, <1>3 DEF vars, proc
<1>4. ASSUME NEW j \in Jobs, Enqueue(j) \/ Elapses(j) PROVE RunsCounted'
  BY <1>1, <1>4 DEF Enqueue, Elapses, BackoffElapses, OrphanTimesOut, SlowTimesOut, proc
<1>5. ASSUME NEW p \in Procs, Polls(p) \/ Sweeps(p) PROVE RunsCounted'
  BY <1>1, <1>5 DEF Polls, PollSelect, PollCommit, PollAborts, PollSubmit, Sweeps,
                    SweepRead, SweepCommit, SweepAborts
<1>6. ASSUME NEW p \in Procs, Switches(p) PROVE RunsCounted'
  <2>1. CASE Crash(p)
    <3>1. /\ execs' = execs
          /\ \A q \in Procs, u \in Threads : run'[q][u] = run[q][u] \/ run'[q][u] = Idle
      BY <1>0, <2>1 DEF Crash
    <3> QED
      BY <1>1, <3>1
  <2>2. CASE Stop(p) \/ Stopped(p) \/ Start(p)
    BY <1>1, <2>2 DEF Stop, Stopped, Start
  <2> QED
    BY <1>6, <2>1, <2>2 DEF Switches
<1>7. ASSUME NEW p \in Procs, NEW j \in Jobs, Begins(p, j) PROVE RunsCounted'
  <2>1. PICK t \in Threads : RunDrop(p, t, j) \/ RunStart(p, t, j)
    BY <1>7 DEF Begins
  <2>2. CASE RunDrop(p, t, j)
    BY <1>1, <2>2 DEF RunDrop
  <2> QED
    BY <1>2, <2>1, <2>2
<1>8. ASSUME NEW p \in Procs, NEW t \in Threads, Ends(p, t) \/ RunLost(p, t)
      PROVE  RunsCounted'
  <2>1. execs' = execs
    BY <1>8, EndsFrees
  <2>2. \A q \in Procs, u \in Threads : run'[q][u] = run[q][u] \/ run'[q][u] = Idle
    BY <1>8, EndsFrees
  <2> QED
    BY <1>1, <2>1, <2>2
<1> QED
  BY <1>3, <1>4, <1>5, <1>6, <1>7, <1>8 DEF Next

LEMMA CountedStays ==
  ASSUME IInv, IInv', RowsCounted, RunsCounted, [Next]_vars
  PROVE  RowsCounted'
<1> SUFFICES ASSUME NEW j \in Jobs PROVE Counted(j)'
  BY DEF RowsCounted
<1>0. /\ row[j].attempts \in Nat /\ execs[j] \in Nat /\ crashes \in Nat
      /\ row[j] \in RowType /\ row \in [Jobs -> RowType] /\ execs \in [Jobs -> Nat]
      /\ Counted(j)
  BY DEF IInv, TypeOK, RowType, RowsCounted
<1>1. CASE UNCHANGED vars
  <2>1. /\ UNCHANGED <<row, born, late, execs, crashes>>
        /\ InARun(j)' <=> InARun(j)
    BY <1>1 DEF vars, db, proc, counters, InARun, Runs
  <2> QED
    BY <2>1, NothingToCount DEF Exists
<1>2. ASSUME NEW k \in Jobs, Enqueue(k) PROVE Counted(j)'
  <2>1. /\ UNCHANGED <<execs, crashes, late>> /\ born' = born \cup {k}
        /\ InARun(j)' <=> InARun(j)
    BY <1>2 DEF Enqueue, proc, counters, InARun, Runs
  <2>2. CASE j = k
    <3>1. execs[j] = 0
      BY <1>0, <1>2, <2>2 DEF Enqueue, Counted
    <3>2. row'[j].attempts = 0
      BY <1>0, <1>2, <2>2 DEF Enqueue, Absent
    <3> QED
      BY <1>0, <2>1, <2>2, <3>1, <3>2 DEF Counted
  <2>3. CASE j # k
    <3>1. row'[j] = row[j]
      BY <1>0, <1>2, <2>3 DEF Enqueue
    <3> QED
      BY <2>1, <3>1, NothingToCount DEF Exists
  <2> QED
    BY <2>2, <2>3
<1>3. ASSUME NEW k \in Jobs, Elapses(k) PROVE Counted(j)'
  <2>1. /\ UNCHANGED <<born, execs, crashes>> /\ late \subseteq late'
        /\ InARun(j)' <=> InARun(j)
    BY <1>3 DEF Elapses, BackoffElapses, OrphanTimesOut, SlowTimesOut, proc,
                counters, InARun, Runs
  <2>2. \/ row' = [row EXCEPT ![k] = [row[k] EXCEPT !.due = TRUE]]
        \/ row' = [row EXCEPT ![k] = [row[k] EXCEPT !.stale = TRUE]]
    BY <1>3 DEF Elapses, BackoffElapses, OrphanTimesOut, SlowTimesOut
  <2>3. \/ row'[j] = row[j]
        \/ row'[j] = [row[j] EXCEPT !.due = TRUE]
        \/ row'[j] = [row[j] EXCEPT !.stale = TRUE]
    BY <1>0, <2>2
  <2>4. row'[j].attempts = row[j].attempts /\ row'[j].status = row[j].status
    BY <1>0, <2>3 DEF RowType
  <2> QED
    BY <2>1, <2>4, NothingToCount DEF Exists
<1>4. ASSUME NEW p \in Procs, Polls(p) \/ Sweeps(p) PROVE Counted(j)'
  <2>1. /\ UNCHANGED <<born, late, execs, crashes>>
        /\ InARun(j)' <=> InARun(j)
    BY <1>4 DEF Polls, PollSelect, PollCommit, PollAborts, PollSubmit, Sweeps,
                SweepRead, SweepCommit, SweepAborts, db, counters, InARun, Runs
  <2>2. row'[j].attempts = row[j].attempts /\ (Exists(j)' => Exists(j))
    <3>1. CASE PollCommit(p)
      BY <1>0, <3>1 DEF PollCommit, Taken, Missing, Exists, RowType
    <3>2. CASE SweepCommit(p)
      BY <1>0, <3>2 DEF SweepCommit, Requeued, Exists, RowType
    <3>3. CASE row' = row
      BY <3>3 DEF Exists
    <3> QED
      BY <1>4, <3>1, <3>2, <3>3 DEF Polls, PollSelect, PollAborts, PollSubmit,
         Sweeps, SweepRead, SweepAborts, db
  <2> QED
    BY <2>1, <2>2, NothingToCount
<1>5. ASSUME NEW p \in Procs, Crash(p) PROVE Counted(j)'
  <2>1. UNCHANGED <<row, born, late, execs>> /\ crashes' = crashes + 1
    BY <1>5 DEF Crash
  <2>2. InARun(j)' => InARun(j)
    <3>1. /\ \A t \in Threads : run'[p][t] = Idle
          /\ \A q \in Procs : q # p => run'[q] = run[q]
      BY <1>5 DEF Crash, IInv, TypeOK
    <3> QED
      BY <3>1, Constants, JobQueueAssumption DEF InARun, Runs
  <2> QED
    BY <1>0, <2>1, <2>2 DEF Counted, Exists, Timely
<1>6. ASSUME NEW p \in Procs, Stop(p) \/ Stopped(p) \/ Start(p) PROVE Counted(j)'
  <2>1. /\ UNCHANGED <<row, born, late, execs, crashes>>
        /\ InARun(j)' <=> InARun(j)
    BY <1>6 DEF Stop, Stopped, Start, db, counters, InARun, Runs
  <2> QED
    BY <2>1, NothingToCount DEF Exists
<1>7. ASSUME NEW p \in Procs, NEW k \in Jobs, NEW t \in Threads, RunDrop(p, t, k)
      PROVE  Counted(j)'
  <2>1. /\ UNCHANGED <<row, born, late, execs, crashes>>
        /\ InARun(j)' <=> InARun(j)
    BY <1>7 DEF RunDrop, db, counters, InARun, Runs
  <2> QED
    BY <2>1, NothingToCount DEF Exists
<1>8. ASSUME NEW p \in Procs, NEW k \in Jobs, NEW t \in Threads, RunStart(p, t, k)
      PROVE  Counted(j)'
  <2>1. /\ UNCHANGED <<row, born, late, crashes>>
        /\ execs'[k] = execs[k] + 1
        /\ j # k => execs'[j] = execs[j]
        /\ Exists(k)
    BY <1>0, <1>8 DEF RunStart, db, counters
  <2>2. /\ k \in Timely => \A q \in Procs, u \in Threads : ~Runs(q, u, k)
        /\ \A q \in Procs, u \in Threads, i \in Jobs :
             Runs(q, u, i)' <=> (Runs(q, u, i) \/ (q = p /\ u = t /\ i = k))
    BY <1>8, PickUp
  <2>3. CASE j = k
    <3>1. InARun(j)' /\ (j \in Timely => ~InARun(j))
      BY <2>2, <2>3 DEF InARun
    <3>2. j \in born
      BY <2>1, <2>3 DEF IInv, RowIsBorn
    <3> QED
      BY <1>0, <2>1, <2>3, <3>1, <3>2 DEF Counted, Exists, Timely
  <2>4. CASE j # k
    <3>1. InARun(j)' <=> InARun(j)
      BY <2>2, <2>4 DEF InARun
    <3> QED
      BY <1>0, <2>1, <2>4, <3>1 DEF Counted, Exists, Timely
  <2> QED
    BY <2>3, <2>4
<1>9. ASSUME NEW p \in Procs, NEW t \in Threads, Ends(p, t) \/ RunLost(p, t)
      PROVE  Counted(j)'
  <2>1. UNCHANGED <<born, late, execs>> /\ Timely' = Timely
    BY <1>9, EndsFrees
  <2>2. PICK k \in Jobs :
          /\ run[p][t].job = k /\ Runs(p, t, k) /\ Holds(p, k)
          /\ k \in Timely => ~Held(k)'
          /\ \A i \in Jobs : i # k => row'[i] = row[i]
          /\ \A q \in Procs, i \in Jobs : i # k => (Holds(q, i)' <=> Holds(q, i))
          /\ \A q \in Procs, u \in Threads : run'[q][u] = run[q][u] \/ run'[q][u] = Idle
    BY <1>9, EndsFrees
  <2>3. crashes' \in {crashes, crashes + 1} /\ (RunLost(p, t) => crashes' = crashes + 1)
    BY <1>9 DEF Ends, RunSucceed, RunFail, RunLost, counters
  <2>4. InARun(j)' => InARun(j)
    BY <2>2, Constants, JobQueueAssumption DEF InARun, Runs
  <2>5. CASE j # k
    <3>1. InARun(j) => InARun(j)'
      <4>1. run' = [run EXCEPT ![p][t] = Idle]
        BY <1>9 DEF Ends, RunSucceed, RunFail, RunLost
      <4>2. \A q \in Procs, u \in Threads : q # p \/ u # t => run'[q][u] = run[q][u]
        BY <4>1 DEF IInv, TypeOK
      <4> QED
        BY <2>2, <2>5, <4>2 DEF InARun, Runs
    <3> QED
      BY <1>0, <2>1, <2>2, <2>3, <2>4, <2>5, <3>1 DEF Counted, Exists
  <2>6. CASE j = k
    <3>1. InARun(j) /\ (j \in Timely => ~InARun(j)')
      BY <2>2, <2>6 DEF InARun, Held, Holds
    <3>2. run[p][t] # Idle
      BY <1>9 DEF Ends, RunSucceed, RunFail, RunLost
    <3>3. run[p][t].attempts \in Nat /\ run[p][t].attempts + 1 <= execs[j]
      BY <1>0, <2>2, <2>6, <3>2 DEF RunsCounted, IInv, TypeOK, RunType
    <3>4. j \in Timely => run[p][t].attempts = row[j].attempts
      BY <2>2, <2>6, <3>2 DEF IInv, LoadedIsCurrent
    <3>5. CASE RunLost(p, t)
      <4>1. row'[j] = row[j]
        BY <3>5 DEF RunLost, db
      <4> QED
        BY <1>0, <2>1, <2>3, <3>1, <3>5, <4>1 DEF Counted, Exists
    <3>6. CASE Ends(p, t)
      <4>1. /\ crashes' = crashes
            /\ \/ row'[j] = Succeeded(row[j], run[p][t])
               \/ \E e \in BOOLEAN : row'[j] = Failed(row[j], run[p][t], e)
        BY <1>0, <2>2, <2>6, <3>6 DEF Ends, RunSucceed, RunFail, counters
      <4>2. \A st : /\ row[j].status = "absent" => Written(row[j], run[p][t], st).status = "absent"
                    /\ row[j].status # "absent" =>
                         Written(row[j], run[p][t], st).attempts = run[p][t].attempts + 1
        BY DEF Written
      <4>3. \/ row'[j].status = "absent"
            \/ row[j].status # "absent" /\ row'[j].attempts = run[p][t].attempts + 1
        BY <4>1, <4>2 DEF Succeeded, Failed, Absent
      <4> QED
        BY <1>0, <2>1, <3>1, <3>3, <3>4, <4>1, <4>3 DEF Counted, Exists
    <3> QED
      BY <1>9, <3>5, <3>6
  <2> QED
    BY <2>5, <2>6
<1>10. ASSUME NEW p \in Procs, Switches(p) PROVE Counted(j)'
  BY <1>5, <1>6, <1>10 DEF Switches
<1>11. ASSUME NEW p \in Procs, NEW k \in Jobs, Begins(p, k) PROVE Counted(j)'
  BY <1>7, <1>8, <1>11 DEF Begins
<1> QED
  BY <1>1, <1>2, <1>3, <1>4, <1>9, <1>10, <1>11 DEF Next

\* The attempts column counts executions that started, and of a timely job all
\* that ended: an execution that is neither counted nor under way was cut short
\* by a kill, or lost.
THEOREM ColumnCounts ==
  ASSUME Prompt PROVE Spec => []AttemptsCounted
<1>1. Init => RowsCounted /\ RunsCounted
  BY DEF Init, RowsCounted, Counted, RunsCounted, Exists, Absent
<1>2. IInv /\ IInv' /\ RowsCounted /\ RunsCounted /\ [Next]_vars
        => RowsCounted' /\ RunsCounted'
  BY CountedStays, RunsStayCounted
<1>3. RowsCounted => AttemptsCounted
  BY CountedCounts
<1> QED
  BY <1>1, <1>2, <1>3, QueueInvariant, PTL DEF Spec
=============================================================================
