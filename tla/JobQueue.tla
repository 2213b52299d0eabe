------------------------------ MODULE JobQueue ------------------------------
(***************************************************************************)
(* The database job queue: lib.jobs.adapters.db_adapter.DBAdapter.          *)
(*                                                                         *)
(* Several processes run one DBAdapter each over the same job_queues table. *)
(* In a process one scheduler thread alternates the poll loop and the stale *)
(* sweeper, and a pool of worker threads runs the claimed jobs from an      *)
(* in-memory work queue.  A worker keeps the row it loaded for the whole    *)
(* run and writes it back at the end, from memory.                          *)
(*                                                                         *)
(* Time is abstracted to two facts about a row: `due` (scheduled_at is      *)
(* past) and `stale` (started_at is more than STALE_RUNNING_TIMEOUT ago).   *)
(* The work queue is a bag: the order of its items is left out.             *)
(***************************************************************************)
EXTENDS Naturals, FiniteSets

CONSTANTS
    NoJob,          \* stands for no job
    Jobs,           \* ids of job_queues rows
    Procs,          \* processes, each with a started DBAdapter
    Threads,        \* worker threads of one process (also the claim limit)
    MaxAttempts,    \* max_attempts of the job classes
    Priority,       \* Priority[j]: a higher number is claimed first
    Serves,         \* Serves[p]: the jobs whose queue process p polls
    Keeps,          \* jobs whose class has discard_on_success = False
    Picky,          \* jobs whose class has a retry_on narrower than Exception
    Broken,         \* jobs whose class does not resolve or whose shims raise
    SkipLocked,     \* the database has SELECT ... FOR UPDATE SKIP LOCKED
    SlowSweeps,     \* a sweep transaction may outlast a retry's backoff
    MaxSlow,        \* bound: how often a job in good hands turns stale
    MaxCrashes,     \* bound: how often a process is killed or a run is lost
    MaxStops        \* bound: how often a process is stopped gracefully

ASSUME JobQueueAssumption ==
    /\ NoJob \notin Jobs
    /\ IsFiniteSet(Jobs) /\ IsFiniteSet(Threads) /\ Threads # {}
    /\ MaxAttempts \in Nat \ {0}
    /\ Priority \in [Jobs -> Nat]
    /\ Serves \in [Procs -> SUBSET Jobs]
    /\ Keeps \subseteq Jobs /\ Picky \subseteq Jobs /\ Broken \subseteq Jobs
    /\ SkipLocked \in BOOLEAN /\ SlowSweeps \in BOOLEAN
    /\ MaxSlow \in Nat /\ MaxCrashes \in Nat /\ MaxStops \in Nat

VARIABLES
    row,        \* row[j]: the committed row, or Absent
    born,       \* ids that were inserted so far (ids are never reused)
    locked,     \* rows locked by an open transaction
    poll,       \* poll[p]: where _poll_and_dispatch is, and its batch
    queued,     \* queued[p][j]: work items for j waiting in p's executor
    run,        \* run[p][t]: the row a worker thread loaded, or Idle
    sweep,      \* sweep[p]: where _sweep_stale is, and its verdicts
    mode,       \* mode[p]: "up", "stopping" or "down"
    slow,       \* timeouts that elapsed on a job in good hands, so far
    late,       \* the jobs on which they elapsed (history)
    crashes,    \* processes killed, and runs lost without a commit, so far
    stops,      \* graceful stops so far
    execs       \* execs[j]: executions started so far (history)

db == <<row, born, locked>>
proc == <<poll, queued, run, sweep, mode>>
counters == <<slow, late, crashes, stops>>
vars == <<db, proc, counters, execs>>

-----------------------------------------------------------------------------
Status == {"absent", "pending", "enqueued", "running", "done", "failed",
           "retrying"}
\* Mutants: what Claimable is when the poll loop forgets, or overdoes, retries.
ClaimableOnce == {"enqueued"}
ClaimableAgain == {"enqueued", "retrying", "failed"}

Claimable == {"enqueued", "retrying"}
Ended == {"absent", "done", "failed"}

RowType == [status : Status, attempts : Nat, due : BOOLEAN, stale : BOOLEAN]
RunType == [job : Jobs \cup {NoJob}, attempts : Nat, status : Status]
PollType == [at : {"idle", "selected", "claimed"}, ids : SUBSET Jobs]
SweepType == [at : {"idle", "read"}, failing : SUBSET Jobs,
              retrying : SUBSET Jobs]

Absent == [status |-> "absent", attempts |-> 0, due |-> FALSE,
           stale |-> FALSE]

Idle == [job |-> NoJob, attempts |-> 0, status |-> "absent"]
NoPoll == [at |-> "idle", ids |-> {}]
NoSweep == [at |-> "idle", failing |-> {}, retrying |-> {}]

Exists(j) == row[j].status # "absent"
Missing(S) == {j \in S : ~Exists(j)}

\* Process p has claimed j and has not let go of it.
Claimed(p, j) == poll[p].at = "claimed" /\ j \in poll[p].ids
Queued(p, j) == queued[p][j] > 0
Runs(p, t, j) == run[p][t].job = j
Holds(p, j) == Claimed(p, j) \/ Queued(p, j) \/ \E t \in Threads : Runs(p, t, j)
Held(j) == \E p \in Procs : Holds(p, j)
Swept(p, j) == j \in sweep[p].failing \cup sweep[p].retrying

Init ==
    /\ row = [j \in Jobs |-> Absent]
    /\ born = {}
    /\ locked = {}
    /\ poll = [p \in Procs |-> NoPoll]
    /\ queued = [p \in Procs |-> [j \in Jobs |-> 0]]
    /\ run = [p \in Procs |-> [t \in Threads |-> Idle]]
    /\ sweep = [p \in Procs |-> NoSweep]
    /\ mode = [p \in Procs |-> "up"]
    /\ slow = 0 /\ late = {} /\ crashes = 0 /\ stops = 0
    /\ execs = [j \in Jobs |-> 0]

-----------------------------------------------------------------------------
(* Enqueue: the adapter's own session inserts the row ENQUEUED and commits. *)
(* due is FALSE when the caller passed wait or wait_until.                  *)
Enqueue(j) ==
    /\ j \notin born
    /\ born' = born \cup {j}
    /\ \E due \in BOOLEAN :
         row' = [row EXCEPT ![j] = [Absent EXCEPT !.status = "enqueued",
                                                  !.due = due]]
    /\ UNCHANGED <<locked, proc, counters, execs>>

-----------------------------------------------------------------------------
(* The poll loop.  The scheduler has one thread: a process polls or sweeps. *)
CanTick(p) == mode[p] = "up" /\ poll[p].at = "idle" /\ sweep[p].at = "idle"

\* Mutant: FOR UPDATE without SKIP LOCKED.
SelectableThoughLocked(p) ==
    {j \in Serves[p] : row[j].status \in Claimable /\ row[j].due}

Selectable(p) ==
    {j \in Serves[p] : /\ row[j].status \in Claimable
                       /\ row[j].due
                       /\ SkipLocked => j \notin locked}

\* S is a legal result of ORDER BY priority DESC ... LIMIT workers over E.
Highest(S, E) ==
    /\ S \subseteq E
    /\ \/ Cardinality(S) = Cardinality(Threads)
       \/ Cardinality(S) < Cardinality(Threads) /\ S = E
    /\ \A j \in S, k \in E \ S : Priority[j] >= Priority[k]

PollSelect(p) ==
    /\ CanTick(p)
    /\ \E S \in SUBSET Selectable(p) \ {{}} :
         /\ Highest(S, Selectable(p))
         /\ poll' = [poll EXCEPT ![p] = [at |-> "selected", ids |-> S]]
         /\ locked' = IF SkipLocked THEN locked \cup S ELSE locked
    /\ UNCHANGED <<row, born, queued, run, sweep, mode, counters, execs>>

Unlocked(p) == IF SkipLocked THEN locked \ poll[p].ids ELSE locked
Writable(S) == S \cap locked = {}

\* An UPDATE that misses one of its rows raises StaleDataError; in a batch of
\* several rows only drivers that count them notice.
Unnoticed(S) == Missing(S) = {} \/ Cardinality(S) > 1

Taken(r) == [r EXCEPT !.status = "running", !.stale = FALSE]

PollCommit(p) ==
    /\ poll[p].at = "selected"
    /\ SkipLocked \/ Writable(poll[p].ids)
    /\ Unnoticed(poll[p].ids)
    /\ row' = [j \in Jobs |->
                IF j \in poll[p].ids \ Missing(poll[p].ids)
                THEN Taken(row[j])
                ELSE row[j]]
    /\ poll' = [poll EXCEPT ![p].at = "claimed"]
    /\ locked' = Unlocked(p)
    /\ UNCHANGED <<born, queued, run, sweep, mode, counters, execs>>

PollAborts(p) ==
    /\ poll[p].at = "selected"
    /\ Missing(poll[p].ids) # {}
    /\ poll' = [poll EXCEPT ![p] = NoPoll]
    /\ locked' = Unlocked(p)
    /\ UNCHANGED <<row, born, queued, run, sweep, mode, counters, execs>>

\* Mutant: a stopping process no longer submits what it has claimed.
PollSubmitUnlessStopping(p) ==
    /\ poll[p].at = "claimed"
    /\ queued' = IF mode[p] = "stopping" THEN queued
                 ELSE [queued EXCEPT ![p] =
                        [j \in Jobs |-> IF j \in poll[p].ids
                                        THEN @[j] + 1 ELSE @[j]]]
    /\ poll' = [poll EXCEPT ![p] = NoPoll]
    /\ UNCHANGED <<db, run, sweep, mode, counters, execs>>

\* Reading r.id after the commit reloads each row: a row deleted meanwhile
\* raises, and then nothing of the batch reaches the executor.
PollSubmit(p) ==
    /\ poll[p].at = "claimed"
    /\ queued' = IF Missing(poll[p].ids) # {} THEN queued
                 ELSE [queued EXCEPT ![p] =
                        [j \in Jobs |-> IF j \in poll[p].ids
                                        THEN @[j] + 1 ELSE @[j]]]
    /\ poll' = [poll EXCEPT ![p] = NoPoll]
    /\ UNCHANGED <<db, run, sweep, mode, counters, execs>>

-----------------------------------------------------------------------------
(* The workers: _run_job.                                                   *)
\* Mutant: a worker does not wait for a work item.
DequeueBlind(p, j) ==
    /\ queued' = [queued EXCEPT ![p][j] = @ - 1]

Dequeue(p, j) ==
    /\ queued[p][j] > 0
    /\ queued' = [queued EXCEPT ![p][j] = @ - 1]

\* The row is gone, its class does not resolve or a shim raises: the run ends
\* and the row stays as it is.
RunDrop(p, t, j) ==
    /\ run[p][t] = Idle
    /\ Dequeue(p, j)
    /\ ~Exists(j) \/ j \in Broken
    /\ UNCHANGED <<db, poll, run, sweep, mode, counters, execs>>

\* The worker loads the row, whatever its status, and starts execute().
RunStart(p, t, j) ==
    /\ run[p][t] = Idle
    /\ Dequeue(p, j)
    /\ Exists(j) /\ j \notin Broken
    /\ run' = [run EXCEPT ![p][t] = [job |-> j, attempts |-> row[j].attempts,
                                     status |-> row[j].status]]
    /\ execs' = [execs EXCEPT ![j] = @ + 1]
    /\ UNCHANGED <<db, poll, sweep, mode, counters>>

\* Mutant: the attempt is not counted.
WrittenUncounted(r, c, st) ==
    IF r.status = "absent" THEN r
    ELSE [r EXCEPT !.status = IF st = c.status THEN @ ELSE st,
                   !.due = @ /\ st # "retrying"]

\* The row after the UPDATE of a run that loaded it as c and ends it as st:
\* attempts comes from memory, and an attribute set to the value that was
\* loaded is not written.  An UPDATE of a deleted row raises: nothing changes.
Written(r, c, st) ==
    IF r.status = "absent" THEN r
    ELSE [status |-> IF st = c.status THEN r.status ELSE st,
          attempts |-> c.attempts + 1,
          due |-> r.due /\ st # "retrying",
          stale |-> r.stale]

\* What the row becomes when execute() returns.
Succeeded(r, c) ==
    IF c.job \in Keeps THEN Written(r, c, "done") ELSE Absent

\* Mutant: one retry too many.
FailedOnceMore(r, c, eligible) ==
    IF eligible /\ c.attempts < MaxAttempts
    THEN Written(r, c, "retrying")
    ELSE Written(r, c, "failed")

\* What the row becomes when execute() raises.
Failed(r, c, eligible) ==
    IF eligible /\ c.attempts + 1 < MaxAttempts
    THEN Written(r, c, "retrying")
    ELSE Written(r, c, "failed")

RunSucceed(p, t) ==
    /\ run[p][t] # Idle
    /\ Writable({run[p][t].job})
    /\ row' = [row EXCEPT ![run[p][t].job] = Succeeded(@, run[p][t])]
    /\ run' = [run EXCEPT ![p][t] = Idle]
    /\ UNCHANGED <<born, locked, poll, queued, sweep, mode, counters, execs>>

RunFail(p, t) ==
    /\ run[p][t] # Idle
    /\ Writable({run[p][t].job})
    /\ \E eligible \in {TRUE} \cup {b \in BOOLEAN : run[p][t].job \in Picky} :
         row' = [row EXCEPT ![run[p][t].job] = Failed(@, run[p][t], eligible)]
    /\ run' = [run EXCEPT ![p][t] = Idle]
    /\ UNCHANGED <<born, locked, poll, queued, sweep, mode, counters, execs>>

\* perform() raised what `except Exception` lets through, or the final commit
\* failed: the worker is free again and the row stays RUNNING.
RunLost(p, t) ==
    /\ crashes < MaxCrashes
    /\ run[p][t] # Idle
    /\ crashes' = crashes + 1
    /\ run' = [run EXCEPT ![p][t] = Idle]
    /\ UNCHANGED <<db, poll, queued, sweep, mode, slow, late, stops, execs>>

-----------------------------------------------------------------------------
(* The stale sweeper: a plain SELECT, then one commit for all its verdicts. *)
\* Mutant: the sweeper ignores started_at.
StaleOfAnyAge == {j \in Jobs : row[j].status = "running"}

Stale == {j \in Jobs : row[j].status = "running" /\ row[j].stale}

SweepRead(p) ==
    /\ CanTick(p)
    /\ Stale # {}
    /\ sweep' = [sweep EXCEPT ![p] =
         [at |-> "read",
          failing |-> {j \in Stale : row[j].attempts >= MaxAttempts},
          retrying |-> {j \in Stale : row[j].attempts < MaxAttempts}]]
    /\ UNCHANGED <<db, poll, queued, run, mode, counters, execs>>

SweepSet(p) == sweep[p].failing \cup sweep[p].retrying

Requeued(r) == [r EXCEPT !.status = "retrying", !.due = FALSE]

SweepCommit(p) ==
    /\ sweep[p].at = "read"
    /\ Writable(SweepSet(p))
    /\ Unnoticed(SweepSet(p))
    /\ row' = [j \in Jobs |->
         IF ~Exists(j) THEN row[j]
         ELSE IF j \in sweep[p].failing
              THEN [row[j] EXCEPT !.status = "failed"]
         ELSE IF j \in sweep[p].retrying
              THEN Requeued(row[j])
         ELSE row[j]]
    /\ sweep' = [sweep EXCEPT ![p] = NoSweep]
    /\ UNCHANGED <<born, locked, poll, queued, run, mode, counters, execs>>

SweepAborts(p) ==
    /\ sweep[p].at = "read"
    /\ Missing(SweepSet(p)) # {}
    /\ sweep' = [sweep EXCEPT ![p] = NoSweep]
    /\ UNCHANGED <<db, poll, queued, run, mode, counters, execs>>

-----------------------------------------------------------------------------
(* Time.  scheduled_at passes; a RUNNING row's started_at gets too old.     *)
BackoffElapses(j) ==
    /\ row[j].status \in Claimable \cup {"pending"}
    /\ ~row[j].due
    /\ SlowSweeps \/ \A p \in Procs : ~Swept(p, j)
    /\ row' = [row EXCEPT ![j].due = TRUE]
    /\ UNCHANGED <<born, locked, proc, counters, execs>>

\* Nobody works on the row: its process was killed, or dropped the run.
OrphanTimesOut(j) ==
    /\ row[j].status = "running" /\ ~row[j].stale
    /\ ~Held(j)
    /\ row' = [row EXCEPT ![j].stale = TRUE]
    /\ UNCHANGED <<born, locked, proc, counters, execs>>

\* The job waits in the executor, or runs, for longer than the timeout.
SlowTimesOut(j) ==
    /\ slow < MaxSlow
    /\ row[j].status = "running" /\ ~row[j].stale
    /\ Held(j)
    /\ row' = [row EXCEPT ![j].stale = TRUE]
    /\ slow' = slow + 1
    /\ late' = late \cup {j}
    /\ UNCHANGED <<born, locked, proc, crashes, stops, execs>>

-----------------------------------------------------------------------------
(* Processes: kill, graceful stop, start.                                   *)
Crash(p) ==
    /\ crashes < MaxCrashes
    /\ mode[p] # "down"
    /\ crashes' = crashes + 1
    /\ mode' = [mode EXCEPT ![p] = "down"]
    /\ locked' = IF poll[p].at = "selected" THEN Unlocked(p) ELSE locked
    /\ poll' = [poll EXCEPT ![p] = NoPoll]
    /\ queued' = [queued EXCEPT ![p] = [j \in Jobs |-> 0]]
    /\ run' = [run EXCEPT ![p] = [t \in Threads |-> Idle]]
    /\ sweep' = [sweep EXCEPT ![p] = NoSweep]
    /\ UNCHANGED <<row, born, slow, late, stops, execs>>

Stop(p) ==
    /\ stops < MaxStops
    /\ mode[p] = "up"
    /\ stops' = stops + 1
    /\ mode' = [mode EXCEPT ![p] = "stopping"]
    /\ UNCHANGED <<db, poll, queued, run, sweep, slow, late, crashes, execs>>

\* shutdown(wait=True) of the scheduler, then of the executor, whose queued
\* items still run.
Drained(p) ==
    /\ poll[p].at = "idle" /\ sweep[p].at = "idle"
    /\ \A j \in Jobs : queued[p][j] = 0
    /\ \A t \in Threads : run[p][t] = Idle

Stopped(p) ==
    /\ mode[p] = "stopping"
    /\ Drained(p)
    /\ mode' = [mode EXCEPT ![p] = "down"]
    /\ UNCHANGED <<db, poll, queued, run, sweep, counters, execs>>

Start(p) ==
    /\ mode[p] = "down"
    /\ mode' = [mode EXCEPT ![p] = "up"]
    /\ UNCHANGED <<db, poll, queued, run, sweep, counters, execs>>

-----------------------------------------------------------------------------
Polls(p) == PollSelect(p) \/ PollCommit(p) \/ PollAborts(p) \/ PollSubmit(p)
Sweeps(p) == SweepRead(p) \/ SweepCommit(p) \/ SweepAborts(p)
Begins(p, j) == \E t \in Threads : RunDrop(p, t, j) \/ RunStart(p, t, j)
Ends(p, t) == RunSucceed(p, t) \/ RunFail(p, t)
Switches(p) == Crash(p) \/ Stop(p) \/ Stopped(p) \/ Start(p)
Elapses(j) == BackoffElapses(j) \/ OrphanTimesOut(j) \/ SlowTimesOut(j)

Next ==
    \/ \E j \in Jobs : Enqueue(j) \/ Elapses(j)
    \/ \E p \in Procs : Polls(p) \/ Sweeps(p) \/ Switches(p)
    \/ \E p \in Procs, j \in Jobs : Begins(p, j)
    \/ \E p \in Procs, t \in Threads : Ends(p, t) \/ RunLost(p, t)

Spec == Init /\ [][Next]_vars

\* APScheduler keeps ticking, a perform() returns or raises, time passes, and
\* a process that is down is started again.
Fairness ==
    /\ \A p \in Procs : /\ WF_vars(Polls(p))
                        /\ WF_vars(Sweeps(p))
                        /\ WF_vars(Stopped(p)) /\ WF_vars(Start(p))
    /\ \A p \in Procs, j \in Jobs : WF_vars(Begins(p, j))
    /\ \A p \in Procs, t \in Threads : WF_vars(Ends(p, t))
    /\ \A j \in Jobs : WF_vars(BackoffElapses(j)) /\ WF_vars(OrphanTimesOut(j))

FairSpec == Spec /\ Fairness
-----------------------------------------------------------------------------
(* Properties.                                                              *)

\* Every variable keeps its type: rows, batches, work items, loaded rows,
\* verdicts of the sweeper and the modes of the processes.
TypeOK ==
    /\ row \in [Jobs -> RowType]
    /\ born \subseteq Jobs /\ locked \subseteq Jobs
    /\ poll \in [Procs -> PollType]
    /\ queued \in [Procs -> [Jobs -> Nat]]
    /\ run \in [Procs -> [Threads -> RunType]]
    /\ sweep \in [Procs -> SweepType]
    /\ mode \in [Procs -> {"up", "stopping", "down"}]
    /\ slow \in Nat /\ late \subseteq Jobs /\ crashes \in Nat /\ stops \in Nat
    /\ execs \in [Jobs -> Nat]

\* The jobs that never waited in an executor, or ran, for longer than the stale
\* timeout.  An overdue job has two workers, and only it suffers from that.
Timely == Jobs \ late

\* Within a process a job is in one place: the batch just claimed, one work
\* item, or one worker thread.
Alone(p, j) ==
    /\ queued[p][j] <= 1
    /\ Claimed(p, j) => ~Queued(p, j)
    /\ \A t \in Threads : Runs(p, t, j) => ~Claimed(p, j) /\ ~Queued(p, j)
    /\ \A t, u \in Threads : Runs(p, t, j) /\ Runs(p, u, j) => t = u

\* "Two workers can never receive the same job": at any time at most one
\* process, and in it one thread, is responsible for a job, unless the job has
\* outlived the stale timeout.
OneHolder ==
    \A j \in Timely :
        /\ \A p, q \in Procs : Holds(p, j) /\ Holds(q, j) => p = q
        /\ \A p \in Procs : Alone(p, j)

\* A timely job somebody works on is a fresh RUNNING row, so neither the poll
\* loop nor the sweeper hands it to anybody else.
HeldIsRunning ==
    \A j \in Timely : Held(j) => row[j].status = "running" /\ ~row[j].stale

\* Only a kill, or a run that is lost without its commit, leaves a RUNNING row
\* that nobody works on: neither a graceful stop, nor a race of poll loop,
\* sweeper and workers does.  (An overdue job that a late worker deletes takes
\* the rest of the batch it was claimed with along.)
OrphanOnlyByCrash ==
    crashes = 0 /\ late = {} =>
        \A j \in Jobs : row[j].status = "running" => Held(j)

\* A timely job that may still run has attempts left, so no run is its fourth
\* of three.
BudgetLeft ==
    \A j \in Timely :
        row[j].status \notin Ended => row[j].attempts < MaxAttempts

\* The attempts column never counts an execution that did not start; and of a
\* timely job every execution that is neither counted nor under way was cut
\* short by a kill, or lost.
AttemptsCounted ==
    \A j \in Jobs : Exists(j) =>
        /\ row[j].attempts <= execs[j]
        /\ j \in Timely =>
              execs[j] <= row[j].attempts + crashes
                           + IF \E p \in Procs, t \in Threads : Runs(p, t, j)
                             THEN 1 ELSE 0

\* A deleted row stays deleted, whatever late workers write; and only a job
\* that has outlived the stale timeout, so that a late worker or a late verdict
\* of the sweeper may write it, comes back after it was done or failed.
EndedForGood ==
    [][\A j \in born :
         /\ row[j].status = "absent" => row'[j].status = "absent"
         /\ j \in Timely /\ row[j].status \in Ended =>
               row'[j].status = row[j].status]_vars

\* Every job that was enqueued ends: done, failed or deleted after success.
Settles == \A j \in Jobs : (j \in born) ~> (row[j].status \in Ended)

\* What the queue shows to JobPromise: who is responsible for a job.
HolderOf(j) ==
    IF j \in Timely /\ Held(j) THEN CHOOSE p \in Procs : Holds(p, j) ELSE NoJob

PhaseOf(j) ==
    IF j \notin born THEN "new"
    ELSE IF j \in late THEN "lapsed"
    ELSE IF Held(j) THEN "held"
    ELSE IF row[j].status \in Ended THEN "settled"
    ELSE "waiting"

Promise == INSTANCE JobPromise WITH
    phase <- [j \in Jobs |-> PhaseOf(j)],
    holder <- [j \in Jobs |-> HolderOf(j)],
    Nobody <- NoJob

\* The queue implements the promise: nobody takes a held job, only the holder
\* settles it, and settled is for good; unless the holder keeps the job beyond
\* the stale timeout, which voids the promise for that job and no other.
KeepsPromise == Promise!Spec
-----------------------------------------------------------------------------
(* The inductive invariant behind OneHolder: what else is true of the batch *)
(* a poll loop has locked, of the rows a sweeper has read and of the rows   *)
(* the workers loaded.                                                      *)

\* The rows of a batch are locked and claimable; the timely ones are nobody's.
SelectedIsReserved ==
    \A p \in Procs, j \in Jobs : poll[p].at = "selected" /\ j \in poll[p].ids =>
        /\ j \in locked /\ row[j].status \in Claimable /\ row[j].due
        /\ \A q \in Procs : poll[q].at = "selected" /\ j \in poll[q].ids => p = q
        /\ j \in Timely => ~Held(j)

\* A timely row the sweeper has read is nobody's, and cannot become anybody's
\* before the sweeper commits.
SweptIsIdle ==
    \A p \in Procs, j \in Timely : Swept(p, j) =>
        /\ j \notin sweep[p].failing /\ ~Held(j)
        /\ \/ row[j].status = "running" /\ row[j].stale
           \/ row[j].status = "retrying" /\ ~row[j].due

\* The copy a worker holds of a timely job is the row.
LoadedIsCurrent ==
    \A p \in Procs, t \in Threads : run[p][t] # Idle =>
        /\ run[p][t].job \in Jobs
        /\ run[p][t].job \in Timely =>
              /\ run[p][t].status = "running"
              /\ run[p][t].attempts = row[run[p][t].job].attempts

\* Rows come from Enqueue alone, and only rows are overdue.
RowIsBorn == late \subseteq born /\ \A j \in Jobs : Exists(j) => j \in born

IInv ==
    /\ TypeOK
    /\ OneHolder
    /\ HeldIsRunning
    /\ BudgetLeft
    /\ SelectedIsReserved
    /\ SweptIsIdle
    /\ LoadedIsCurrent
    /\ RowIsBorn

\* When it holds: rows are locked while they are selected, and a sweep ends
\* within the shortest backoff.
Prompt == SkipLocked /\ ~SlowSweeps
=============================================================================
