---------------------------- MODULE OutboxSafety ----------------------------
(***************************************************************************)
(* Theorems about JobOutbox for every choice of its constants, with or     *)
(* without row locks, slow jobs and slow sweeps: when an outboxed job runs, *)
(* who puts a PENDING row back, and that a committed job is kept.           *)
(***************************************************************************)
EXTENDS JobOutbox, JobQueueSafety, TLAPS

InTx(s) == tx[s].staged \cup tx[s].flushed
Enlisted(s) == InTx(s) \cup tx[s].promote \cup tx[s].discard \cup tx[s].todo

TxType == [at : {"idle", "open", "promoting", "discarding", "dead"},
           staged : SUBSET Jobs, flushed : SUBSET Jobs, promote : SUBSET Jobs,
           discard : SUBSET Jobs, todo : SUBSET Jobs]

\* A job is enlisted by one session, and only an open transaction has jobs in it.
EnlistedOnce ==
  \A s \in Sessions :
    /\ tx[s].at # "open" => InTx(s) = {}
    /\ \A j \in InTx(s) : outcome[j] = "open" /\ j \in tx[s].promote /\ j \in tx[s].discard
    /\ \A j \in Enlisted(s) :
          outcome[j] # "none" /\ \A r \in Sessions : j \in Enlisted(r) => r = s

\* What a transaction that did not commit leaves behind is gone, or about to be.
UndoneIsGone ==
  \A j \in Jobs : Exists(j) =>
    /\ outcome[j] # "missed"
    /\ outcome[j] = "rolledback" =>
          \E s \in Sessions : tx[s].at = "discarding" /\ j \in tx[s].todo

\* A job with a wait gets as far as a batch only after its transaction ended.
Moving(j) ==
  \/ execs[j] > 0
  \/ row[j].due
  \/ \E p \in Procs : j \in poll[p].ids \/ queued[p][j] > 0
WaitersWait ==
  \A j \in Outboxed \ Early : Moving(j) => outcome[j] \in {"committed", "lost", "closed"}

\* A run counts as one, and only a run removes what a transaction has enlisted.
RunsAreCounted ==
  \A p \in Procs, t \in Threads : run[p][t] # Idle =>
    run[p][t].job \in Jobs /\ execs[run[p][t].job] > 0
EnlistedIsKept ==
  \A s \in Sessions : \A j \in InTx(s) : ~Exists(j) => execs[j] > 0

\* The listeners of a session's first transaction are for its jobs only.
FirstTxIsAlone ==
  \A s \in Sessions :
    /\ tx[s].at = "open" => txs[s] # 0
    /\ txs[s] = 0 => tx[s].discard = {}
    /\ txs[s] <= 1 =>
         /\ tx[s].at = "open" => tx[s].discard \subseteq InTx(s)
         /\ tx[s].at = "discarding" => \A j \in tx[s].todo : outcome[j] = "rolledback"

OutboxInv ==
  /\ TypeOK
  /\ tx \in [Sessions -> TxType] /\ outcome = [j \in Jobs |-> outcome[j]]
  /\ txs \in [Sessions -> Nat]
  /\ \A j \in Jobs : Exists(j) \/ outcome[j] # "none" => j \in born
  /\ EnlistedOnce /\ UndoneIsGone /\ PendingIsPromised
  /\ WaitersWait /\ RunsAreCounted /\ EnlistedIsKept /\ FirstTxIsAlone
  /\ CommittedIsKept

-----------------------------------------------------------------------------
(* What a step of the queue may do to a job.                                *)

RowMoves ==
  /\ born \subseteq born'
  /\ \A j \in Jobs :
        /\ row'[j].status = "pending" => row[j].status = "pending"
        /\ row'[j].status # "absent" => row[j].status # "absent" \/ j \notin born
        /\ row'[j].status # "absent" => row[j].status # "absent" \/ j \in born'
        /\ row'[j].due /\ ~row[j].due => row[j].status # "absent" \/ j \notin born
        /\ row[j].status # "absent" /\ row'[j].status = "absent" =>
              \E p \in Procs, t \in Threads : run[p][t] # Idle /\ run[p][t].job = j

WorkMoves ==
  /\ \A j \in Jobs :
        /\ execs[j] > 0 => execs'[j] > 0
        /\ execs'[j] > 0 => execs[j] > 0 \/ \E p \in Procs : queued[p][j] > 0
        /\ \A p \in Procs :
              /\ queued'[p][j] > 0 => queued[p][j] > 0 \/ j \in poll[p].ids
              /\ j \in poll'[p].ids => j \in poll[p].ids \/ row[j].due
  /\ \A p \in Procs, t \in Threads : run'[p][t] # Idle =>
        \/ run'[p][t] = run[p][t]
        \/ run'[p][t].job \in Jobs /\ execs'[run'[p][t].job] > 0

LEMMA RowsRest ==
  ASSUME UNCHANGED <<row, born>>
  PROVE  RowMoves
BY DEF RowMoves

LEMMA WorkRests ==
  ASSUME UNCHANGED <<poll, queued, run, execs>>
  PROVE  WorkMoves
BY DEF WorkMoves

LEMMA WrittenKeeps ==
  ASSUME NEW r \in RowType, NEW c, NEW st \in {"done", "retrying", "failed"}
  PROVE  /\ Written(r, c, st).status = "pending" => r.status = "pending"
         /\ Written(r, c, st).status = "absent" <=> r.status = "absent"
         /\ Written(r, c, st).due => r.due
<1>1. CASE r.status = "absent"
  BY <1>1 DEF Written
<1>2. CASE r.status # "absent"
  <2>1. PICK b \in BOOLEAN : b = (r.due /\ st # "retrying")
    OBVIOUS
  <2>2. PICK a : a = c.attempts + 1
    OBVIOUS
  <2>3. PICK x : x = IF st = c.status THEN r.status ELSE st
    OBVIOUS
  <2>4. PICK w : w = Written(r, c, st)
    OBVIOUS
  <2>5. w = [status |-> x, attempts |-> a, due |-> b, stale |-> r.stale]
    BY <1>2, <2>1, <2>2, <2>3, <2>4 DEF Written
  <2>6. w.status = x /\ w.due = b
    BY <2>5
  <2>7. (x = "pending" => r.status = "pending") /\ x # "absent" /\ (b => r.due)
    BY <1>2, <2>1, <2>3
  <2> QED
    BY <1>2, <2>4, <2>6, <2>7
<1> QED
  BY <1>1, <1>2

\* Only a run that succeeds removes a row.
LEMMA EndsMoveRows ==
  ASSUME TypeOK, NEW p \in Procs, NEW t \in Threads, Ends(p, t)
  PROVE  RowMoves
<1>1. run[p][t] # Idle /\ born' = born /\ row \in [Jobs -> RowType]
  BY DEF Ends, RunSucceed, RunFail, TypeOK
<1>2. PICK k : k = run[p][t].job
  OBVIOUS
<1>3. PICK r : /\ row' = [row EXCEPT ![k] = r]
               /\ k \in Jobs =>
                    /\ r.status = "pending" => row[k].status = "pending"
                    /\ r.status # "absent" => row[k].status # "absent"
                    /\ r.due => row[k].due
  <2>1. CASE RunSucceed(p, t)
    <3>1. row' = [row EXCEPT ![k] = Succeeded(row[k], run[p][t])]
      BY <1>1, <1>2, <2>1 DEF RunSucceed
    <3>2. CASE k \in Keeps
      <4>1. Succeeded(row[k], run[p][t]) = Written(row[k], run[p][t], "done")
        BY <1>2, <3>2 DEF Succeeded
      <4> QED
        BY <1>1, <3>1, <4>1, WrittenKeeps
    <3>3. CASE k \notin Keeps
      <4>1. Succeeded(row[k], run[p][t]) = Absent
        BY <1>2, <3>3 DEF Succeeded
      <4> QED
        <5>1. Absent.status = "absent" /\ ~Absent.due
          BY DEF Absent
        <5> QED
          BY <3>1, <4>1, <5>1
    <3> QED
      BY <3>2, <3>3
  <2>2. CASE RunFail(p, t)
    <3>1. PICK eligible : row' = [row EXCEPT ![k] = Failed(row[k], run[p][t], eligible)]
      BY <1>1, <1>2, <2>2 DEF RunFail
    <3>2. PICK st \in {"retrying", "failed"} :
            Failed(row[k], run[p][t], eligible) = Written(row[k], run[p][t], st)
      BY DEF Failed
    <3>3. PICK r : r = Written(row[k], run[p][t], st)
      OBVIOUS
    <3>4. k \in Jobs => row[k] \in RowType
      BY <1>1
    <3>5. k \in Jobs => /\ r.status = "pending" => row[k].status = "pending"
                        /\ r.status # "absent" => row[k].status # "absent"
                        /\ r.due => row[k].due
      BY <3>3, <3>4, WrittenKeeps
    <3> QED
      BY <3>1, <3>2, <3>3, <3>5
  <2> QED
    BY <2>1, <2>2 DEF Ends
<1>4. \A j \in Jobs : row'[j] = IF j = k THEN r ELSE row[j]
  BY <1>1, <1>3
<1> QED
  BY <1>1, <1>2, <1>3, <1>4 DEF RowMoves

LEMMA QueueMovesRows ==
  ASSUME TypeOK, [Next]_vars
  PROVE  RowMoves
<1> row \in [Jobs -> RowType] /\ born \subseteq Jobs
  BY DEF TypeOK
<1>1. CASE UNCHANGED vars
  BY <1>1, RowsRest DEF vars, db
<1>2. ASSUME NEW j \in Jobs, Enqueue(j) PROVE RowMoves
  <2>1. PICK due \in BOOLEAN :
          row' = [row EXCEPT ![j] = [Absent EXCEPT !.status = "enqueued", !.due = due]]
    BY <1>2 DEF Enqueue
  <2>2. PICK r : r = [Absent EXCEPT !.status = "enqueued", !.due = due]
    OBVIOUS
  <2>3. r.status = "enqueued"
    BY <2>2 DEF Absent
  <2>4. /\ born' = born \cup {j} /\ j \notin born
        /\ \A k \in Jobs : row'[k] = IF k = j THEN r ELSE row[k]
    BY <1>2, <2>1, <2>2 DEF Enqueue
  <2> QED
    BY <2>3, <2>4 DEF RowMoves
<1>3. ASSUME NEW j \in Jobs, Elapses(j) PROVE RowMoves
  <2>1. PICK r : /\ row' = [row EXCEPT ![j] = r] /\ r.status = row[j].status
                 /\ row[j].status # "absent" /\ born' = born
    BY <1>3 DEF Elapses, BackoffElapses, OrphanTimesOut, SlowTimesOut, Claimable, RowType
  <2>2. \A k \in Jobs : row'[k] = IF k = j THEN r ELSE row[k]
    BY <2>1
  <2> QED
    BY <2>1, <2>2 DEF RowMoves
<1>4. ASSUME NEW p \in Procs, Polls(p) PROVE RowMoves
  <2>1. CASE PollCommit(p)
    <3>1. /\ born' = born
          /\ \A j \in Jobs : \/ row'[j] = row[j]
                             \/ row'[j] = Taken(row[j]) /\ row[j].status # "absent"
      BY <2>1 DEF PollCommit, Missing, Exists
    <3>2. \A r \in RowType : Taken(r).status = "running" /\ Taken(r).due = r.due
      BY DEF Taken, RowType
    <3> QED
      BY <3>1, <3>2 DEF RowMoves
  <2>2. CASE ~PollCommit(p)
    BY <1>4, <2>2, RowsRest DEF Polls, PollSelect, PollAborts, PollSubmit, db
  <2> QED
    BY <2>1, <2>2
<1>5. ASSUME NEW p \in Procs, Sweeps(p) PROVE RowMoves
  <2>1. CASE SweepCommit(p)
    <3>1. /\ born' = born
          /\ \A j \in Jobs : \/ row'[j] = row[j]
                             \/ /\ row[j].status # "absent"
                                /\ \/ row'[j] = [row[j] EXCEPT !.status = "failed"]
                                   \/ row'[j] = Requeued(row[j])
      BY <2>1 DEF SweepCommit, Exists
    <3>2. \A r \in RowType : /\ Requeued(r).status = "retrying" /\ ~Requeued(r).due
                             /\ [r EXCEPT !.status = "failed"].status = "failed"
                             /\ [r EXCEPT !.status = "failed"].due = r.due
      BY DEF Requeued, RowType
    <3> QED
      BY <3>1, <3>2 DEF RowMoves
  <2>2. CASE ~SweepCommit(p)
    BY <1>5, <2>2, RowsRest DEF Sweeps, SweepRead, SweepAborts, db
  <2> QED
    BY <2>1, <2>2
<1>6. ASSUME NEW p \in Procs, Switches(p) PROVE RowMoves
  BY <1>6, RowsRest DEF Switches, Crash, Stop, Stopped, Start, db
<1>7. ASSUME NEW p \in Procs, NEW j \in Jobs, Begins(p, j) PROVE RowMoves
  BY <1>7, RowsRest DEF Begins, RunDrop, RunStart, db
<1>8. ASSUME NEW p \in Procs, NEW t \in Threads, Ends(p, t) PROVE RowMoves
  BY <1>8, EndsMoveRows
<1>9. ASSUME NEW p \in Procs, NEW t \in Threads, RunLost(p, t) PROVE RowMoves
  BY <1>9, RowsRest DEF RunLost, db
<1> QED
  BY <1>1, <1>2, <1>3, <1>4, <1>5, <1>6, <1>7, <1>8, <1>9 DEF Next

LEMMA QueueMovesWork ==
  ASSUME TypeOK, [Next]_vars
  PROVE  WorkMoves
<1> /\ poll \in [Procs -> PollType] /\ queued \in [Procs -> [Jobs -> Nat]]
    /\ run \in [Procs -> [Threads -> RunType]] /\ execs \in [Jobs -> Nat]
  BY DEF TypeOK
<1>1. CASE UNCHANGED vars
  BY <1>1, WorkRests DEF vars, proc
<1>2. ASSUME NEW j \in Jobs, Enqueue(j) \/ Elapses(j) PROVE WorkMoves
  BY <1>2, WorkRests
     DEF Enqueue, Elapses, BackoffElapses, OrphanTimesOut, SlowTimesOut, proc
<1>3. ASSUME NEW p \in Procs, Polls(p) PROVE WorkMoves
  <2>1. CASE PollSelect(p)
    <3>1. PICK S : /\ S \subseteq Selectable(p)
                   /\ poll' = [poll EXCEPT ![p] = [at |-> "selected", ids |-> S]]
                   /\ UNCHANGED <<queued, run, execs>>
      BY <2>1 DEF PollSelect
    <3>2. \A j \in S : j \in Jobs => row[j].due
      BY <3>1 DEF Selectable
    <3>3. \A q \in Procs : poll'[q].ids = IF q = p THEN S ELSE poll[q].ids
      BY <3>1
    <3> QED
      BY <3>1, <3>2, <3>3 DEF WorkMoves
  <2>2. CASE PollCommit(p)
    <3>1. \A q \in Procs : poll'[q].ids = poll[q].ids
      BY <2>2 DEF PollCommit, PollType
    <3> QED
      BY <2>2, <3>1 DEF PollCommit, WorkMoves
  <2>3. CASE PollAborts(p)
    <3>1. \A q \in Procs : poll'[q].ids \subseteq poll[q].ids
      BY <2>3 DEF PollAborts, NoPoll
    <3> QED
      BY <2>3, <3>1 DEF PollAborts, WorkMoves
  <2>4. CASE PollSubmit(p)
    <3>1. \A q \in Procs : poll'[q].ids \subseteq poll[q].ids
      BY <2>4 DEF PollSubmit, NoPoll
    <3>2. \A q \in Procs, j \in Jobs :
             queued'[q][j] > 0 => queued[q][j] > 0 \/ j \in poll[q].ids
      BY <2>4 DEF PollSubmit
    <3> QED
      BY <2>4, <3>1, <3>2 DEF PollSubmit, WorkMoves
  <2> QED
    BY <1>3, <2>1, <2>2, <2>3, <2>4 DEF Polls
<1>4. ASSUME NEW p \in Procs, Sweeps(p) PROVE WorkMoves
  BY <1>4, WorkRests DEF Sweeps, SweepRead, SweepCommit, SweepAborts
<1>5. ASSUME NEW p \in Procs, Switches(p) PROVE WorkMoves
  <2>1. CASE Crash(p)
    <3>1. \A q \in Procs : poll'[q].ids \subseteq poll[q].ids
      BY <2>1 DEF Crash, NoPoll
    <3>2. \A q \in Procs, j \in Jobs : queued'[q][j] = IF q = p THEN 0 ELSE queued[q][j]
      BY <2>1 DEF Crash
    <3>3. \A q \in Procs, t \in Threads : run'[q][t] = IF q = p THEN Idle ELSE run[q][t]
      BY <2>1 DEF Crash
    <3> QED
      BY <2>1, <3>1, <3>2, <3>3 DEF Crash, WorkMoves
  <2>2. CASE Stop(p) \/ Stopped(p) \/ Start(p)
    BY <2>2, WorkRests DEF Stop, Stopped, Start
  <2> QED
    BY <1>5, <2>1, <2>2 DEF Switches
<1>6. ASSUME NEW p \in Procs, NEW j \in Jobs, Begins(p, j) PROVE WorkMoves
  <2>1. PICK t \in Threads : RunDrop(p, t, j) \/ RunStart(p, t, j)
    BY <1>6 DEF Begins
  <2>2. queued[p][j] > 0 /\ poll' = poll
    BY <2>1 DEF RunDrop, RunStart, Dequeue
  <2>3. \A q \in Procs, k \in Jobs :
           queued'[q][k] = IF q = p /\ k = j THEN queued[p][j] - 1 ELSE queued[q][k]
    BY <2>1 DEF RunDrop, RunStart, Dequeue
  <2>4. \A q \in Procs, k \in Jobs : queued'[q][k] > 0 => queued[q][k] > 0
    BY <2>2, <2>3
  <2>5. CASE RunDrop(p, t, j)
    BY <2>2, <2>4, <2>5 DEF RunDrop, WorkMoves
  <2>6. CASE RunStart(p, t, j)
    <3>1. PICK c : c.job = j /\ run' = [run EXCEPT ![p][t] = c]
      BY <2>6 DEF RunStart
    <3>2. \A q \in Procs, u \in Threads :
             run'[q][u] = IF q = p /\ u = t THEN c ELSE run[q][u]
      BY <3>1
    <3>3. \A k \in Jobs : execs'[k] = IF k = j THEN execs[k] + 1 ELSE execs[k]
      BY <2>6 DEF RunStart
    <3>4. \A k \in Jobs : execs[k] > 0 => execs'[k] > 0
      BY <3>3
    <3>5. execs'[j] > 0
      BY <3>3
    <3> QED
      BY <2>2, <2>4, <3>1, <3>2, <3>3, <3>4, <3>5 DEF WorkMoves
  <2> QED
    BY <2>1, <2>5, <2>6
<1>7. ASSUME NEW p \in Procs, NEW t \in Threads, Ends(p, t) \/ RunLost(p, t)
      PROVE  WorkMoves
  <2>1. run' = [run EXCEPT ![p][t] = Idle] /\ UNCHANGED <<poll, queued, execs>>
    BY <1>7 DEF Ends, RunSucceed, RunFail, RunLost
  <2>2. \A q \in Procs, u \in Threads :
           run'[q][u] = IF q = p /\ u = t THEN Idle ELSE run[q][u]
    BY <2>1
  <2> QED
    BY <2>1, <2>2 DEF WorkMoves
<1> QED
  BY <1>1, <1>2, <1>3, <1>4, <1>5, <1>6, <1>7 DEF Next

-----------------------------------------------------------------------------
(* Steps of the queue.                                                      *)

LEMMA QueueKeeps ==
  ASSUME OutboxInv, [Queue]_allvars
  PROVE  OutboxInv'
<1>1. /\ [Next]_vars /\ UNCHANGED <<tx, outcome, txs>>
      /\ \A j \in Outboxed \ Early : row'[j].due /\ ~row[j].due => Decided(j)
  BY DEF Queue, MayComeDue, allvars, outbox, vars, db
<1>2. TypeOK'
  BY <1>1, StepType DEF OutboxInv
<1>3. RowMoves /\ WorkMoves
  BY <1>1, QueueMovesRows, QueueMovesWork DEF OutboxInv
<1>4. \A j \in Jobs : /\ Exists(j)' => Exists(j) \/ j \notin born
                      /\ ~Exists(j)' /\ Exists(j) => execs[j] > 0
                      /\ execs[j] > 0 => execs'[j] > 0
                      /\ j \notin born => outcome[j] = "none" /\ ~Exists(j)
  BY <1>3 DEF RowMoves, WorkMoves, OutboxInv, RunsAreCounted, Exists
<1>5. \A j \in Jobs : Exists(j)' \/ outcome'[j] # "none" => j \in born'
  BY <1>1, <1>3 DEF RowMoves, OutboxInv, Exists
<1>6. EnlistedOnce' /\ FirstTxIsAlone'
  BY <1>1 DEF OutboxInv, EnlistedOnce, FirstTxIsAlone, InTx, Enlisted
<1>7. UndoneIsGone'
  BY <1>1, <1>4 DEF OutboxInv, UndoneIsGone
<1>8. PendingIsPromised'
  BY <1>1, <1>3 DEF OutboxInv, PendingIsPromised, RowMoves
<1>9. WaitersWait'
  <2> SUFFICES ASSUME NEW j \in Outboxed \ Early, Moving(j)'
               PROVE  outcome'[j] \in {"committed", "lost", "closed"}
    BY DEF WaitersWait
  <2>1. j \in Jobs
    BY JobOutboxAssumption
  <2>2. CASE Moving(j)
    BY <1>1, <2>2 DEF OutboxInv, WaitersWait
  <2>3. CASE ~Moving(j)
    <3>1. row'[j].due /\ ~row[j].due
      BY <1>3, <2>1, <2>3 DEF Moving, WorkMoves
    <3>2. Decided(j) /\ Exists(j)
      <4>1. Decided(j) /\ outcome[j] # "none"
        BY <1>1, <3>1 DEF Decided
      <4> QED
        BY <1>3, <1>4, <2>1, <3>1, <4>1 DEF RowMoves, Exists
    <3> QED
      BY <1>1, <2>1, <3>2 DEF OutboxInv, UndoneIsGone, Decided
  <2> QED
    BY <2>2, <2>3
<1>10. RunsAreCounted'
  BY <1>3 DEF OutboxInv, RunsAreCounted, WorkMoves
<1>11. EnlistedIsKept'
  <2>1. \A s \in Sessions : InTx(s) \subseteq Jobs
    BY DEF OutboxInv, TxType, InTx
  <2> QED
    BY <1>1, <1>4, <2>1 DEF OutboxInv, EnlistedIsKept, InTx
<1>12. CommittedIsKept'
  BY <1>1, <1>4, JobOutboxAssumption DEF OutboxInv, CommittedIsKept
<1> QED
  BY <1>1, <1>2, <1>5, <1>6, <1>7, <1>8, <1>9, <1>10, <1>11, <1>12 DEF OutboxInv

-----------------------------------------------------------------------------
(* Steps of the callers that leave the rows as they are.                    *)

LEMMA QuietKeeps ==
  ASSUME OutboxInv, UNCHANGED <<row, born, proc, counters, execs>>, locked' \subseteq Jobs,
         tx' \in [Sessions -> TxType], outcome' = [j \in Jobs |-> outcome'[j]],
         txs' \in [Sessions -> Nat],
         \A s \in Sessions : txs'[s] <= 1 => txs[s] <= 1,
         \A j \in Jobs :
            /\ outcome'[j] # "none" => outcome[j] # "none" \/ j \in born
            /\ outcome[j] \in {"committed", "lost", "closed"} =>
                  outcome'[j] \in {"committed", "lost", "closed"}
            /\ outcome'[j] = "committed" => outcome[j] = "committed",
         EnlistedOnce', UndoneIsGone', PendingIsPromised', EnlistedIsKept', FirstTxIsAlone'
  PROVE  OutboxInv'
<1>1. TypeOK'
  BY DEF OutboxInv, TypeOK, proc, counters
<1>2. \A j \in Jobs : (Exists(j)' <=> Exists(j)) /\ (Moving(j)' <=> Moving(j))
  BY DEF Exists, Moving, proc
<1>3. WaitersWait'
  BY <1>2, JobOutboxAssumption DEF OutboxInv, WaitersWait
<1>4. RunsAreCounted'
  BY DEF OutboxInv, RunsAreCounted, proc
<1>5. CommittedIsKept'
  BY <1>2, JobOutboxAssumption DEF OutboxInv, CommittedIsKept
<1>6. \A j \in Jobs : Exists(j)' \/ outcome'[j] # "none" => j \in born'
  BY <1>2 DEF OutboxInv
<1> QED
  BY <1>1, <1>3, <1>4, <1>5, <1>6 DEF OutboxInv

LEMMA BeginKeeps ==
  ASSUME OutboxInv, NEW s \in Sessions, Begin(s)
  PROVE  OutboxInv'
<1>1. PICK n : n = [tx[s] EXCEPT !.at = "open"]
  OBVIOUS
<1>2. /\ tx \in [Sessions -> TxType] /\ txs \in [Sessions -> Nat] /\ tx[s].at = "idle"
      /\ tx' = [tx EXCEPT ![s] = n]
      /\ UNCHANGED <<row, born, locked, proc, counters, execs, outcome>>
  BY <1>1 DEF Begin, OutboxInv, vars, db
<1>3. /\ n \in TxType /\ n.at = "open" /\ n.staged = tx[s].staged /\ n.flushed = tx[s].flushed
      /\ n.promote = tx[s].promote /\ n.discard = tx[s].discard /\ n.todo = tx[s].todo
  BY <1>1, <1>2 DEF TxType
<1>4. /\ tx' \in [Sessions -> TxType] /\ tx'[s] = n
      /\ \A r \in Sessions : r # s => tx'[r] = tx[r]
  BY <1>2, <1>3
<1>5. /\ txs' \in [Sessions -> Nat] /\ txs'[s] = txs[s] + 1
      /\ \A r \in Sessions : r # s => txs'[r] = txs[r]
  BY <1>2 DEF Begin
<1>6. EnlistedOnce'
  <2>1. EnlistedOnce
    BY DEF OutboxInv
  <2>2. \A r \in Sessions : /\ InTx(r)' = InTx(r) /\ Enlisted(r)' = Enlisted(r)
                            /\ tx'[r].promote = tx[r].promote /\ tx'[r].discard = tx[r].discard
    BY <1>3, <1>4 DEF InTx, Enlisted
  <2> QED
    BY <1>2, <1>3, <1>4, <2>1, <2>2 DEF EnlistedOnce
<1>7. UndoneIsGone'
  BY <1>2, <1>3, <1>4 DEF OutboxInv, UndoneIsGone, Exists
<1>8. PendingIsPromised'
  BY <1>2, <1>3, <1>4 DEF OutboxInv, PendingIsPromised
<1>9. EnlistedIsKept'
  BY <1>2, <1>3, <1>4 DEF OutboxInv, EnlistedIsKept, InTx, Exists
<1>10. FirstTxIsAlone'
  BY <1>2, <1>3, <1>4, <1>5 DEF OutboxInv, FirstTxIsAlone, InTx
<1>11. locked' \subseteq Jobs /\ outcome' = [j \in Jobs |-> outcome'[j]]
       /\ \A r \in Sessions : txs'[r] <= 1 => txs[r] <= 1
  BY <1>2, <1>5 DEF OutboxInv, TypeOK
<1> QED
  BY <1>2, <1>4, <1>5, <1>6, <1>7, <1>8, <1>9, <1>10, <1>11, QuietKeeps

LEMMA EnlistKeeps ==
  ASSUME OutboxInv, NEW s \in Sessions, NEW j \in Jobs, Enlist(s, j)
  PROVE  OutboxInv'
<1>1. PICK n : n = [tx[s] EXCEPT !.staged = tx[s].staged \cup {j},
                                 !.promote = tx[s].promote \cup {j},
                                 !.discard = tx[s].discard \cup {j}]
  OBVIOUS
<1>2. /\ tx \in [Sessions -> TxType] /\ tx[s].at = "open" /\ outcome[j] = "none" /\ Exists(j)
      /\ j \in born /\ outcome' = [outcome EXCEPT ![j] = "open"]
      /\ UNCHANGED <<row, born, locked, proc, counters, execs, txs>>
  BY DEF Enlist, OutboxInv, vars, db
<1>3. tx' = [tx EXCEPT ![s] = n]
  BY <1>1, <1>2 DEF Enlist
<1>4. /\ n \in TxType /\ n.at = "open" /\ n.staged = tx[s].staged \cup {j}
      /\ n.flushed = tx[s].flushed /\ n.promote = tx[s].promote \cup {j}
      /\ n.discard = tx[s].discard \cup {j} /\ n.todo = tx[s].todo
  BY <1>1, <1>2 DEF TxType
<1>5. /\ tx' \in [Sessions -> TxType] /\ tx'[s] = n
      /\ \A r \in Sessions : r # s => tx'[r] = tx[r]
  BY <1>2, <1>3, <1>4
<1>6. /\ outcome'[j] = "open" /\ \A k \in Jobs : k # j => outcome'[k] = outcome[k]
      /\ outcome' = [k \in Jobs |-> outcome'[k]]
  BY <1>2 DEF OutboxInv
<1>7. \A r \in Sessions : j \notin Enlisted(r) /\ Enlisted(r) \subseteq Jobs
  BY <1>2 DEF OutboxInv, EnlistedOnce, Enlisted, InTx, TxType
<1>8. EnlistedOnce'
  <2>1. \A r \in Sessions : /\ InTx(r)' = IF r = s THEN InTx(s) \cup {j} ELSE InTx(r)
                            /\ Enlisted(r)' = IF r = s THEN Enlisted(s) \cup {j} ELSE Enlisted(r)
                            /\ InTx(r) \subseteq Enlisted(r)
    BY <1>4, <1>5 DEF InTx, Enlisted
  <2> QED
    BY <1>2, <1>4, <1>5, <1>6, <1>7, <2>1 DEF OutboxInv, EnlistedOnce
<1>9. UndoneIsGone'
  BY <1>2, <1>4, <1>5, <1>6 DEF OutboxInv, UndoneIsGone, Exists
<1>10. PendingIsPromised'
  BY <1>2, <1>4, <1>5, <1>6 DEF OutboxInv, PendingIsPromised
<1>11. EnlistedIsKept'
  BY <1>2, <1>4, <1>5 DEF OutboxInv, EnlistedIsKept, InTx, Exists
<1>12. FirstTxIsAlone'
  <2>1. FirstTxIsAlone
    BY DEF OutboxInv
  <2>2. \A r \in Sessions : \A k \in tx[r].todo : k # j /\ k \in Jobs
    BY <1>7 DEF Enlisted
  <2>3. txs'[s] # 0
    BY <1>2, <2>1 DEF FirstTxIsAlone
  <2> QED
    BY <1>2, <1>4, <1>5, <1>6, <2>1, <2>2, <2>3 DEF FirstTxIsAlone, InTx
<1>13. /\ locked' \subseteq Jobs /\ txs' \in [Sessions -> Nat]
       /\ \A r \in Sessions : txs'[r] <= 1 => txs[r] <= 1
  BY <1>2 DEF OutboxInv, TypeOK
<1>14. \A k \in Jobs :
          /\ outcome'[k] # "none" => outcome[k] # "none" \/ k \in born
          /\ outcome[k] \in {"committed", "lost", "closed"} =>
                outcome'[k] \in {"committed", "lost", "closed"}
          /\ outcome'[k] = "committed" => outcome[k] = "committed"
  BY <1>2, <1>6
<1> QED
  BY <1>2, <1>5, <1>6, <1>8, <1>9, <1>10, <1>11, <1>12, <1>13, <1>14, QuietKeeps

LEMMA EnlistMissesKeeps ==
  ASSUME OutboxInv, NEW s \in Sessions, NEW j \in Jobs, EnlistMisses(s, j)
  PROVE  OutboxInv'
<1>1. /\ outcome[j] = "none" /\ ~Exists(j) /\ j \in born
      /\ outcome' = [outcome EXCEPT ![j] = "missed"]
      /\ UNCHANGED <<row, born, locked, proc, counters, execs, txs, tx>>
  BY DEF EnlistMisses, vars, db
<1>2. /\ outcome'[j] = "missed" /\ \A k \in Jobs : k # j => outcome'[k] = outcome[k]
      /\ outcome' = [k \in Jobs |-> outcome'[k]]
  BY <1>1 DEF OutboxInv
<1>3. \A r \in Sessions : j \notin Enlisted(r) /\ Enlisted(r) \subseteq Jobs
  BY <1>1 DEF OutboxInv, EnlistedOnce, Enlisted, InTx, TxType
<1>4. EnlistedOnce'
  <2>1. EnlistedOnce
    BY DEF OutboxInv
  <2>2. \A r \in Sessions : /\ InTx(r)' = InTx(r) /\ Enlisted(r)' = Enlisted(r)
                            /\ InTx(r) \subseteq Enlisted(r)
    BY <1>1 DEF InTx, Enlisted
  <2>3. \A r \in Sessions : \A k \in Enlisted(r) : outcome'[k] = outcome[k]
    BY <1>2, <1>3
  <2> QED
    BY <1>1, <2>1, <2>2, <2>3 DEF EnlistedOnce
<1>5. UndoneIsGone'
  BY <1>1, <1>2 DEF OutboxInv, UndoneIsGone, Exists
<1>6. PendingIsPromised'
  BY <1>1, <1>2 DEF OutboxInv, PendingIsPromised, Exists
<1>7. EnlistedIsKept'
  BY <1>1 DEF OutboxInv, EnlistedIsKept, InTx, Exists
<1>8. FirstTxIsAlone'
  <2>1. FirstTxIsAlone
    BY DEF OutboxInv
  <2>2. \A r \in Sessions : \A k \in tx[r].todo : outcome'[k] = outcome[k]
    BY <1>2, <1>3 DEF Enlisted
  <2> QED
    BY <1>1, <2>1, <2>2 DEF FirstTxIsAlone, InTx
<1>9. /\ locked' \subseteq Jobs /\ txs' \in [Sessions -> Nat] /\ tx' \in [Sessions -> TxType]
      /\ \A r \in Sessions : txs'[r] <= 1 => txs[r] <= 1
  BY <1>1 DEF OutboxInv, TypeOK
<1>10. \A k \in Jobs :
          /\ outcome'[k] # "none" => outcome[k] # "none" \/ k \in born
          /\ outcome[k] \in {"committed", "lost", "closed"} =>
                outcome'[k] \in {"committed", "lost", "closed"}
          /\ outcome'[k] = "committed" => outcome[k] = "committed"
  BY <1>1, <1>2
<1> QED
  BY <1>1, <1>2, <1>4, <1>5, <1>6, <1>7, <1>8, <1>9, <1>10, QuietKeeps

LEMMA FlushKeeps ==
  ASSUME OutboxInv, NEW s \in Sessions, Flush(s)
  PROVE  OutboxInv'
<1>1. PICK n : n = [tx[s] EXCEPT !.flushed = tx[s].flushed \cup tx[s].staged, !.staged = {}]
  OBVIOUS
<1>2. /\ tx \in [Sessions -> TxType] /\ tx[s].at = "open"
      /\ tx' = [tx EXCEPT ![s] = n]
      /\ locked' = locked \cup (tx[s].staged \ Missing(tx[s].staged))
      /\ UNCHANGED <<row, born, proc, counters, execs, outcome, txs>>
  BY <1>1 DEF Flush, OutboxInv
<1>3. /\ n \in TxType /\ n.at = "open" /\ n.staged = {}
      /\ n.flushed = tx[s].flushed \cup tx[s].staged
      /\ n.promote = tx[s].promote /\ n.discard = tx[s].discard /\ n.todo = tx[s].todo
  BY <1>1, <1>2 DEF TxType
<1>4. /\ tx' \in [Sessions -> TxType] /\ tx'[s] = n
      /\ \A r \in Sessions : r # s => tx'[r] = tx[r]
  BY <1>2, <1>3
<1>5. \A r \in Sessions : InTx(r)' = InTx(r) /\ Enlisted(r)' = Enlisted(r) /\ tx'[r].at = tx[r].at
                          /\ tx'[r].promote = tx[r].promote /\ tx'[r].discard = tx[r].discard
                          /\ tx'[r].todo = tx[r].todo
  BY <1>2, <1>3, <1>4 DEF InTx, Enlisted
<1>6. EnlistedOnce' /\ FirstTxIsAlone'
  <2>1. EnlistedOnce /\ FirstTxIsAlone
    BY DEF OutboxInv
  <2>2. EnlistedOnce'
    BY <1>2, <1>5, <2>1 DEF EnlistedOnce
  <2>3. FirstTxIsAlone'
    BY <1>2, <1>5, <2>1 DEF FirstTxIsAlone
  <2> QED
    BY <2>2, <2>3
<1>7. UndoneIsGone' /\ PendingIsPromised' /\ EnlistedIsKept'
  BY <1>2, <1>5 DEF OutboxInv, UndoneIsGone, PendingIsPromised, EnlistedIsKept, Exists
<1>8. /\ locked' \subseteq Jobs /\ txs' \in [Sessions -> Nat]
      /\ outcome' = [k \in Jobs |-> outcome'[k]]
      /\ \A r \in Sessions : txs'[r] <= 1 => txs[r] <= 1
  BY <1>2 DEF OutboxInv, TypeOK, TxType
<1> QED
  BY <1>2, <1>4, <1>6, <1>7, <1>8, QuietKeeps

\* Outcomes changes only what is in the open transaction.
LEMMA OutcomesOf ==
  ASSUME OutboxInv, NEW s \in Sessions, NEW o, outcome' = Outcomes(s, o)
  PROVE  /\ outcome' = [j \in Jobs |-> outcome'[j]]
         /\ InTx(s) \subseteq Jobs
         /\ \A j \in InTx(s) : outcome'[j] = o /\ outcome[j] = "open"
         /\ \A j \in Jobs : j \notin InTx(s) => outcome'[j] = outcome[j]
<1>1. InTx(s) \subseteq Jobs /\ \A j \in InTx(s) : outcome[j] = "open"
  BY DEF OutboxInv, EnlistedOnce, InTx, TxType
<1>2. outcome' = [j \in Jobs |-> IF j \in InTx(s) THEN o ELSE outcome[j]]
  BY DEF Outcomes, InTx
<1> QED
  BY <1>1, <1>2

LEMMA RolledBackKeeps ==
  ASSUME OutboxInv, NEW s \in Sessions, tx[s].at = "open", RolledBack(s)
  PROVE  OutboxInv'
<1>1. PICK a : a = Round("discarding", tx[s].discard)
  OBVIOUS
<1>2. /\ a \in {"idle", "discarding"} /\ (tx[s].discard # {} => a = "discarding")
  BY <1>1 DEF Round
<1>3. PICK n : n = [tx[s] EXCEPT !.at = a, !.staged = {}, !.flushed = {},
                                 !.todo = tx[s].discard, !.discard = {}]
  OBVIOUS
<1>4. /\ tx \in [Sessions -> TxType] /\ txs \in [Sessions -> Nat]
      /\ EnlistedOnce /\ UndoneIsGone /\ PendingIsPromised /\ FirstTxIsAlone
  BY DEF OutboxInv
<1>5. /\ tx' = [tx EXCEPT ![s] = n] /\ locked' = locked \ tx[s].flushed
      /\ outcome' = Outcomes(s, "rolledback")
      /\ UNCHANGED <<row, born, proc, counters, execs, txs>>
  BY <1>1, <1>3, <1>4 DEF RolledBack
<1>6. /\ n \in TxType /\ n.at = a /\ n.staged = {} /\ n.flushed = {}
      /\ n.promote = tx[s].promote /\ n.discard = {} /\ n.todo = tx[s].discard
  BY <1>2, <1>3, <1>4 DEF TxType
<1>7. /\ tx' \in [Sessions -> TxType] /\ tx'[s] = n
      /\ \A r \in Sessions : r # s => tx'[r] = tx[r]
  BY <1>4, <1>5, <1>6
<1>8. /\ outcome' = [j \in Jobs |-> outcome'[j]]
      /\ InTx(s) \subseteq Jobs
      /\ \A j \in InTx(s) : outcome'[j] = "rolledback" /\ outcome[j] = "open"
      /\ \A j \in Jobs : j \notin InTx(s) => outcome'[j] = outcome[j]
  BY <1>5, OutcomesOf
<1>9. InTx(s)' = {} /\ \A r \in Sessions : r # s => InTx(r)' = InTx(r)
  BY <1>6, <1>7 DEF InTx
<1>10. \A r \in Sessions : Enlisted(r)' \subseteq Enlisted(r)
  BY <1>6, <1>7 DEF InTx, Enlisted
<1>11. \A r \in Sessions : InTx(r) \subseteq Enlisted(r) /\ Enlisted(r) \subseteq Jobs
  BY <1>4 DEF InTx, Enlisted, TxType
<1>12. EnlistedOnce'
  <2>1. \A r \in Sessions : r # s => \A j \in InTx(r) : outcome'[j] = outcome[j]
    BY <1>4, <1>8, <1>11 DEF EnlistedOnce
  <2>2. \A j \in Jobs : outcome[j] # "none" => outcome'[j] # "none"
    BY <1>8
  <2> QED
    BY <1>4, <1>7, <1>9, <1>10, <1>11, <2>1, <2>2 DEF EnlistedOnce
<1>13. UndoneIsGone'
  <2>1. \A j \in InTx(s) : j \in tx[s].discard
    BY <1>4 DEF EnlistedOnce
  <2>2. \A j \in InTx(s) : n.at = "discarding" /\ j \in n.todo
    BY <1>2, <1>6, <2>1
  <2> QED
    BY <1>4, <1>5, <1>7, <1>8, <2>2 DEF UndoneIsGone, Exists
<1>14. PendingIsPromised'
  <2>1. \A j \in InTx(s) : outcome[j] # "lost"
    BY <1>8
  <2> QED
    BY <1>4, <1>5, <1>7, <1>8, <2>1 DEF PendingIsPromised
<1>15. EnlistedIsKept'
  BY <1>5, <1>9 DEF OutboxInv, EnlistedIsKept, Exists
<1>16. FirstTxIsAlone'
  <2>1. \A r \in Sessions : \A j \in tx[r].todo :
           outcome[j] = "rolledback" => outcome'[j] = "rolledback"
    BY <1>8, <1>11 DEF Enlisted
  <2>2. txs[s] <= 1 => \A j \in tx[s].discard : outcome'[j] = "rolledback"
    BY <1>4, <1>8 DEF FirstTxIsAlone
  <2> QED
    BY <1>2, <1>4, <1>5, <1>6, <1>7, <1>9, <2>1, <2>2 DEF FirstTxIsAlone
<1>17. /\ locked' \subseteq Jobs /\ txs' \in [Sessions -> Nat]
       /\ \A r \in Sessions : txs'[r] <= 1 => txs[r] <= 1
  BY <1>4, <1>5 DEF OutboxInv, TypeOK
<1>18. \A k \in Jobs :
          /\ outcome'[k] # "none" => outcome[k] # "none" \/ k \in born
          /\ outcome[k] \in {"committed", "lost", "closed"} =>
                outcome'[k] \in {"committed", "lost", "closed"}
          /\ outcome'[k] = "committed" => outcome[k] = "committed"
  BY <1>8
<1> QED
  BY <1>5, <1>7, <1>8, <1>12, <1>13, <1>14, <1>15, <1>16, <1>17, <1>18, QuietKeeps

LEMMA CloseTxKeeps ==
  ASSUME OutboxInv, NEW s \in Sessions, Close(s)
  PROVE  OutboxInv'
<1>1. PICK n : n = [tx[s] EXCEPT !.at = "idle", !.staged = {}, !.flushed = {}]
  OBVIOUS
<1>2. /\ tx \in [Sessions -> TxType] /\ txs \in [Sessions -> Nat]
      /\ EnlistedOnce /\ UndoneIsGone /\ PendingIsPromised /\ FirstTxIsAlone
  BY DEF OutboxInv
<1>3. /\ tx' = [tx EXCEPT ![s] = n] /\ locked' = locked \ tx[s].flushed
      /\ outcome' = Outcomes(s, "closed") /\ tx[s].at = "open"
      /\ UNCHANGED <<row, born, proc, counters, execs, txs>>
  BY <1>1, <1>2 DEF Close
<1>4. /\ n \in TxType /\ n.at = "idle" /\ n.staged = {} /\ n.flushed = {}
      /\ n.promote = tx[s].promote /\ n.discard = tx[s].discard /\ n.todo = tx[s].todo
  BY <1>1, <1>2 DEF TxType
<1>5. /\ tx' \in [Sessions -> TxType] /\ tx'[s] = n
      /\ \A r \in Sessions : r # s => tx'[r] = tx[r]
  BY <1>2, <1>3, <1>4
<1>6. /\ outcome' = [j \in Jobs |-> outcome'[j]]
      /\ InTx(s) \subseteq Jobs
      /\ \A j \in InTx(s) : outcome'[j] = "closed" /\ outcome[j] = "open"
      /\ \A j \in Jobs : j \notin InTx(s) => outcome'[j] = outcome[j]
  BY <1>3, OutcomesOf
<1>7. InTx(s)' = {} /\ \A r \in Sessions : r # s => InTx(r)' = InTx(r)
  BY <1>4, <1>5 DEF InTx
<1>8. \A r \in Sessions : Enlisted(r)' \subseteq Enlisted(r)
  BY <1>4, <1>5 DEF InTx, Enlisted
<1>9. \A r \in Sessions : InTx(r) \subseteq Enlisted(r) /\ Enlisted(r) \subseteq Jobs
  BY <1>2 DEF InTx, Enlisted, TxType
<1>10. EnlistedOnce'
  <2>1. \A r \in Sessions : r # s => \A j \in InTx(r) : outcome'[j] = outcome[j]
    BY <1>2, <1>6, <1>9 DEF EnlistedOnce
  <2>2. \A j \in Jobs : outcome[j] # "none" => outcome'[j] # "none"
    BY <1>6
  <2> QED
    BY <1>2, <1>5, <1>7, <1>8, <1>9, <2>1, <2>2 DEF EnlistedOnce
<1>11. UndoneIsGone'
  BY <1>2, <1>3, <1>5, <1>6 DEF UndoneIsGone, Exists
<1>12. PendingIsPromised'
  BY <1>2, <1>3, <1>5, <1>6 DEF PendingIsPromised
<1>13. EnlistedIsKept'
  BY <1>3, <1>7 DEF OutboxInv, EnlistedIsKept, Exists
<1>14. FirstTxIsAlone'
  <2>1. \A r \in Sessions : \A j \in tx[r].todo :
           outcome[j] = "rolledback" => outcome'[j] = "rolledback"
    BY <1>6, <1>9 DEF Enlisted
  <2> QED
    BY <1>2, <1>3, <1>4, <1>5, <1>7, <2>1 DEF FirstTxIsAlone
<1>15. /\ locked' \subseteq Jobs /\ txs' \in [Sessions -> Nat]
       /\ \A r \in Sessions : txs'[r] <= 1 => txs[r] <= 1
  BY <1>2, <1>3 DEF OutboxInv, TypeOK
<1>16. \A k \in Jobs :
          /\ outcome'[k] # "none" => outcome[k] # "none" \/ k \in born
          /\ outcome[k] \in {"committed", "lost", "closed"} =>
                outcome'[k] \in {"committed", "lost", "closed"}
          /\ outcome'[k] = "committed" => outcome[k] = "committed"
  BY <1>6
<1> QED
  BY <1>3, <1>5, <1>6, <1>10, <1>11, <1>12, <1>13, <1>14, <1>15, <1>16, QuietKeeps

LEMMA DieKeeps ==
  ASSUME OutboxInv, NEW s \in Sessions, Die(s)
  PROVE  OutboxInv'
<1>1. PICK n : n = [NoTx EXCEPT !.at = "dead"]
  OBVIOUS
<1>2. /\ n \in TxType /\ n.at = "dead" /\ n.staged = {} /\ n.flushed = {}
      /\ n.promote = {} /\ n.discard = {} /\ n.todo = {}
  BY <1>1 DEF NoTx, TxType
<1>3. /\ tx \in [Sessions -> TxType] /\ txs \in [Sessions -> Nat]
      /\ EnlistedOnce /\ UndoneIsGone /\ PendingIsPromised /\ FirstTxIsAlone
  BY DEF OutboxInv
<1>4. /\ tx' = [tx EXCEPT ![s] = n] /\ locked' = locked \ tx[s].flushed
      /\ UNCHANGED <<row, born, proc, counters, execs, txs>>
  BY <1>1 DEF Die
<1>5. PICK L : /\ L = InTx(s) \cup tx[s].todo
               /\ outcome' = [j \in Jobs |-> IF j \in L THEN "lost" ELSE outcome[j]]
  BY DEF Die, InTx
<1>6. /\ tx' \in [Sessions -> TxType] /\ tx'[s] = n
      /\ \A r \in Sessions : r # s => tx'[r] = tx[r]
  BY <1>2, <1>3, <1>4
<1>7. /\ outcome' = [j \in Jobs |-> outcome'[j]]
      /\ \A j \in Jobs : outcome'[j] = IF j \in L THEN "lost" ELSE outcome[j]
      /\ \A r \in Sessions : InTx(r) \subseteq Enlisted(r) /\ Enlisted(r) \subseteq Jobs
      /\ L \subseteq Enlisted(s) /\ \A r \in Sessions : tx[r].todo \subseteq Enlisted(r)
  BY <1>3, <1>5 DEF InTx, Enlisted, TxType
<1>8. /\ InTx(s)' = {} /\ Enlisted(s)' = {}
      /\ \A r \in Sessions : r # s => InTx(r)' = InTx(r) /\ Enlisted(r)' = Enlisted(r)
  BY <1>2, <1>6 DEF InTx, Enlisted
<1>9. \A r \in Sessions : r # s => \A j \in Enlisted(r) : outcome'[j] = outcome[j]
  BY <1>3, <1>7 DEF EnlistedOnce
<1>10. EnlistedOnce'
  BY <1>3, <1>6, <1>7, <1>8, <1>9 DEF EnlistedOnce
<1>11. UndoneIsGone'
  BY <1>3, <1>4, <1>5, <1>6, <1>7 DEF UndoneIsGone, Exists
<1>12. PendingIsPromised'
  BY <1>3, <1>4, <1>5, <1>6, <1>7 DEF PendingIsPromised
<1>13. EnlistedIsKept'
  BY <1>4, <1>8 DEF OutboxInv, EnlistedIsKept, Exists
<1>14. FirstTxIsAlone'
  <2>1. \A r \in Sessions : r # s => \A j \in tx[r].todo : outcome'[j] = outcome[j]
    BY <1>7, <1>9
  <2> QED
    BY <1>2, <1>3, <1>4, <1>6, <1>8, <2>1 DEF FirstTxIsAlone
<1>15. /\ locked' \subseteq Jobs /\ txs' \in [Sessions -> Nat]
       /\ \A r \in Sessions : txs'[r] <= 1 => txs[r] <= 1
  BY <1>3, <1>4 DEF OutboxInv, TypeOK
<1>16. \A k \in Jobs :
          /\ outcome'[k] # "none" => outcome[k] # "none" \/ k \in born
          /\ outcome[k] \in {"committed", "lost", "closed"} =>
                outcome'[k] \in {"committed", "lost", "closed"}
          /\ outcome'[k] = "committed" => outcome[k] = "committed"
  <2>1. \A j \in L : outcome[j] # "none"
    BY <1>3, <1>7 DEF EnlistedOnce
  <2> QED
    BY <1>7, <2>1
<1> QED
  BY <1>4, <1>6, <1>7, <1>10, <1>11, <1>12, <1>13, <1>14, <1>15, <1>16, QuietKeeps

-----------------------------------------------------------------------------
(* Steps that write rows: the commit and the listeners after it.            *)

\* Steps that leave the flags of the rows and the work on them as they are.
LEMMA WriteKeeps ==
  ASSUME OutboxInv, UNCHANGED <<born, proc, counters, execs, txs>>, locked' \subseteq Jobs,
         row' \in [Jobs -> RowType], tx' \in [Sessions -> TxType],
         outcome' = [j \in Jobs |-> outcome'[j]],
         \A j \in Jobs :
            /\ Exists(j)' => Exists(j)
            /\ row'[j].due => row[j].due
            /\ outcome'[j] = outcome[j] \/ (outcome[j] = "open" /\ outcome'[j] = "committed"),
         EnlistedOnce', UndoneIsGone', PendingIsPromised', EnlistedIsKept', FirstTxIsAlone',
         CommittedIsKept'
  PROVE  OutboxInv'
<1>1. TypeOK'
  BY DEF OutboxInv, TypeOK, proc, counters
<1>2. \A j \in Jobs : Moving(j)' => Moving(j)
  BY DEF Moving, proc
<1>3. WaitersWait'
  BY <1>2, JobOutboxAssumption DEF OutboxInv, WaitersWait
<1>4. RunsAreCounted'
  BY DEF OutboxInv, RunsAreCounted, proc
<1>5. \A j \in Jobs : Exists(j)' \/ outcome'[j] # "none" => j \in born'
  BY DEF OutboxInv
<1>6. txs' \in [Sessions -> Nat]
  BY DEF OutboxInv
<1> QED
  BY <1>1, <1>3, <1>4, <1>5, <1>6 DEF OutboxInv

LEMMA CommitKeeps ==
  ASSUME OutboxInv, NEW s \in Sessions, Commit(s)
  PROVE  OutboxInv'
<1>1. PICK a : a = Round("promoting", tx[s].promote)
  OBVIOUS
<1>2. a \in {"idle", "promoting"} /\ (tx[s].promote # {} => a = "promoting")
  BY <1>1 DEF Round
<1>3. PICK n : n = [tx[s] EXCEPT !.at = a, !.flushed = {}, !.todo = tx[s].promote,
                                 !.promote = {}]
  OBVIOUS
<1>4. /\ tx \in [Sessions -> TxType] /\ txs \in [Sessions -> Nat] /\ row \in [Jobs -> RowType]
      /\ locked \subseteq Jobs /\ tx[s].at = "open" /\ tx[s].staged = {}
      /\ EnlistedOnce /\ UndoneIsGone /\ PendingIsPromised /\ FirstTxIsAlone
      /\ EnlistedIsKept /\ CommittedIsKept
  BY DEF OutboxInv, TypeOK, Commit
<1>5. /\ tx' = [tx EXCEPT ![s] = n] /\ locked' = locked \ tx[s].flushed
      /\ outcome' = Outcomes(s, "committed")
      /\ UNCHANGED <<born, proc, counters, execs, txs>>
  BY <1>1, <1>3, <1>4 DEF Commit
<1>6. /\ n \in TxType /\ n.at = a /\ n.staged = {} /\ n.flushed = {}
      /\ n.promote = {} /\ n.discard = tx[s].discard /\ n.todo = tx[s].promote
  BY <1>2, <1>3, <1>4 DEF TxType
<1>7. /\ tx' \in [Sessions -> TxType] /\ tx'[s] = n
      /\ \A r \in Sessions : r # s => tx'[r] = tx[r]
  BY <1>4, <1>5, <1>6
<1>8. /\ outcome' = [j \in Jobs |-> outcome'[j]]
      /\ InTx(s) \subseteq Jobs
      /\ \A j \in InTx(s) : outcome'[j] = "committed" /\ outcome[j] = "open"
      /\ \A j \in Jobs : j \notin InTx(s) => outcome'[j] = outcome[j]
  BY <1>5, OutcomesOf
<1>9. /\ InTx(s) = tx[s].flushed /\ InTx(s)' = {}
      /\ \A r \in Sessions : r # s => InTx(r)' = InTx(r)
  BY <1>4, <1>6, <1>7 DEF InTx
<1>10. \A r \in Sessions : /\ Enlisted(r)' \subseteq Enlisted(r) /\ InTx(r) \subseteq Enlisted(r)
                           /\ Enlisted(r) \subseteq Jobs
  BY <1>4, <1>6, <1>7 DEF InTx, Enlisted, TxType
<1>11. /\ row' \in [Jobs -> RowType]
       /\ \A j \in Jobs : /\ Exists(j)' <=> Exists(j)
                          /\ row'[j].due = row[j].due
                          /\ j \notin InTx(s) => row'[j] = row[j]
                          /\ row'[j].status = "pending" => row[j].status = "pending" \/ j \in InTx(s)
  <2>1. \A j \in Jobs : row'[j] = IF j \in InTx(s) /\ Exists(j)
                                  THEN [row[j] EXCEPT !.status = "pending"] ELSE row[j]
    BY <1>9 DEF Commit
  <2>2. row' = [j \in Jobs |-> row'[j]]
    BY DEF Commit
  <2>3. \A r \in RowType : /\ [r EXCEPT !.status = "pending"] \in RowType
                           /\ [r EXCEPT !.status = "pending"].status = "pending"
                           /\ [r EXCEPT !.status = "pending"].due = r.due
    BY DEF RowType, Status
  <2>4. row' \in [Jobs -> RowType]
    BY <1>4, <2>1, <2>2, <2>3
  <2> QED
    BY <1>4, <2>1, <2>3, <2>4 DEF Exists
<1>12. EnlistedOnce'
  <2>1. \A r \in Sessions : r # s => \A j \in InTx(r) : outcome'[j] = outcome[j]
    BY <1>4, <1>8, <1>10 DEF EnlistedOnce
  <2>2. \A j \in Jobs : outcome[j] # "none" => outcome'[j] # "none"
    BY <1>8
  <2> QED
    BY <1>4, <1>7, <1>9, <1>10, <2>1, <2>2 DEF EnlistedOnce
<1>13. UndoneIsGone'
  BY <1>4, <1>7, <1>8, <1>11 DEF UndoneIsGone
<1>14. PendingIsPromised'
  <2>1. \A j \in InTx(s) : n.at = "promoting" /\ j \in n.todo
    BY <1>2, <1>4, <1>6 DEF EnlistedOnce
  <2>2. ASSUME NEW j \in Jobs, row'[j].status = "pending", j \notin InTx(s)
        PROVE  \/ \E r \in Sessions : tx'[r].at = "promoting" /\ j \in tx'[r].todo
               \/ outcome'[j] = "lost"
    BY <1>4, <1>7, <1>8, <1>11, <2>2 DEF PendingIsPromised
  <2> QED
    BY <1>7, <2>1, <2>2 DEF PendingIsPromised
<1>15. EnlistedIsKept'
  <2>1. \A r \in Sessions : InTx(r)' \subseteq InTx(r) /\ InTx(r) \subseteq Jobs
    BY <1>9, <1>10
  <2> QED
    BY <1>4, <1>5, <1>11, <2>1 DEF EnlistedIsKept
<1>16. FirstTxIsAlone'
  <2>1. \A r \in Sessions : r # s => \A j \in tx[r].todo :
           outcome[j] = "rolledback" => outcome'[j] = "rolledback"
    BY <1>8, <1>10 DEF Enlisted
  <2>2. n.at # "open" /\ n.at # "discarding" /\ txs[s] # 0
    BY <1>2, <1>4, <1>6 DEF FirstTxIsAlone
  <2> QED
    BY <1>4, <1>5, <1>7, <1>9, <2>1, <2>2 DEF FirstTxIsAlone
<1>17. CommittedIsKept'
  <2> SUFFICES ASSUME \A r \in Sessions : txs[r] <= 1,
                      NEW j \in Outboxed, outcome'[j] = "committed", ~Exists(j)'
               PROVE  execs[j] > 0
    BY <1>5 DEF CommittedIsKept
  <2>1. j \in Jobs /\ ~Exists(j)
    BY <1>11, JobOutboxAssumption
  <2>2. CASE j \in InTx(s)
    BY <1>4, <2>1, <2>2 DEF EnlistedIsKept
  <2>3. CASE j \notin InTx(s)
    BY <1>4, <1>8, <2>1, <2>3 DEF CommittedIsKept
  <2> QED
    BY <2>2, <2>3
<1>18. locked' \subseteq Jobs
  BY <1>4, <1>5
<1>19. \A j \in Jobs : outcome'[j] = outcome[j] \/ (outcome[j] = "open" /\ outcome'[j] = "committed")
  BY <1>8
<1> QED
  BY <1>5, <1>7, <1>8, <1>11, <1>12, <1>13, <1>14, <1>15, <1>16, <1>17, <1>18, <1>19, WriteKeeps

\* A call of a listener takes its job off the session's round.
LEMMA DoneTakes ==
  ASSUME OutboxInv, NEW s \in Sessions, NEW j \in Jobs, j \in tx[s].todo,
         tx[s].at \in {"promoting", "discarding"}, tx' = Done(s, j),
         UNCHANGED <<outcome, txs>>
  PROVE  /\ tx' \in [Sessions -> TxType]
         /\ EnlistedOnce' /\ FirstTxIsAlone'
         /\ \A r \in Sessions : InTx(r)' = InTx(r) /\ (j \in InTx(r) => FALSE)
         /\ \A r \in Sessions : \A k \in tx[r].todo :
               k # j => k \in tx'[r].todo /\ tx'[r].at = tx[r].at
<1>1. PICK left : left = tx[s].todo \ {j}
  OBVIOUS
<1>2. PICK a : a = Round(tx[s].at, left)
  OBVIOUS
<1>3. PICK n : n = [tx[s] EXCEPT !.todo = left, !.at = a]
  OBVIOUS
<1>4. /\ tx \in [Sessions -> TxType] /\ EnlistedOnce /\ FirstTxIsAlone
  BY DEF OutboxInv
<1>5. tx' = [tx EXCEPT ![s] = n]
  BY <1>1, <1>2, <1>3, <1>4 DEF Done
<1>6. a \in {"idle", "promoting", "discarding"} /\ a \in {"idle", tx[s].at}
      /\ (left # {} => a = tx[s].at)
  BY <1>2 DEF Round
<1>7. /\ n \in TxType /\ n.at = a /\ n.todo = left
      /\ n.staged = tx[s].staged /\ n.flushed = tx[s].flushed
      /\ n.promote = tx[s].promote /\ n.discard = tx[s].discard
  BY <1>1, <1>3, <1>4, <1>6 DEF TxType
<1>8. /\ tx' \in [Sessions -> TxType] /\ tx'[s] = n
      /\ \A r \in Sessions : r # s => tx'[r] = tx[r]
  BY <1>4, <1>5, <1>7
<1>9. \A r \in Sessions : /\ InTx(r)' = InTx(r) /\ Enlisted(r)' \subseteq Enlisted(r)
                          /\ InTx(r) \subseteq Enlisted(r)
  BY <1>1, <1>7, <1>8 DEF InTx, Enlisted
<1>10. InTx(s) = {} /\ \A r \in Sessions : j \notin InTx(r)
  BY <1>4, <1>9 DEF EnlistedOnce, Enlisted
<1>11. EnlistedOnce'
  BY <1>4, <1>7, <1>8, <1>9, <1>10 DEF EnlistedOnce
<1>12. FirstTxIsAlone'
  BY <1>1, <1>4, <1>6, <1>7, <1>8, <1>9 DEF FirstTxIsAlone
<1>13. \A r \in Sessions : \A k \in tx[r].todo :
          k # j => k \in tx'[r].todo /\ tx'[r].at = tx[r].at
  BY <1>1, <1>6, <1>7, <1>8
<1> QED
  BY <1>8, <1>9, <1>10, <1>11, <1>12, <1>13

LEMMA PromoteKeeps ==
  ASSUME OutboxInv, NEW s \in Sessions, NEW j \in Jobs, Promote(s, j)
  PROVE  OutboxInv'
<1>1. /\ row \in [Jobs -> RowType] /\ UndoneIsGone /\ PendingIsPromised
      /\ EnlistedIsKept /\ CommittedIsKept /\ locked \subseteq Jobs
      /\ tx[s].at = "promoting" /\ j \in tx[s].todo /\ tx' = Done(s, j)
      /\ UNCHANGED <<born, locked, proc, counters, execs, outcome, txs>>
  BY DEF OutboxInv, TypeOK, Promote
<1>2. /\ tx' \in [Sessions -> TxType] /\ EnlistedOnce' /\ FirstTxIsAlone'
      /\ \A r \in Sessions : InTx(r)' = InTx(r)
      /\ \A r \in Sessions : \A k \in tx[r].todo :
            k # j => k \in tx'[r].todo /\ tx'[r].at = tx[r].at
  BY <1>1, DoneTakes
<1>3. PICK st : st = IF row[j].status = "pending" THEN "enqueued" ELSE row[j].status
  OBVIOUS
<1>4. PICK r : r = [row[j] EXCEPT !.status = st]
  OBVIOUS
<1>5. row' = [row EXCEPT ![j] = r]
  BY <1>1, <1>3, <1>4 DEF Promote
<1>6. /\ r \in RowType /\ r.status # "pending" /\ r.due = row[j].due
      /\ r.status = "absent" <=> row[j].status = "absent"
  BY <1>1, <1>3, <1>4 DEF RowType, Status
<1>7. /\ row' \in [Jobs -> RowType]
      /\ \A k \in Jobs : /\ Exists(k)' <=> Exists(k)
                         /\ row'[k].due = row[k].due
                         /\ row'[k].status = "pending" => k # j /\ row[k].status = "pending"
  BY <1>1, <1>5, <1>6 DEF Exists
<1>8. UndoneIsGone'
  <2> SUFFICES ASSUME NEW k \in Jobs, Exists(k)
               PROVE  /\ outcome[k] # "missed"
                      /\ outcome[k] = "rolledback" =>
                            \E q \in Sessions : tx'[q].at = "discarding" /\ k \in tx'[q].todo
    BY <1>1, <1>7 DEF UndoneIsGone
  <2>1. outcome[k] # "missed"
    BY <1>1 DEF UndoneIsGone
  <2>2. CASE outcome[k] = "rolledback"
    <3>1. PICK q \in Sessions : tx[q].at = "discarding" /\ k \in tx[q].todo
      BY <1>1, <2>2 DEF UndoneIsGone
    <3>2. k # j
      <4>1. k = j => k \in Enlisted(s) /\ k \in Enlisted(q)
        BY <1>1, <3>1 DEF Enlisted
      <4>2. k = j => q = s
        BY <4>1 DEF OutboxInv, EnlistedOnce
      <4> QED
        BY <1>1, <3>1, <4>2
    <3>3. tx'[q].at = "discarding" /\ k \in tx'[q].todo
      BY <1>2, <3>1, <3>2
    <3> QED
      BY <2>1, <3>3
  <2> QED
    BY <2>1, <2>2
<1>9. PendingIsPromised'
  BY <1>1, <1>2, <1>7 DEF PendingIsPromised
<1>10. EnlistedIsKept'
  <2>1. \A q \in Sessions : InTx(q) \subseteq Jobs
    BY DEF OutboxInv, TxType, InTx
  <2> QED
    BY <1>1, <1>2, <1>7, <2>1 DEF EnlistedIsKept
<1>11. CommittedIsKept'
  BY <1>1, <1>7, JobOutboxAssumption DEF CommittedIsKept
<1>12. outcome' = [k \in Jobs |-> outcome'[k]]
  BY <1>1 DEF OutboxInv
<1> QED
  BY <1>1, <1>2, <1>7, <1>8, <1>9, <1>10, <1>11, <1>12, WriteKeeps

LEMMA DiscardKeeps ==
  ASSUME OutboxInv, NEW s \in Sessions, NEW j \in Jobs, Discard(s, j)
  PROVE  OutboxInv'
<1>1. /\ row \in [Jobs -> RowType] /\ UndoneIsGone /\ PendingIsPromised
      /\ EnlistedIsKept /\ CommittedIsKept /\ FirstTxIsAlone /\ locked \subseteq Jobs
      /\ tx[s].at = "discarding" /\ j \in tx[s].todo /\ tx' = Done(s, j)
      /\ row' = [row EXCEPT ![j] = Absent]
      /\ UNCHANGED <<born, locked, proc, counters, execs, outcome, txs>>
  BY DEF OutboxInv, TypeOK, Discard
<1>2. /\ tx' \in [Sessions -> TxType] /\ EnlistedOnce' /\ FirstTxIsAlone'
      /\ \A r \in Sessions : InTx(r)' = InTx(r) /\ j \notin InTx(r)
      /\ \A r \in Sessions : \A k \in tx[r].todo :
            k # j => k \in tx'[r].todo /\ tx'[r].at = tx[r].at
  BY <1>1, DoneTakes
<1>3. Absent \in RowType /\ Absent.status = "absent" /\ ~Absent.due
  BY DEF Absent, RowType, Status
<1>4. /\ row' \in [Jobs -> RowType] /\ ~Exists(j)'
      /\ \A k \in Jobs : k # j => row'[k] = row[k] /\ (Exists(k)' <=> Exists(k))
      /\ \A k \in Jobs : /\ Exists(k)' => Exists(k)
                         /\ row'[k].due => row[k].due
                         /\ row'[k].status = "pending" => k # j /\ row[k].status = "pending"
  BY <1>1, <1>3 DEF Exists
<1>5. UndoneIsGone'
  BY <1>1, <1>2, <1>4 DEF UndoneIsGone
<1>6. PendingIsPromised'
  BY <1>1, <1>2, <1>4 DEF PendingIsPromised
<1>7. EnlistedIsKept'
  <2>1. \A q \in Sessions : InTx(q) \subseteq Jobs
    BY DEF OutboxInv, TxType, InTx
  <2> QED
    BY <1>1, <1>2, <1>4, <2>1 DEF EnlistedIsKept
<1>8. CommittedIsKept'
  <2> SUFFICES ASSUME \A r \in Sessions : txs[r] <= 1,
                      NEW k \in Outboxed, outcome[k] = "committed", ~Exists(k)'
               PROVE  execs[k] > 0
    BY <1>1 DEF CommittedIsKept
  <2>1. outcome[j] = "rolledback"
    BY <1>1 DEF FirstTxIsAlone
  <2>2. k \in Jobs /\ k # j
    BY <2>1, JobOutboxAssumption
  <2> QED
    BY <1>1, <1>4, <2>2 DEF CommittedIsKept
<1>9. outcome' = [k \in Jobs |-> outcome'[k]]
  BY <1>1 DEF OutboxInv
<1> QED
  BY <1>1, <1>2, <1>4, <1>5, <1>6, <1>7, <1>8, <1>9, WriteKeeps

-----------------------------------------------------------------------------
LEMMA OutboxStarts ==
  ASSUME OutboxInit
  PROVE  OutboxInv
<1>1. TypeOK
  BY InitType DEF OutboxInit
<1>2. /\ \A j \in Jobs : /\ ~Exists(j) /\ row[j].status = "absent" /\ ~row[j].due
                         /\ execs[j] = 0 /\ outcome[j] = "none"
      /\ \A p \in Procs : /\ poll[p].ids = {} /\ \A j \in Jobs : queued[p][j] = 0
                          /\ \A t \in Threads : run[p][t] = Idle
  BY DEF OutboxInit, Init, Absent, NoPoll, Exists
<1>3. /\ tx \in [Sessions -> TxType] /\ outcome = [j \in Jobs |-> outcome[j]]
      /\ txs \in [Sessions -> Nat]
      /\ \A s \in Sessions : /\ tx[s].at = "idle" /\ txs[s] = 0
                             /\ tx[s].staged = {} /\ tx[s].flushed = {} /\ tx[s].promote = {}
                             /\ tx[s].discard = {} /\ tx[s].todo = {}
  <2>1. /\ NoTx \in TxType /\ NoTx.at = "idle" /\ NoTx.staged = {} /\ NoTx.flushed = {}
        /\ NoTx.promote = {} /\ NoTx.discard = {} /\ NoTx.todo = {}
    BY DEF NoTx, TxType
  <2> QED
    BY <2>1 DEF OutboxInit
<1>4. EnlistedOnce /\ FirstTxIsAlone /\ EnlistedIsKept
  BY <1>3 DEF EnlistedOnce, FirstTxIsAlone, EnlistedIsKept, InTx, Enlisted
<1>5. UndoneIsGone /\ PendingIsPromised /\ CommittedIsKept
  BY <1>2, JobOutboxAssumption DEF UndoneIsGone, PendingIsPromised, CommittedIsKept
<1>6. WaitersWait /\ RunsAreCounted
  BY <1>2, JobOutboxAssumption DEF WaitersWait, RunsAreCounted, Moving
<1> QED
  BY <1>1, <1>2, <1>3, <1>4, <1>5, <1>6 DEF OutboxInv

LEMMA OutboxSteps ==
  ASSUME OutboxInv, [OutboxNext]_allvars
  PROVE  OutboxInv'
<1>1. CASE Queue \/ UNCHANGED allvars
  BY <1>1, QueueKeeps
<1>2. ASSUME NEW s \in Sessions, Begin(s) \/ Finishes(s) \/ Die(s)
      PROVE  OutboxInv'
  <2>1. CASE Begin(s)
    BY <2>1, BeginKeeps
  <2>2. CASE Flush(s)
    BY <2>2, FlushKeeps
  <2>3. CASE FlushFails(s) \/ Rollback(s)
    BY <2>3, RolledBackKeeps DEF FlushFails, Rollback
  <2>4. CASE Commit(s)
    BY <2>4, CommitKeeps
  <2>5. CASE Close(s)
    BY <2>5, CloseTxKeeps
  <2>6. CASE Die(s)
    BY <2>6, DieKeeps
  <2> QED
    BY <1>2, <2>1, <2>2, <2>3, <2>4, <2>5, <2>6 DEF Finishes
<1>3. ASSUME NEW s \in Sessions, NEW j \in Jobs,
             Enlist(s, j) \/ EnlistMisses(s, j) \/ Listens(s, j)
      PROVE  OutboxInv'
  BY <1>3, EnlistKeeps, EnlistMissesKeeps, PromoteKeeps, DiscardKeeps DEF Listens
<1> QED
  BY <1>1, <1>2, <1>3 DEF OutboxNext

\* The inductive invariant of the outbox: jobs are enlisted once, what was
\* undone is gone, and a waiting job moves only after its transaction ended.
THEOREM OutboxInvariant == OutboxSpec => []OutboxInv
BY OutboxStarts, OutboxSteps, PTL DEF OutboxSpec

\* A job with a wait that outlasts its transaction runs only after the commit,
\* a death of the session or a close that calls no listener.
THEOREM WaitersAreSafe == OutboxSpec => []WaitersRunCommitted
<1>1. OutboxInv => WaitersRunCommitted
  BY DEF OutboxInv, WaitersWait, Moving, WaitersRunCommitted
<1> QED
  BY <1>1, OutboxInvariant, PTL

\* A PENDING row has its _promote still to come, unless that process died.
THEOREM PendingIsPutBack == OutboxSpec => []PendingIsPromised
<1>1. OutboxInv => PendingIsPromised
  BY DEF OutboxInv
<1> QED
  BY <1>1, OutboxInvariant, PTL

\* A committed job's row stays until the job has been executed, while no
\* session is used for a second transaction.
THEOREM CommittedStays == OutboxSpec => []CommittedIsKept
<1>1. OutboxInv => CommittedIsKept
  BY DEF OutboxInv
<1> QED
  BY <1>1, OutboxInvariant, PTL
=============================================================================
