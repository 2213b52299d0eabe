------------------------------ MODULE JobOutbox -----------------------------
(***************************************************************************)
(* JobHandle.with_session / DBAdapter.enlist on top of the job queue.       *)
(*                                                                         *)
(* perform_later() has already committed the row ENQUEUED.  Enlisting loads *)
(* it in the caller's session, sets PENDING there and arms two listeners on *)
(* the session, each good for one call: _promote after a commit, _discard   *)
(* after a rollback.  The UPDATE reaches the database with the session's    *)
(* next flush; from then on it holds the row's lock.  A listener works in a *)
(* session of its own, after the caller's transaction; its read and write   *)
(* of one row by key are one step here.                                     *)
(***************************************************************************)
EXTENDS JobQueue

CONSTANTS
    Sessions,       \* sessions of the callers
    Outboxed,       \* jobs whose caller uses with_session
    Early,          \* jobs that may come due before their transaction has ended
    Closes,         \* callers may leave the end of a transaction to close()
    MaxTx,          \* bound: transactions of one session
    MaxDeaths       \* bound: sessions whose process dies

ASSUME JobOutboxAssumption ==
    /\ Outboxed \subseteq Jobs /\ Early \subseteq Outboxed
    /\ Closes \in BOOLEAN
    /\ MaxTx \in Nat /\ MaxDeaths \in Nat

VARIABLES
    tx,         \* tx[s]: the session's transaction and its armed listeners
    outcome,    \* outcome[j]: what became of the transaction that enlisted j
    txs,        \* txs[s]: transactions begun so far
    deaths      \* sessions lost with their process so far

outbox == <<tx, outcome, txs, deaths>>
allvars == <<vars, outbox>>

\* at: idle, open, promoting, discarding or dead.  staged: PENDING in memory
\* only; flushed: UPDATE sent, row locked; promote, discard: listeners still
\* armed; todo: listener calls under way.
NoTx == [at |-> "idle", staged |-> {}, flushed |-> {},
         promote |-> {}, discard |-> {}, todo |-> {}]

Decided(j) == /\ outcome[j] \in {"missed", "committed", "rolledback", "closed", "lost"}
              /\ \A s \in Sessions : j \notin tx[s].todo

OutboxInit ==
    /\ Init
    /\ tx = [s \in Sessions |-> NoTx]
    /\ outcome = [j \in Jobs |-> "none"]
    /\ txs = [s \in Sessions |-> 0]
    /\ deaths = 0

-----------------------------------------------------------------------------
\* The caller uses its session: a transaction begins.
Begin(s) ==
    /\ tx[s].at = "idle" /\ txs[s] < MaxTx
    /\ tx' = [tx EXCEPT ![s].at = "open"]
    /\ txs' = [txs EXCEPT ![s] = @ + 1]
    /\ UNCHANGED <<vars, outcome, deaths>>

\* Mutant: no after_commit listener.
EnlistWithoutPromote(s, j) ==
    /\ tx[s].at = "open"
    /\ j \in Outboxed \cap born /\ outcome[j] = "none"
    /\ Exists(j)
    /\ tx' = [tx EXCEPT ![s].staged = @ \cup {j}, ![s].discard = @ \cup {j}]
    /\ outcome' = [outcome EXCEPT ![j] = "open"]
    /\ UNCHANGED <<vars, txs, deaths>>

Enlist(s, j) ==
    /\ tx[s].at = "open"
    /\ j \in Outboxed \cap born /\ outcome[j] = "none"
    /\ Exists(j)
    /\ tx' = [tx EXCEPT ![s].staged = @ \cup {j}, ![s].promote = @ \cup {j},
                        ![s].discard = @ \cup {j}]
    /\ outcome' = [outcome EXCEPT ![j] = "open"]
    /\ UNCHANGED <<vars, txs, deaths>>

\* The row is gone when the caller enlists it: logged, nothing happens.
EnlistMisses(s, j) ==
    /\ tx[s].at = "open"
    /\ j \in Outboxed \cap born /\ outcome[j] = "none"
    /\ ~Exists(j)
    /\ outcome' = [outcome EXCEPT ![j] = "missed"]
    /\ UNCHANGED <<vars, tx, txs, deaths>>

\* The outcome of every job enlisted in the open transaction of s.
Outcomes(s, o) ==
    [j \in Jobs |-> IF j \in tx[s].staged \cup tx[s].flushed THEN o ELSE outcome[j]]

\* A listener round: the calls in todo, or none.
Round(at, todo) == IF todo = {} THEN "idle" ELSE at

Flush(s) ==
    /\ tx[s].at = "open" /\ tx[s].staged # {}
    /\ Writable(tx[s].staged)
    /\ Unnoticed(tx[s].staged)
    /\ locked' = locked \cup (tx[s].staged \ Missing(tx[s].staged))
    /\ tx' = [tx EXCEPT ![s].flushed = @ \cup tx[s].staged, ![s].staged = {}]
    /\ UNCHANGED <<row, born, proc, counters, execs, outcome, txs, deaths>>

\* Mutant: no listener is called after a rollback.
RolledBackSilently(s) ==
    /\ locked' = locked \ tx[s].flushed
    /\ tx' = [tx EXCEPT ![s] = [@ EXCEPT !.at = "idle", !.staged = {},
                                         !.flushed = {}, !.discard = {}]]
    /\ outcome' = Outcomes(s, "rolledback")
    /\ UNCHANGED <<row, born, proc, counters, execs, txs, deaths>>

\* Rows of the rolled back transaction keep their committed values.
RolledBack(s) ==
    /\ locked' = locked \ tx[s].flushed
    /\ tx' = [tx EXCEPT ![s] =
                [@ EXCEPT !.at = Round("discarding", tx[s].discard),
                          !.staged = {}, !.flushed = {},
                          !.todo = tx[s].discard, !.discard = {}]]
    /\ outcome' = Outcomes(s, "rolledback")
    /\ UNCHANGED <<row, born, proc, counters, execs, txs, deaths>>

\* The UPDATE hits a deleted row: the flush raises and rolls back.
FlushFails(s) ==
    /\ tx[s].at = "open"
    /\ Missing(tx[s].staged) # {}
    /\ RolledBack(s)

\* The caller rolls back.
Rollback(s) ==
    /\ tx[s].at = "open"
    /\ RolledBack(s)

\* Mutant: the commit calls the rollback's listeners.
CommitDiscards(s) ==
    /\ tx[s].at = "open" /\ tx[s].staged = {}
    /\ row' = [j \in Jobs |-> IF j \in tx[s].flushed /\ Exists(j)
                              THEN [row[j] EXCEPT !.status = "pending"]
                              ELSE row[j]]
    /\ locked' = locked \ tx[s].flushed
    /\ tx' = [tx EXCEPT ![s] =
                [@ EXCEPT !.at = Round("discarding", tx[s].discard),
                          !.flushed = {}, !.todo = tx[s].discard,
                          !.discard = {}]]
    /\ outcome' = Outcomes(s, "committed")
    /\ UNCHANGED <<born, proc, counters, execs, txs, deaths>>

\* The UPDATE sets PENDING whatever status the row has by then.
Commit(s) ==
    /\ tx[s].at = "open" /\ tx[s].staged = {}
    /\ row' = [j \in Jobs |-> IF j \in tx[s].flushed /\ Exists(j)
                              THEN [row[j] EXCEPT !.status = "pending"]
                              ELSE row[j]]
    /\ locked' = locked \ tx[s].flushed
    /\ tx' = [tx EXCEPT ![s] =
                [@ EXCEPT !.at = Round("promoting", tx[s].promote),
                          !.flushed = {}, !.todo = tx[s].promote,
                          !.promote = {}]]
    /\ outcome' = Outcomes(s, "committed")
    /\ UNCHANGED <<born, proc, counters, execs, txs, deaths>>

\* Session.close() without commit, as the session dependencies do when the
\* handler raises: rolled back, but no listener is called.
Close(s) ==
    /\ Closes
    /\ tx[s].at = "open"
    /\ locked' = locked \ tx[s].flushed
    /\ tx' = [tx EXCEPT ![s] = [@ EXCEPT !.at = "idle", !.staged = {},
                                         !.flushed = {}]]
    /\ outcome' = Outcomes(s, "closed")
    /\ UNCHANGED <<row, born, proc, counters, execs, txs, deaths>>

Done(s, j) == [tx EXCEPT ![s].todo = @ \ {j},
                         ![s].at = Round(@, tx[s].todo \ {j})]

\* _promote: back to ENQUEUED, if the row is still PENDING.
Promote(s, j) ==
    /\ tx[s].at = "promoting" /\ j \in tx[s].todo
    /\ Writable({j})
    /\ row' = [row EXCEPT ![j].status = IF @ = "pending" THEN "enqueued" ELSE @]
    /\ tx' = Done(s, j)
    /\ UNCHANGED <<born, locked, proc, counters, execs, outcome, txs, deaths>>

\* _discard: delete the row, whatever its status.
Discard(s, j) ==
    /\ tx[s].at = "discarding" /\ j \in tx[s].todo
    /\ Writable({j})
    /\ row' = [row EXCEPT ![j] = Absent]
    /\ tx' = Done(s, j)
    /\ UNCHANGED <<born, locked, proc, counters, execs, outcome, txs, deaths>>

\* The caller's process dies, in a transaction or between it and a listener.
Die(s) ==
    /\ deaths < MaxDeaths
    /\ tx[s].at # "dead"
    /\ deaths' = deaths + 1
    /\ locked' = locked \ tx[s].flushed
    /\ outcome' = [j \in Jobs |->
                     IF j \in tx[s].staged \cup tx[s].flushed \cup tx[s].todo
                     THEN "lost" ELSE outcome[j]]
    /\ tx' = [tx EXCEPT ![s] = [NoTx EXCEPT !.at = "dead"]]
    /\ UNCHANGED <<row, born, proc, counters, execs, txs>>

-----------------------------------------------------------------------------
\* Callers give the other outboxed jobs a wait that outlasts their transaction:
\* perform_later on set(wait = ...).
MayComeDue == \A j \in Outboxed \ Early : row'[j].due /\ ~row[j].due => Decided(j)

Queue == Next /\ MayComeDue /\ UNCHANGED outbox

Listens(s, j) == Promote(s, j) \/ Discard(s, j)
Finishes(s) == Flush(s) \/ FlushFails(s) \/ Commit(s) \/ Rollback(s) \/ Close(s)

OutboxNext ==
    \/ Queue
    \/ \E s \in Sessions : Begin(s) \/ Finishes(s) \/ Die(s)
    \/ \E s \in Sessions, j \in Jobs :
           Enlist(s, j) \/ EnlistMisses(s, j) \/ Listens(s, j)

OutboxSpec == OutboxInit /\ [][OutboxNext]_allvars

OutboxFairness ==
    /\ \A p \in Procs : /\ WF_vars(Polls(p)) /\ WF_vars(Sweeps(p))
                        /\ WF_vars(Stopped(p)) /\ WF_vars(Start(p))
    /\ \A p \in Procs, j \in Jobs : WF_vars(Begins(p, j))
    /\ \A p \in Procs, t \in Threads : WF_vars(Ends(p, t))
    /\ \A j \in Jobs : /\ WF_vars(BackoffElapses(j) /\ MayComeDue)
                       /\ WF_vars(OrphanTimesOut(j))
    /\ \A s \in Sessions : WF_allvars(Finishes(s))
    /\ \A s \in Sessions, j \in Jobs : WF_allvars(Listens(s, j))

FairOutboxSpec == OutboxSpec /\ OutboxFairness

-----------------------------------------------------------------------------
(* Properties.                                                              *)

\* The job row commits with the business transaction: a job is executed only
\* after the transaction that enlisted it committed, or its process died.
NeverRunsUncommitted ==
    \A j \in Outboxed : execs[j] > 0 => outcome[j] \in {"committed", "lost"}

\* So it is for jobs with a wait that outlasts their transaction, whatever
\* sweeps, slow workers and other transactions do meanwhile: unless the session
\* is closed in its transaction, which calls neither listener.
WaitersRunCommitted ==
    \A j \in Outboxed \ Early :
        execs[j] > 0 => outcome[j] \in {"committed", "lost", "closed"}

\* PENDING is a promise of the session that committed it: unless that process
\* died, its _promote is still to come.
PendingIsPromised ==
    \A j \in Jobs : row[j].status = "pending" =>
        \/ \E s \in Sessions : tx[s].at = "promoting" /\ j \in tx[s].todo
        \/ outcome[j] = "lost"

\* A committed job is not lost: it stays until it has been executed, as long as
\* no session is used for a second transaction, whose rollback would discard it.
CommittedIsKept ==
    (\A s \in Sessions : txs[s] <= 1) =>
        \A j \in Outboxed : outcome[j] = "committed" /\ ~Exists(j) => execs[j] > 0

\* A committed job comes to its end like any other, unless a death between
\* commit and _promote leaves it PENDING.
CommittedSettles ==
    \A j \in Outboxed : (outcome[j] = "committed") ~>
                            (row[j].status \in Ended \/ outcome[j] = "lost")
=============================================================================
