----------------------------- MODULE AuditTrail -----------------------------
(***************************************************************************)
(* The flush listeners of the audit component: one row of an audited model *)
(* with a natural primary key, written by several SQLAlchemy sessions, and *)
(* the table audit_records.  A flush runs before_flush, inserts the audit  *)
(* records it added, which stamps their created_at, writes the row, which  *)
(* waits for the row's lock, and runs after_flush.  (SQLAlchemy orders the *)
(* two statements by the models' names; this is the order that can race.)  *)
(***************************************************************************)
EXTENDS Naturals

CONSTANTS
    Sessions, NoSession,
    Values, NoValue,        \* the tracked columns; NoValue: none, or not loaded
    MaxFlushes, MaxUndone   \* bounds: flushes, transactions rolled back

ASSUME AuditAssumption ==
    /\ NoSession \notin Sessions /\ NoValue \notin Values
    /\ MaxFlushes \in Nat /\ MaxUndone \in Nat

VARIABLES
    row,        \* the committed row's value, NoValue when there is no row
    lock,       \* the transaction that wrote the row, and what it wrote
    object,     \* object[s]: the session's instance
    queued,     \* audit_registry._pending_creates[id(session)]
    added,      \* the CREATE record after_flush added, for the next flush
    trail,      \* audit_records, those of open transactions too
    stamp,      \* created_at of the last one inserted
    blur,       \* history: why the last writer's trail may not tell the row
    swept,      \* history: a sweep ran
    failed,     \* history: sessions whose last flush was an INSERT that failed
    flushes, undone     \* bound counters

audits == <<row, lock, object, queued, added, trail, stamp, blur, swept, failed, flushes, undone>>

Rows == Values \cup {NoValue}
Reasons == {"crossed", "unread", "leftover"}
ObjectType == [is : {"none", "new", "held", "expired", "doomed"},
               value : Rows, base : Rows, flushing : BOOLEAN]
RecordType == [action : {"create", "update", "destroy"}, value : Rows,
               at : Nat, by : Sessions, kept : BOOLEAN]
NoObject == [is |-> "none", value |-> NoValue, base |-> NoValue, flushing |-> FALSE]
Expired == [is |-> "expired", value |-> NoValue, base |-> NoValue, flushing |-> FALSE]
Unlocked == [by |-> NoSession, row |-> NoValue, blur |-> {}]

AuditInit ==
    /\ row = NoValue /\ lock = Unlocked
    /\ object = [s \in Sessions |-> NoObject]
    /\ queued = [s \in Sessions |-> NoValue]
    /\ added = [s \in Sessions |-> NoValue]
    /\ trail = {} /\ stamp = 0
    /\ blur = {} /\ swept = FALSE /\ failed = {}
    /\ flushes = 0 /\ undone = 0

Seen(s) == IF lock.by = s THEN lock.row ELSE row
Record(s, action, value, at) ==
    [action |-> action, value |-> value, at |-> at, by |-> s, kept |-> FALSE]
Trail == {r \in trail : r.kept}

-----------------------------------------------------------------------------
(* What the application does with its instance between two flushes.        *)

Becomes(s, o) ==
    /\ ~object[s].flushing
    /\ object' = [object EXCEPT ![s] = o]
    /\ UNCHANGED <<row, lock, queued, added, trail, stamp, blur, swept, failed, flushes, undone>>

New(value) == [is |-> "new", value |-> value, base |-> NoValue, flushing |-> FALSE]
Held(value, base) == [is |-> "held", value |-> value, base |-> base, flushing |-> FALSE]

Load(s) ==
    /\ object[s].is \in {"none", "expired"}
    /\ IF Seen(s) # NoValue THEN Becomes(s, Held(Seen(s), Seen(s)))
       ELSE object[s].is = "expired" /\ Becomes(s, NoObject)

Make(s, v) ==
    /\ object[s].is = "none"
    /\ Becomes(s, New(v))

\* An assignment to an expired attribute does not load it: no old value.
Assign(s, v) ==
    /\ object[s].is \in {"held", "expired"} /\ object[s].value # v
    /\ Becomes(s, Held(v, object[s].base))

Destroy(s) ==
    /\ object[s].is = "held" /\ object[s].value = object[s].base
    /\ Becomes(s, [object[s] EXCEPT !.is = "doomed"])

-----------------------------------------------------------------------------
(* session.flush                                                            *)

Changed(s) == \/ object[s].is \in {"new", "doomed"}
              \/ object[s].is = "held" /\ object[s].value # object[s].base

\* The record after_flush added.
Flushed(s) == {Record(s, "create", added[s], stamp + 1) : v \in {added[s]} \ {NoValue}}

\* _build_update_record, _build_destroy_record.
Built(s) ==
    LET o == object[s] IN
    CASE o.is = "held" /\ o.base # NoValue -> {Record(s, "update", o.value, stamp + 2)}
      [] o.is = "doomed" -> {Record(s, "destroy", o.value, stamp + 2)}
      [] OTHER -> {}

\* before_flush, and the INSERTs of what it and the last after_flush added.
FlushAudits(s) ==
    /\ Changed(s) /\ ~object[s].flushing /\ flushes < MaxFlushes
    /\ queued' = [queued EXCEPT ![s] = IF object[s].is = "new" THEN object[s].value ELSE @]
    /\ trail' = trail \cup Flushed(s) \cup Built(s) /\ stamp' = stamp + 2
    /\ added' = [added EXCEPT ![s] = NoValue]
    /\ object' = [object EXCEPT ![s].flushing = TRUE]
    /\ flushes' = flushes + 1
    /\ UNCHANGED <<row, lock, blur, swept, failed, undone>>

\* INSERT: the key is free.  UPDATE, DELETE: the row is still there.
Writable(s) == (object[s].is = "new") = (Seen(s) = NoValue)
CanWrite(s) == object[s].flushing /\ lock.by \in {s, NoSession}

\* A record of this transaction is older than one committed meanwhile.
Crossed(s) == \E q, r \in trail : q.by = s /\ ~q.kept /\ r.kept /\ q.at < r.at
Why(s) ==
    LET o == object[s] IN
    (IF Crossed(s) THEN {"crossed"} ELSE {})
    \cup (IF o.is = "held" /\ o.base = NoValue THEN {"unread"} ELSE {})
    \cup (IF o.is # "new" /\ s \in failed THEN {"leftover"} ELSE {})

\* Mutant: _pending_creates is read, not popped.
PoppedNever(s) == queued

\* after_flush pops _pending_creates.
Popped(s) == [queued EXCEPT ![s] = NoValue]

\* The row's statement, and after_flush.
FlushRow(s) ==
    LET o == object[s] IN
    /\ CanWrite(s) /\ Writable(s)
    /\ lock' = [by |-> s, row |-> IF o.is = "doomed" THEN NoValue ELSE o.value, blur |-> Why(s)]
    /\ object' = [object EXCEPT ![s] = IF o.is = "doomed" THEN NoObject
                                       ELSE Held(o.value, o.value)]
    /\ added' = [added EXCEPT ![s] = queued[s]]
    /\ queued' = Popped(s)
    /\ failed' = failed \ {s}
    /\ UNCHANGED <<row, trail, stamp, blur, swept, flushes, undone>>

-----------------------------------------------------------------------------
(* The end of a transaction.                                                *)

\* commit() flushes what after_flush added.
TrailCommit(s) ==
    LET Keep(r) == IF r.by = s THEN [r EXCEPT !.kept = TRUE] ELSE r IN
    /\ ~object[s].flushing /\ ~Changed(s)
    /\ trail' = {Keep(r) : r \in trail \cup Flushed(s)}
    /\ stamp' = IF Flushed(s) = {} THEN stamp ELSE stamp + 1
    /\ IF lock.by = s THEN row' = lock.row /\ blur' = lock.blur /\ lock' = Unlocked
       ELSE UNCHANGED <<row, blur, lock>>
    /\ added' = [added EXCEPT ![s] = NoValue]
    /\ UNCHANGED <<object, queued, swept, failed, flushes, undone>>

\* Instances that were in the database expire; the others leave the session.
TrailRollback(s) ==
    LET made == object[s].is = "new" \/ (lock.by = s /\ row = NoValue)
    IN
    /\ undone < MaxUndone /\ undone' = undone + 1
    /\ trail' = {r \in trail : r.kept \/ r.by # s}
    /\ lock' = IF lock.by = s THEN Unlocked ELSE lock
    /\ added' = [added EXCEPT ![s] = NoValue]
    /\ object' = [object EXCEPT ![s] =
                    IF made \/ @.is = "none" THEN NoObject ELSE Expired]
    /\ failed' = IF object[s].flushing /\ object[s].is = "new" THEN failed \cup {s} ELSE failed
    /\ UNCHANGED <<row, stamp, queued, blur, swept, flushes>>

\* SweepAuditJob: the records created before a cutoff.
SweepAudits ==
    /\ \E r \in Trail : trail' = {q \in trail : ~q.kept \/ q.at > r.at}
    /\ ~swept /\ swept' = TRUE
    /\ UNCHANGED <<row, lock, object, queued, added, stamp, blur, failed, flushes, undone>>

-----------------------------------------------------------------------------
AuditTypeOK ==
    /\ row \in Rows /\ lock \in [by : Sessions \cup {NoSession}, row : Rows, blur : SUBSET Reasons]
    /\ object \in [Sessions -> ObjectType]
    /\ queued \in [Sessions -> Rows] /\ added \in [Sessions -> Rows]
    /\ trail \subseteq RecordType /\ stamp \in Nat /\ blur \subseteq Reasons /\ swept \in BOOLEAN
    /\ failed \subseteq Sessions
    /\ flushes \in 0..MaxFlushes /\ undone \in 0..MaxUndone

(***************************************************************************)
(* The last committed audit record in created_at order, the state the last *)
(* version of audit_versions shows, agrees with the committed row: which   *)
(* transactions wrote what, in the order they did, none twice and none     *)
(* that rolled back.  The trail of the row's last writer may be wrong in   *)
(* three ways only: it assigned an attribute that was expired, so no       *)
(* UPDATE was recorded; its created_at is older than that of a transaction *)
(* it waited for; or it recorded the CREATE an earlier failed flush of the *)
(* same session had left in _pending_creates.                              *)
(***************************************************************************)
TrailTellsRow ==
    blur = {} =>
        IF Trail = {} THEN row = NoValue \/ swept
        ELSE \E last \in Trail :
                /\ \A r \in Trail : r.at <= last.at
                /\ IF last.action = "destroy" THEN row = NoValue ELSE row = last.value
=============================================================================
