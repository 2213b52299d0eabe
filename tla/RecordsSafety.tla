--------------------------- MODULE RecordsSafety ---------------------------
(***************************************************************************)
(* RecordsHaveTheirFiles and TrailTellsRow for any number of sessions,     *)
(* files and values.  Neither is inductive.  The file a commit is about to *)
(* name must be there and in nobody else's hands, and a purge job that is  *)
(* still pending must not be for a file the column will name again.  The   *)
(* records of an open transaction must be ones that will tell the row when *)
(* they are committed.                                                     *)
(***************************************************************************)
EXTENDS Records, TLAPS

FilesTypeOK ==
    /\ column \in Columns
    /\ holds \in [Owners -> HoldType]
    /\ storage \subseteq Files /\ used \subseteq Files /\ keys \subseteq Files
    /\ regretted \subseteq Files /\ confirmed \subseteq Files /\ reused \subseteq Files
    /\ DOMAIN purging \subseteq Files

\* The files session s can touch, or has.
Has(s) == {holds[s].file, holds[s].base} \cup holds[s].fresh \cup holds[s].purged

EverythingIsUsed ==
    /\ keys \subseteq used /\ confirmed \subseteq keys /\ DOMAIN purging \subseteq used
    /\ column \in used \cup {NoFile}
    /\ \A s \in Owners : Has(s) \subseteq used \cup {NoFile}

\* What only the client has: in storage, and nowhere else.
KeysAreClients ==
    \A f \in keys \ confirmed :
        /\ f \in storage /\ f # column /\ f \notin DOMAIN purging
        /\ \A s \in Owners : f \notin Has(s)

\* What a session is about to commit is its own, and in storage.
PendingIsOwn ==
    \A s \in Owners :
        LET f == holds[s].file IN
        f \notin {NoFile, holds[s].base} \cup reused =>
            /\ f \in storage /\ f # column /\ f \notin DOMAIN purging
            /\ \A t \in Owners : f \notin holds[t].purged
            /\ \A t \in Owners \ {s} : f \notin Has(t)

\* What a rollback would delete was never committed.
FreshIsOwn ==
    \A s \in Owners : \A f \in holds[s].fresh :
        /\ f \notin keys
        /\ f # column /\ f # holds[s].base
        /\ \A t \in Owners \ {s} : f \notin Has(t)

\* A commit after purge() replaces the file that was purged.
PurgedIsReplaced ==
    \A s \in Owners :
        column \in holds[s].purged \ reused => holds[s].base = column /\ holds[s].file # column

Regretted == regretted \cup UNION {holds[s].purged : s \in Owners}

JobsAreKnown == column \in DOMAIN purging => column \in Regretted \cup reused

FilesInv ==
    /\ FilesTypeOK /\ EverythingIsUsed /\ KeysAreClients /\ PendingIsOwn
    /\ FreshIsOwn /\ PurgedIsReplaced /\ JobsAreKnown /\ RecordsHaveTheirFiles

-----------------------------------------------------------------------------
(* The initial states, and one lemma per action.                            *)

LEMMA FilesInitially == Init => FilesInv
BY AttachmentsAssumption
   DEF Init, AttachmentsInit, FilesInv, FilesTypeOK, EverythingIsUsed, KeysAreClients, PendingIsOwn,
       FreshIsOwn, PurgedIsReplaced, JobsAreKnown, RecordsHaveTheirFiles, Has, Holds, HoldType,
       Columns, Regretted

LEMMA FilesStutter == FilesInv /\ UNCHANGED attachments => FilesInv'
BY DEF attachments, direct, FilesInv, FilesTypeOK, EverythingIsUsed, KeysAreClients, PendingIsOwn,
       FreshIsOwn, PurgedIsReplaced, JobsAreKnown, RecordsHaveTheirFiles, Has, Regretted

LEMMA ReloadKeepsFiles ==
    ASSUME NEW s \in Owners, FilesInv, Reload(s)
    PROVE  FilesInv'
<1> USE AttachmentsAssumption DEF FilesInv, FilesTypeOK, HoldType, Columns, Reload, Untouched, Holds, direct
<1>1. FilesTypeOK'
  OBVIOUS
<1>2. EverythingIsUsed'
  BY DEF EverythingIsUsed, Has
<1>3. KeysAreClients'
  BY DEF KeysAreClients, Has
<1>4. PendingIsOwn'
  BY DEF PendingIsOwn, Has
<1>5. FreshIsOwn'
  BY DEF FreshIsOwn, Has
<1>6. PurgedIsReplaced'
  BY DEF PurgedIsReplaced
<1>7. JobsAreKnown'
  BY DEF JobsAreKnown, Regretted
<1>8. RecordsHaveTheirFiles'
  BY DEF RecordsHaveTheirFiles, Regretted
<1> QED BY <1>1, <1>2, <1>3, <1>4, <1>5, <1>6, <1>7, <1>8

LEMMA AttachKeepsFiles ==
    ASSUME NEW s \in Owners, NEW g \in Files, FilesInv, Attach(s, g)
    PROVE  FilesInv'
<1> USE AttachmentsAssumption DEF FilesInv, FilesTypeOK, HoldType, Columns, Attach, direct
<1>1. FilesTypeOK'
  BY DEF EverythingIsUsed, Has
<1>2. EverythingIsUsed'
  BY DEF EverythingIsUsed, Has
<1>3. KeysAreClients'
  BY DEF KeysAreClients, Has
<1>4. PendingIsOwn'
  BY DEF PendingIsOwn, Has, EverythingIsUsed
<1>5. FreshIsOwn'
  BY DEF FreshIsOwn, Has
<1>6. PurgedIsReplaced'
  BY DEF PurgedIsReplaced, EverythingIsUsed, Has
<1>7. JobsAreKnown'
  BY DEF JobsAreKnown, Regretted
<1>8. RecordsHaveTheirFiles'
  BY DEF RecordsHaveTheirFiles, Regretted
<1> QED BY <1>1, <1>2, <1>3, <1>4, <1>5, <1>6, <1>7, <1>8

LEMMA UploadKeepsFiles ==
    ASSUME NEW g \in Files, FilesInv, Upload(g)
    PROVE  FilesInv'
<1> USE AttachmentsAssumption DEF FilesInv, FilesTypeOK, HoldType, Columns, Upload
<1>1. FilesTypeOK'
  OBVIOUS
<1>2. EverythingIsUsed'
  BY DEF EverythingIsUsed, Has
<1>3. KeysAreClients'
  BY DEF KeysAreClients, Has, EverythingIsUsed
<1>4. PendingIsOwn'
  BY DEF PendingIsOwn, Has
<1>5. FreshIsOwn'
  BY DEF FreshIsOwn, Has, EverythingIsUsed
<1>6. PurgedIsReplaced'
  BY DEF PurgedIsReplaced
<1>7. JobsAreKnown'
  BY DEF JobsAreKnown, Regretted
<1>8. RecordsHaveTheirFiles'
  BY DEF RecordsHaveTheirFiles, Regretted
<1> QED BY <1>1, <1>2, <1>3, <1>4, <1>5, <1>6, <1>7, <1>8

LEMMA ConfirmKeepsFiles ==
    ASSUME NEW s \in Owners, NEW g \in Files, FilesInv, Confirm(s, g)
    PROVE  FilesInv'
<1> USE AttachmentsAssumption DEF FilesInv, FilesTypeOK, HoldType, Columns, Confirm
<1>1. FilesTypeOK'
  OBVIOUS
<1>2. EverythingIsUsed'
  BY DEF EverythingIsUsed, Has
<1>3. KeysAreClients'
  BY DEF KeysAreClients, Has
<1>4. PendingIsOwn'
  BY DEF PendingIsOwn, Has, KeysAreClients
<1>5. FreshIsOwn'
  BY DEF FreshIsOwn, Has, KeysAreClients
<1>6. PurgedIsReplaced'
  BY DEF PurgedIsReplaced, KeysAreClients, Has
<1>7. JobsAreKnown'
  BY DEF JobsAreKnown, Regretted
<1>8. RecordsHaveTheirFiles'
  BY DEF RecordsHaveTheirFiles, Regretted
<1> QED BY <1>1, <1>2, <1>3, <1>4, <1>5, <1>6, <1>7, <1>8

LEMMA PurgeKeepsFiles ==
    ASSUME NEW s \in Owners, FilesInv, Purge(s)
    PROVE  FilesInv'
<1> USE AttachmentsAssumption DEF FilesInv, FilesTypeOK, HoldType, Columns, Purge, Purged, direct
<1>1. FilesTypeOK'
  <2>1. holds[s].file \in Files
    OBVIOUS
  <2>2. DOMAIN purging' \subseteq Files
    BY <2>1
  <2>3. holds' \in [Owners -> HoldType]
    BY <2>1
  <2> QED BY <2>2, <2>3
<1>2. EverythingIsUsed'
  BY DEF EverythingIsUsed, Has
<1>3. KeysAreClients'
  BY DEF KeysAreClients, Has
<1>4. PendingIsOwn'
  BY DEF PendingIsOwn, Has
<1>5. FreshIsOwn'
  BY DEF FreshIsOwn, Has
<1>6. PurgedIsReplaced'
  BY DEF PurgedIsReplaced
<1>7. JobsAreKnown'
  BY DEF JobsAreKnown, Regretted
<1>8. RecordsHaveTheirFiles'
  BY DEF RecordsHaveTheirFiles, Regretted
<1> QED BY <1>1, <1>2, <1>3, <1>4, <1>5, <1>6, <1>7, <1>8

LEMMA CommitKeepsFiles ==
    ASSUME NEW s \in Owners, FilesInv, FileCommit(s)
    PROVE  FilesInv'
<1> USE AttachmentsAssumption DEF FilesInv, FilesTypeOK, HoldType, Columns, FileCommit, Holds, direct
<1>1. FilesTypeOK'
  OBVIOUS
<1>2. EverythingIsUsed'
  BY DEF EverythingIsUsed, Has
<1>3. KeysAreClients'
  BY DEF KeysAreClients, Has
<1>4. PendingIsOwn'
  BY DEF PendingIsOwn, Has
<1>5. FreshIsOwn'
  BY DEF FreshIsOwn, Has
<1>6. PurgedIsReplaced'
  BY DEF PurgedIsReplaced, PendingIsOwn, Has
<1>7. JobsAreKnown'
  BY DEF JobsAreKnown, Regretted, PendingIsOwn, Has, PurgedIsReplaced
<1>8. RecordsHaveTheirFiles'
  BY DEF RecordsHaveTheirFiles, Regretted, PendingIsOwn, Has, PurgedIsReplaced
<1> QED BY <1>1, <1>2, <1>3, <1>4, <1>5, <1>6, <1>7, <1>8

LEMMA RollbackKeepsFiles ==
    ASSUME NEW s \in Owners, FilesInv, FileRollback(s)
    PROVE  FilesInv'
<1> USE AttachmentsAssumption DEF FilesInv, FilesTypeOK, HoldType, Columns, FileRollback, Holds, direct
<1>1. FilesTypeOK'
  OBVIOUS
<1>2. EverythingIsUsed'
  BY DEF EverythingIsUsed, Has
<1>3. KeysAreClients'
  BY DEF KeysAreClients, Has
<1>4. PendingIsOwn'
  BY DEF PendingIsOwn, Has
<1>5. FreshIsOwn'
  BY DEF FreshIsOwn, Has
<1>6. PurgedIsReplaced'
  BY DEF PurgedIsReplaced
<1>7. JobsAreKnown'
  BY DEF JobsAreKnown, Regretted
<1>8. RecordsHaveTheirFiles'
  BY DEF RecordsHaveTheirFiles, Regretted, FreshIsOwn, Has
<1> QED BY <1>1, <1>2, <1>3, <1>4, <1>5, <1>6, <1>7, <1>8

LEMMA PurgeDoneKeepsFiles ==
    ASSUME NEW g \in Files, FilesInv, PurgeDone(g)
    PROVE  FilesInv'
<1> USE AttachmentsAssumption DEF FilesInv, FilesTypeOK, HoldType, Columns, PurgeDone, JobEnds, direct
<1>1. FilesTypeOK'
  OBVIOUS
<1>2. EverythingIsUsed'
  BY DEF EverythingIsUsed, Has
<1>3. KeysAreClients'
  BY DEF KeysAreClients, Has
<1>4. PendingIsOwn'
  BY DEF PendingIsOwn, Has
<1>5. FreshIsOwn'
  BY DEF FreshIsOwn, Has
<1>6. PurgedIsReplaced'
  BY DEF PurgedIsReplaced
<1>7. JobsAreKnown'
  BY DEF JobsAreKnown, Regretted
<1>8. RecordsHaveTheirFiles'
  BY DEF RecordsHaveTheirFiles, Regretted, JobsAreKnown
<1> QED BY <1>1, <1>2, <1>3, <1>4, <1>5, <1>6, <1>7, <1>8

LEMMA PurgeFailsKeepsFiles ==
    ASSUME NEW g \in Files, FilesInv, PurgeFails(g)
    PROVE  FilesInv'
<1> USE AttachmentsAssumption DEF FilesInv, FilesTypeOK, HoldType, Columns, PurgeFails, JobEnds, direct
<1>1. FilesTypeOK'
  OBVIOUS
<1>2. EverythingIsUsed'
  BY DEF EverythingIsUsed, Has
<1>3. KeysAreClients'
  BY DEF KeysAreClients, Has
<1>4. PendingIsOwn'
  BY DEF PendingIsOwn, Has
<1>5. FreshIsOwn'
  BY DEF FreshIsOwn, Has
<1>6. PurgedIsReplaced'
  BY DEF PurgedIsReplaced
<1>7. JobsAreKnown'
  BY DEF JobsAreKnown, Regretted
<1>8. RecordsHaveTheirFiles'
  BY DEF RecordsHaveTheirFiles, Regretted
<1> QED BY <1>1, <1>2, <1>3, <1>4, <1>5, <1>6, <1>7, <1>8

-----------------------------------------------------------------------------
(* The whole next-state relation.  That scene stays one of Scenes makes     *)
(* every session that acts one of Owners.                                   *)

LEMMA FilesNext ==
    ASSUME scene \in Scenes, FilesInv, [Next]_vars
    PROVE  scene' \in Scenes /\ FilesInv'
<1> USE RecordsAssumption
<1>1. scene' \in Scenes
  BY DEF Next, vars
<1>2. FilesInv'
  <2>1. CASE UNCHANGED vars
    BY <2>1, FilesStutter DEF vars
  <2>2. ASSUME NEW s \in scene.writers, Use(s), UNCHANGED attachments
        PROVE  FilesInv'
    BY <2>2, FilesStutter
  <2>3. ASSUME NEW s \in scene.owners, UseFile(s)
        PROVE  FilesInv'
    <3>1. s \in Owners
      OBVIOUS
    <3> QED
      BY <2>3, <3>1, ReloadKeepsFiles, AttachKeepsFiles, ConfirmKeepsFiles, PurgeKeepsFiles
         DEF UseFile
  <2>4. ASSUME NEW s \in Sessions, Commit(s) \/ Rollback(s)
        PROVE  FilesInv'
    BY <2>4, CommitKeepsFiles, RollbackKeepsFiles DEF Commit, Rollback
  <2>5. CASE SweepAudits /\ UNCHANGED attachments
    BY <2>5, FilesStutter
  <2>6. ASSUME NEW f \in Files, Upload(f) \/ PurgeDone(f) \/ PurgeFails(f)
        PROVE  FilesInv'
    BY <2>6, UploadKeepsFiles, PurgeDoneKeepsFiles, PurgeFailsKeepsFiles
  <2> QED
    BY <2>1, <2>2, <2>3, <2>4, <2>5, <2>6 DEF Next, Step
<1> QED BY <1>1, <1>2

(***************************************************************************)
(* The committed record names a file the storage has, for any number of    *)
(* sessions and files and whatever the purge jobs' order, unless a purge() *)
(* of it is not committed yet or never was, or its key was confirmed more  *)
(* than once.                                                              *)
(***************************************************************************)
THEOREM FilesKept == Spec => []RecordsHaveTheirFiles
<1>1. Init => scene \in Scenes /\ FilesInv
  BY FilesInitially DEF Init
<1>2. (scene \in Scenes /\ FilesInv) /\ [Next]_vars => (scene \in Scenes /\ FilesInv)'
  BY FilesNext
<1>3. FilesInv => RecordsHaveTheirFiles
  BY DEF FilesInv
<1> QED BY <1>1, <1>2, <1>3, PTL DEF Spec

-----------------------------------------------------------------------------
(* The audit trail.                                                         *)

\* A record tells a row's value.
Tells(r, value) == IF r.action = "destroy" THEN value = NoValue ELSE value = r.value

\* The records of a transaction that is open.
Own(s) == {r \in trail : r.by = s /\ ~r.kept}

AuditTyped ==
    /\ row \in Rows /\ lock.row \in Rows
    /\ object \in [Sessions -> ObjectType]
    /\ queued \in [Sessions -> Rows] /\ added \in [Sessions -> Rows]
    /\ stamp \in Nat
    /\ \A r \in trail : r \in RecordType /\ r.at <= stamp

\* A session that writes nothing has no records.
LeavesNothing(s) == ~object[s].flushing /\ lock.by # s => Own(s) = {} /\ added[s] = NoValue

\* What is queued is of this flush, or of one that failed.
QueuesItsOwn(s) ==
    queued[s] # NoValue => s \in failed \/ (object[s].flushing /\ object[s].is = "new")

\* What a flush is about to write, and what its records will tell.
Writes(o) == IF o.is = "doomed" THEN NoValue ELSE o.value
FlushTells(s) ==
    object[s].flushing =>
        /\ added[s] = NoValue
        /\ object[s].is \in {"new", "doomed", "held"}
        /\ object[s].is = "new" => queued[s] = object[s].value
        /\ object[s].is = "doomed" \/ (object[s].is = "held" /\ object[s].base # NoValue) =>
              \E r \in Own(s) : Tells(r, Writes(object[s])) /\ \A q \in Own(s) : q.at <= r.at

\* The record that will be the last tells what the transaction wrote.
LockTells(s) ==
    lock.by = s /\ lock.blur = {} /\ ~object[s].flushing =>
        IF added[s] # NoValue THEN added[s] = lock.row
        ELSE \E r \in Own(s) : Tells(r, lock.row) /\ \A q \in Own(s) \cup Trail : q.at <= r.at

SessionTells(s) ==
    /\ LeavesNothing(s) /\ QueuesItsOwn(s) /\ FlushTells(s) /\ LockTells(s)
    /\ object[s].is = "new" => object[s].value # NoValue

AuditInv ==
    /\ AuditTyped
    /\ \A s \in Sessions : SessionTells(s)
    /\ TrailTellsRow

-----------------------------------------------------------------------------
LEMMA AuditStart == AuditInit => AuditInv
<1> SUFFICES ASSUME AuditInit PROVE AuditInv
  OBVIOUS
<1>1. /\ object = [s \in Sessions |-> NoObject] /\ trail = {} /\ stamp = 0
      /\ queued = [s \in Sessions |-> NoValue] /\ added = [s \in Sessions |-> NoValue]
      /\ row = NoValue /\ lock.by = NoSession
  BY DEF AuditInit, Unlocked
<1>2. Trail = {} /\ \A s : Own(s) = {}
  BY <1>1 DEF Trail, Own
<1>3. AuditTyped
  BY <1>1 DEF AuditTyped, NoObject, ObjectType, Rows, AuditInit, Unlocked
<1>4. ASSUME NEW s \in Sessions PROVE SessionTells(s)
  <2>1. object[s].is = "none" /\ ~object[s].flushing /\ queued[s] = NoValue /\ added[s] = NoValue
    BY <1>1 DEF NoObject
  <2>2. lock.by # s
    BY <1>1, AuditAssumption
  <2> QED
    BY <1>2, <2>1, <2>2 DEF SessionTells, LeavesNothing, QueuesItsOwn, FlushTells, LockTells
<1> QED
  BY <1>1, <1>2, <1>3, <1>4 DEF AuditInv, TrailTellsRow

\* A session that a step is not about.
LEMMA OthersTell ==
  ASSUME NEW x \in Sessions, SessionTells(x),
         object'[x] = object[x], queued'[x] = queued[x], added'[x] = added[x],
         x \in failed => x \in failed', Own(x)' = Own(x),
         \/ lock' = lock /\ Trail' \subseteq Trail
         \/ lock.by # x /\ lock'.by # x
  PROVE  SessionTells(x)'
<1>1. LeavesNothing(x)'
  BY DEF SessionTells, LeavesNothing
<1>2. QueuesItsOwn(x)'
  BY DEF SessionTells, QueuesItsOwn
<1>3. FlushTells(x)'
  BY DEF SessionTells, FlushTells
<1>4. LockTells(x)'
  BY DEF SessionTells, LockTells
<1> QED
  BY <1>1, <1>2, <1>3, <1>4 DEF SessionTells

\* What committed stays.
LEMMA StillTells ==
  ASSUME TrailTellsRow, Trail' = Trail, row' = row, blur' = blur, swept' = swept
  PROVE  TrailTellsRow'
BY DEF TrailTellsRow

-----------------------------------------------------------------------------
\* The application works with its instance.
LEMMA BecomesTells ==
  ASSUME AuditInv, NEW s \in Sessions, NEW o \in ObjectType, Becomes(s, o), ~o.flushing, o.is = "new" => o.value # NoValue
  PROVE  AuditInv'
<1>1. /\ ~object[s].flushing /\ object'[s] = o /\ \A x \in Sessions \ {s} : object'[x] = object[x]
      /\ object' \in [Sessions -> ObjectType]
      /\ UNCHANGED <<row, lock, queued, added, trail, stamp, blur, swept, failed>>
  BY DEF AuditInv, AuditTyped, Becomes
<1>2. AuditTyped'
  BY <1>1 DEF AuditInv, AuditTyped
<1>3. Trail' = Trail /\ \A x \in Sessions : Own(x)' = Own(x)
  BY <1>1 DEF Trail, Own
<1>4. ASSUME NEW x \in Sessions \ {s} PROVE SessionTells(x)'
  BY <1>1, <1>3, OthersTell DEF AuditInv
<1>5. SessionTells(s)'
  <2>1. SessionTells(s)
    BY DEF AuditInv
  <2>2. LeavesNothing(s)'
    BY <1>1, <1>3, <2>1 DEF SessionTells, LeavesNothing
  <2>3. QueuesItsOwn(s)'
    BY <1>1, <2>1 DEF SessionTells, QueuesItsOwn
  <2>4. FlushTells(s)'
    BY <1>1 DEF FlushTells
  <2>5. LockTells(s)'
    BY <1>1, <1>3, <2>1 DEF SessionTells, LockTells
  <2> QED
    BY <1>1, <2>2, <2>3, <2>4, <2>5 DEF SessionTells
<1>6. TrailTellsRow'
  BY <1>1, <1>3, StillTells DEF AuditInv
<1> QED
  BY <1>2, <1>4, <1>5, <1>6 DEF AuditInv

LEMMA InstanceTells ==
  ASSUME AuditInv, NEW s \in Sessions,
         Load(s) \/ (\E v \in Values : Make(s, v) \/ Assign(s, v)) \/ Destroy(s)
  PROVE  AuditInv'
<1>1. CASE Load(s)
  <2>1. Becomes(s, Held(Seen(s), Seen(s))) \/ Becomes(s, NoObject)
    BY <1>1 DEF Load
  <2>2. Becomes(s, Held(Seen(s), Seen(s))) => AuditInv'
    <3>1. Seen(s) \in Rows
      BY DEF AuditInv, AuditTyped, Seen
    <3>2. PICK v \in Rows : v = Seen(s)
      BY <3>1
    <3>3. /\ Held(v, v) \in ObjectType /\ ~Held(v, v).flushing /\ Held(v, v).is # "new"
      BY DEF Held, ObjectType
    <3> QED
      BY <3>2, <3>3, BecomesTells
  <2>3. Becomes(s, NoObject) => AuditInv'
    <3>1. NoObject \in ObjectType /\ ~NoObject.flushing /\ NoObject.is # "new"
      BY DEF NoObject, ObjectType, Rows
    <3> QED
      BY <3>1, BecomesTells
  <2> QED
    BY <2>1, <2>2, <2>3
<1>2. ASSUME NEW v \in Values, Make(s, v) PROVE AuditInv'
  <2>1. New(v) \in ObjectType /\ ~New(v).flushing /\ New(v).value # NoValue
    BY AuditAssumption DEF New, ObjectType, Rows
  <2> QED
    BY <1>2, <2>1, BecomesTells DEF Make
<1>3. ASSUME NEW v \in Values, Assign(s, v) PROVE AuditInv'
  <2>1. PICK o : o = Held(v, object[s].base)
    OBVIOUS
  <2>2. Becomes(s, o)
    BY <1>3, <2>1 DEF Assign
  <2>3. object[s].base \in Rows /\ v \in Rows
    BY DEF AuditInv, AuditTyped, ObjectType, Rows
  <2>4. o \in ObjectType /\ ~o.flushing /\ o.is # "new"
    BY <2>1, <2>3 DEF Held, ObjectType
  <2> QED
    BY <2>2, <2>4, BecomesTells
<1>4. CASE Destroy(s)
  <2>1. PICK o : o = [object[s] EXCEPT !.is = "doomed"]
    OBVIOUS
  <2>2. Becomes(s, o) /\ ~object[s].flushing /\ object[s] \in ObjectType
    BY <1>4, <2>1 DEF Destroy, Becomes, AuditInv, AuditTyped
  <2>3. o \in ObjectType /\ o.is = "doomed" /\ ~o.flushing
    BY <2>1, <2>2 DEF ObjectType
  <2> QED
    BY <2>2, <2>3, BecomesTells
<1> QED
  BY <1>1, <1>2, <1>3, <1>4

-----------------------------------------------------------------------------
\* The records of a flush are younger than all others.
LEMMA FlushAuditsTells ==
  ASSUME AuditInv, NEW s \in Sessions, FlushAudits(s)
  PROVE  AuditInv'
<1>1. PICK o : o = object[s]
  OBVIOUS
<1>2. /\ ~o.flushing /\ Changed(s)
      /\ object' \in [Sessions -> ObjectType]
      /\ object'[s].is = o.is /\ object'[s].value = o.value /\ object'[s].base = o.base
      /\ object'[s].flushing
      /\ \A x \in Sessions \ {s} : object'[x] = object[x]
  <2>1. PICK k : k = [object[s] EXCEPT !.flushing = TRUE]
    OBVIOUS
  <2>2. object[s] \in ObjectType /\ object \in [Sessions -> ObjectType]
    BY DEF AuditInv, AuditTyped
  <2>3. /\ k \in ObjectType /\ k.is = object[s].is /\ k.value = object[s].value
        /\ k.base = object[s].base /\ k.flushing
    BY <2>1, <2>2 DEF ObjectType
  <2>4. object' = [object EXCEPT ![s] = k] /\ ~o.flushing /\ Changed(s)
    BY <1>1, <2>1 DEF FlushAudits
  <2> QED
    BY <1>1, <2>2, <2>3, <2>4
<1>3. /\ queued'[s] = IF o.is = "new" THEN o.value ELSE queued[s]
      /\ added'[s] = NoValue
      /\ \A x \in Sessions \ {s} : queued'[x] = queued[x] /\ added'[x] = added[x]
      /\ queued' \in [Sessions -> Rows] /\ added' \in [Sessions -> Rows]
      /\ stamp \in Nat /\ stamp' = stamp + 2
      /\ UNCHANGED <<row, lock, blur, swept, failed>>
  <2>1. /\ queued \in [Sessions -> Rows] /\ added \in [Sessions -> Rows] /\ stamp \in Nat
        /\ o.value \in Rows
    BY <1>1 DEF AuditInv, AuditTyped, ObjectType
  <2>2. queued' = [queued EXCEPT ![s] = IF o.is = "new" THEN o.value ELSE queued[s]]
    BY <1>1 DEF FlushAudits
  <2>3. /\ queued'[s] = IF o.is = "new" THEN o.value ELSE queued[s]
        /\ \A x \in Sessions \ {s} : queued'[x] = queued[x]
        /\ queued' \in [Sessions -> Rows]
    BY <2>1, <2>2
  <2>4. /\ added'[s] = NoValue /\ \A x \in Sessions \ {s} : added'[x] = added[x]
        /\ added' \in [Sessions -> Rows]
    BY <2>1 DEF FlushAudits, Rows
  <2>5. stamp' = stamp + 2 /\ UNCHANGED <<row, lock, blur, swept, failed>>
    BY DEF FlushAudits
  <2> QED
    BY <2>1, <2>3, <2>4, <2>5
<1>4. PICK new : new = Flushed(s) \cup Built(s)
  OBVIOUS
<1>5. trail' = trail \cup new
  BY <1>4 DEF FlushAudits
<1>6. \A r \in new :
        r \in RecordType /\ r.by = s /\ ~r.kept /\ r.at \in Nat /\ r.at <= stamp + 2
  <2>1. stamp + 1 \in Nat /\ stamp + 2 \in Nat /\ stamp + 1 <= stamp + 2 /\ stamp + 2 <= stamp + 2
    BY <1>3
  <2>2. added[s] \in Rows /\ o.value \in Rows
    BY <1>1 DEF AuditInv, AuditTyped, ObjectType
  <2>3. \A r \in Flushed(s) : r = Record(s, "create", added[s], stamp + 1)
    BY DEF Flushed
  <2>4. \A r \in Built(s) : \E action \in {"update", "destroy"} : r = Record(s, action, o.value, stamp + 2)
    BY <1>1 DEF Built
  <2>5. \A r \in new : \E action \in {"create", "update", "destroy"}, v \in Rows, n \in {stamp + 1, stamp + 2} :
           r = Record(s, action, v, n)
    BY <1>4, <2>2, <2>3, <2>4
  <2>6. ASSUME NEW action \in {"create", "update", "destroy"}, NEW v \in Rows, NEW n \in Nat
        PROVE  LET r == Record(s, action, v, n) IN
               r \in RecordType /\ r.by = s /\ ~r.kept /\ r.at = n
    BY DEF Record, RecordType
  <2> QED
    BY <2>1, <2>5, <2>6
<1>7. AuditTyped'
  <2>1. \A r \in trail : r \in RecordType /\ r.at <= stamp + 2
    <3>1. \A r \in trail : r \in RecordType /\ r.at \in Nat /\ r.at <= stamp
      BY DEF AuditInv, AuditTyped, RecordType
    <3> QED
      BY <1>3, <3>1
  <2>2. \A r \in trail' : r \in RecordType /\ r.at <= stamp'
    BY <1>3, <1>5, <1>6, <2>1
  <2>3. row' \in Rows /\ lock'.row \in Rows /\ stamp' \in Nat
    BY <1>3 DEF AuditInv, AuditTyped
  <2> QED
    BY <1>2, <1>3, <2>2, <2>3 DEF AuditTyped
<1>8. Trail' = Trail /\ \A x \in Sessions \ {s} : Own(x)' = Own(x)
  BY <1>5, <1>6 DEF Trail, Own
<1>9. ASSUME NEW x \in Sessions \ {s} PROVE SessionTells(x)'
  BY <1>2, <1>3, <1>8, OthersTell DEF AuditInv
<1>10. SessionTells(s)'
  <2>1. SessionTells(s)
    BY DEF AuditInv
  <2>2. QueuesItsOwn(s)'
    BY <1>1, <1>2, <1>3, <2>1 DEF SessionTells, QueuesItsOwn
  <2>3. FlushTells(s)'
    <3>1. o.is \in {"new", "doomed", "held"}
      BY <1>1, <1>2 DEF Changed
    <3>2. ASSUME o.is = "doomed" \/ (o.is = "held" /\ o.base # NoValue)
          PROVE  \E r \in Own(s)' : Tells(r, Writes(o)) /\ \A q \in Own(s)' : q.at <= r.at
      <4>1. PICK r : r = Record(s, IF o.is = "doomed" THEN "destroy" ELSE "update", o.value, stamp + 2)
        OBVIOUS
      <4>2. r \in new
        BY <1>1, <1>4, <3>2, <4>1 DEF Built
      <4>3. r \in Own(s)' /\ Tells(r, Writes(o)) /\ r.at = stamp + 2
        BY <1>5, <1>6, <3>2, <4>1, <4>2 DEF Own, Tells, Writes, Record
      <4>4. \A q \in Own(s)' : q.at <= stamp + 2
        BY <1>3, <1>7 DEF AuditTyped, Own
      <4> QED
        BY <4>3, <4>4
    <3> QED
      BY <1>2, <1>3, <3>1, <3>2 DEF FlushTells, Writes
  <2>4. object[s].is = "new" => object[s].value # NoValue
    BY <2>1 DEF SessionTells
  <2> QED
    BY <1>1, <1>2, <2>2, <2>3, <2>4 DEF SessionTells, LeavesNothing, LockTells
<1>11. TrailTellsRow'
  BY <1>3, <1>8, StillTells DEF AuditInv
<1> QED
  BY <1>7, <1>9, <1>10, <1>11 DEF AuditInv

\* A statement whose flush is not blurred tells what it writes, with the record
\* before it or the CREATE that follows.
LEMMA FlushRowTells ==
  ASSUME AuditInv, NEW s \in Sessions, FlushRow(s)
  PROVE  AuditInv'
<1>1. PICK o : o = object[s]
  OBVIOUS
<1>2. /\ o.flushing /\ lock.by \in {s, NoSession}
      /\ lock'.by = s /\ lock'.row = Writes(o) /\ lock'.blur = Why(s)
      /\ object'[s] = IF o.is = "doomed" THEN NoObject ELSE Held(o.value, o.value)
      /\ added'[s] = queued[s] /\ queued'[s] = NoValue
      /\ \A x \in Sessions \ {s} :
            object'[x] = object[x] /\ queued'[x] = queued[x] /\ added'[x] = added[x]
      /\ queued' \in [Sessions -> Rows] /\ added' \in [Sessions -> Rows]
      /\ failed' = failed \ {s}
      /\ UNCHANGED <<row, trail, stamp, blur, swept>>
  BY <1>1 DEF AuditInv, AuditTyped, FlushRow, CanWrite, Popped, Writes, Rows
<1>3. o.value \in Rows /\ Writes(o) \in Rows
  BY <1>1 DEF AuditInv, AuditTyped, ObjectType, Writes, Rows
<1>4. object'[s] \in ObjectType /\ ~object'[s].flushing /\ object'[s].is # "new"
  <2>1. CASE o.is = "doomed"
    BY <1>2, <2>1 DEF NoObject, ObjectType, Rows
  <2>2. CASE o.is # "doomed"
    BY <1>2, <1>3, <2>2 DEF Held, ObjectType
  <2> QED
    BY <2>1, <2>2
<1>5. AuditTyped'
  <2>1. object' = [object EXCEPT ![s] = object'[s]] /\ object \in [Sessions -> ObjectType]
    BY DEF FlushRow, AuditInv, AuditTyped
  <2>2. object' \in [Sessions -> ObjectType]
    BY <1>4, <2>1
  <2> QED
    BY <1>2, <1>3, <2>2 DEF AuditInv, AuditTyped
<1>6. Trail' = Trail /\ \A x \in Sessions : Own(x)' = Own(x)
  BY <1>2 DEF Trail, Own
<1>7. ASSUME NEW x \in Sessions \ {s} PROVE SessionTells(x)'
  <2>1. lock.by # x /\ lock'.by # x
    BY <1>2, AuditAssumption
  <2> QED
    BY <1>2, <1>6, <2>1, OthersTell DEF AuditInv
<1>8. SessionTells(s)'
  <2>1. QueuesItsOwn(s) /\ FlushTells(s) /\ (o.is = "new" => o.value # NoValue)
    BY <1>1 DEF AuditInv, SessionTells
  <2>2. LockTells(s)'
    <3>1. SUFFICES ASSUME Why(s) = {}
                   PROVE  IF queued[s] # NoValue THEN queued[s] = Writes(o)
                          ELSE \E r \in Own(s) : /\ Tells(r, Writes(o))
                                                 /\ \A q \in Own(s) \cup Trail : q.at <= r.at
      BY <1>2, <1>6 DEF LockTells
    <3>2. /\ ~Crossed(s) /\ ~(o.is = "held" /\ o.base = NoValue)
          /\ ~(o.is # "new" /\ s \in failed)
      BY <1>1, <3>1 DEF Why
    <3>3. CASE o.is = "new"
      BY <1>1, <1>2, <2>1, <3>3 DEF FlushTells, Writes
    <3>4. CASE o.is # "new"
      <4>1. queued[s] = NoValue
        BY <1>1, <2>1, <3>2, <3>4 DEF QueuesItsOwn
      <4>2. PICK r \in Own(s) : Tells(r, Writes(o)) /\ \A q \in Own(s) : q.at <= r.at
        BY <1>1, <1>2, <2>1, <3>2, <3>4 DEF FlushTells
      <4>3. ASSUME NEW q \in Trail PROVE q.at <= r.at
        <5>1. /\ r \in trail /\ r.by = s /\ ~r.kept /\ q \in trail /\ q.kept
              /\ r.at \in Nat /\ q.at \in Nat
          BY DEF Own, Trail, AuditInv, AuditTyped, RecordType
        <5>2. ~(r.at < q.at)
          BY <3>2, <5>1 DEF Crossed
        <5> QED
          BY <5>1, <5>2
      <4> QED
        BY <4>1, <4>2, <4>3
    <3> QED
      BY <3>3, <3>4
  <2> QED
    BY <1>2, <1>4, <2>2 DEF SessionTells, LeavesNothing, QueuesItsOwn, FlushTells
<1>9. TrailTellsRow'
  BY <1>2, <1>6, StillTells DEF AuditInv
<1> QED
  BY <1>5, <1>7, <1>8, <1>9 DEF AuditInv

-----------------------------------------------------------------------------
\* The records a commit keeps differ in that alone.
LEMMA CommitLeaves ==
  ASSUME AuditInv, NEW s \in Sessions, TrailCommit(s)
  PROVE  /\ \A r \in trail' : r \in RecordType
         /\ \A r \in trail' :
               \/ r \in trail /\ r.by # s
               \/ \E q \in trail \cup Flushed(s) :
                     /\ r.action = q.action /\ r.value = q.value /\ r.at = q.at
                     /\ q.by = s /\ r.by = s /\ r.kept
                     /\ q.kept => r = q
         /\ \A q \in trail : q.by # s => q \in trail'
         /\ \A q \in trail \cup Flushed(s) : q.by = s =>
               \E r \in trail' :
                  /\ r.action = q.action /\ r.value = q.value /\ r.at = q.at
                  /\ r.by = s /\ r.kept
                  /\ q.kept => r = q
<1> DEFINE Keep(r) == IF r.by = s THEN [r EXCEPT !.kept = TRUE] ELSE r
<1>1. trail' = {Keep(r) : r \in trail \cup Flushed(s)}
  BY DEF TrailCommit
<1>2. \A r \in trail \cup Flushed(s) : r \in RecordType /\ (r \in trail \/ r.by = s)
  <2>1. added[s] \in Rows /\ stamp + 1 \in Nat
    BY DEF AuditInv, AuditTyped
  <2>2. Record(s, "create", added[s], stamp + 1) \in RecordType
    BY <2>1 DEF Record, RecordType
  <2>3. Record(s, "create", added[s], stamp + 1).by = s
    BY DEF Record
  <2>4. \A r \in Flushed(s) : r = Record(s, "create", added[s], stamp + 1)
    BY DEF Flushed
  <2> QED
    BY <2>2, <2>3, <2>4 DEF AuditInv, AuditTyped
<1>3. ASSUME NEW q \in RecordType, q.by = s
      PROVE  /\ Keep(q) \in RecordType /\ Keep(q).action = q.action /\ Keep(q).value = q.value
             /\ Keep(q).at = q.at /\ Keep(q).by = s /\ Keep(q).kept
             /\ q.kept => Keep(q) = q
  BY <1>3 DEF RecordType
<1>4. \A r : r.by # s => Keep(r) = r
  OBVIOUS
<1> HIDE DEF Keep
<1>5. \A r \in trail' :
        \E q \in trail \cup Flushed(s) : r = Keep(q)
  BY <1>1
<1>6. \A q \in trail \cup Flushed(s) : Keep(q) \in trail'
  BY <1>1
<1> QED
  BY <1>2, <1>3, <1>4, <1>5, <1>6

LEMMA CommitTells ==
  ASSUME AuditInv, NEW s \in Sessions, TrailCommit(s)
  PROVE  AuditInv'
<1>1. /\ ~object[s].flushing /\ added'[s] = NoValue
      /\ \A x \in Sessions \ {s} : added'[x] = added[x]
      /\ added' \in [Sessions -> Rows]
      /\ UNCHANGED <<object, queued, swept, failed>>
      /\ IF lock.by = s THEN row' = lock.row /\ blur' = lock.blur /\ lock' = Unlocked
         ELSE UNCHANGED <<row, blur, lock>>
      /\ stamp' = IF Flushed(s) = {} THEN stamp ELSE stamp + 1
  BY DEF AuditInv, AuditTyped, TrailCommit, Rows
<1>2. /\ stamp \in Nat
      /\ \A r \in trail : r.at \in Nat /\ r.at <= stamp
      /\ \A r \in Flushed(s) : r.at = stamp + 1 /\ r.by = s /\ added[s] # NoValue
  BY DEF AuditInv, AuditTyped, RecordType, Flushed, Record
<1>3. AuditTyped'
  <2>1. \A r \in trail \cup Flushed(s) : r.at \in Nat /\ r.at <= stamp'
    BY <1>1, <1>2
  <2>2. \A r \in trail' : \E q \in trail \cup Flushed(s) : r.at = q.at
    BY CommitLeaves
  <2>3. \A r \in trail' : r \in RecordType /\ r.at <= stamp'
    BY <2>1, <2>2, CommitLeaves
  <2>4. stamp' \in Nat /\ row' \in Rows /\ lock'.row \in Rows
    BY <1>1, <1>2 DEF AuditInv, AuditTyped, Unlocked, Rows
  <2> QED
    BY <1>1, <2>3, <2>4 DEF AuditInv, AuditTyped
<1>4. Own(s)' = {} /\ \A x \in Sessions \ {s} : Own(x)' = Own(x)
  <2>1. \A r \in trail' : ~r.kept => r \in trail /\ r.by # s
    BY CommitLeaves
  <2>2. \A r \in trail : r.by # s => r \in trail'
    BY CommitLeaves
  <2> QED
    BY <2>1, <2>2 DEF Own
<1>5. lock.by # s => Trail' = Trail
  <2>1. SUFFICES ASSUME lock.by # s PROVE Trail' = Trail
    OBVIOUS
  <2>2. Own(s) = {} /\ Flushed(s) = {}
    BY <1>1, <1>2, <2>1 DEF AuditInv, SessionTells, LeavesNothing
  <2>3. \A q \in trail : q.by = s => q.kept
    BY <2>2 DEF Own
  <2>4. \A r \in trail' : r \in trail
    BY <2>2, <2>3, CommitLeaves
  <2>5. \A r \in trail : r \in trail'
    BY <2>3, CommitLeaves
  <2> QED
    BY <2>4, <2>5 DEF Trail
<1>6. ASSUME NEW x \in Sessions \ {s} PROVE SessionTells(x)'
  <2>1. \/ lock' = lock /\ Trail' \subseteq Trail
        \/ lock.by # x /\ lock'.by # x
    BY <1>1, <1>5, AuditAssumption DEF Unlocked
  <2> QED
    BY <1>1, <1>4, <2>1, OthersTell DEF AuditInv
<1>7. SessionTells(s)'
  <2>1. lock'.by # s
    BY <1>1, AuditAssumption DEF Unlocked
  <2>2. SessionTells(s)
    BY DEF AuditInv
  <2> QED
    BY <1>1, <1>4, <2>1, <2>2
       DEF SessionTells, LeavesNothing, QueuesItsOwn, FlushTells, LockTells
<1>8. CASE lock.by # s
  <2>1. TrailTellsRow'
    BY <1>1, <1>5, <1>8, StillTells DEF AuditInv
  <2> QED
    BY <1>3, <1>6, <1>7, <2>1 DEF AuditInv
<1>9. CASE lock.by = s
  <2>1. ASSUME lock.blur = {}
        PROVE  \E last \in Trail' : Tells(last, lock.row) /\ \A r \in Trail' : r.at <= last.at
    <3>1. LockTells(s)
      BY DEF AuditInv, SessionTells
    <3>2. \A r \in Trail' : r \in Trail \/ \E q \in Own(s) \cup Flushed(s) : r.at = q.at
      <4> SUFFICES ASSUME NEW r \in Trail', r \notin Trail
                   PROVE  \E q \in Own(s) \cup Flushed(s) : r.at = q.at
        OBVIOUS
      <4>1. r \in trail' /\ r.kept /\ r \notin trail
        BY DEF Trail
      <4>2. PICK q \in trail \cup Flushed(s) : r.at = q.at /\ q.by = s /\ (q.kept => r = q)
        BY <4>1, CommitLeaves
      <4>3. CASE q \in Flushed(s)
        BY <4>2, <4>3
      <4>4. CASE q \in trail
        BY <4>1, <4>2, <4>4 DEF Own
      <4> QED
        BY <4>3, <4>4
    <3>3. CASE added[s] # NoValue
      <4>1. PICK q : q = Record(s, "create", added[s], stamp + 1)
        OBVIOUS
      <4>2. q \in Flushed(s) /\ added[s] = lock.row
        BY <1>1, <1>9, <2>1, <3>1, <3>3, <4>1 DEF Flushed, LockTells
      <4>3. q.action = "create" /\ q.value = lock.row /\ q.at = stamp + 1 /\ q.by = s
        BY <4>1, <4>2 DEF Record
      <4>4. PICK last \in trail' :
              last.action = q.action /\ last.value = q.value /\ last.at = q.at /\ last.kept
        BY <4>2, <4>3, CommitLeaves
      <4>5. \A r \in Trail' : r.at <= stamp + 1
        BY <1>2, <3>2 DEF Trail, Own
      <4> QED
        BY <4>3, <4>4, <4>5 DEF Tells, Trail
    <3>4. CASE added[s] = NoValue
      <4>1. PICK q \in Own(s) : Tells(q, lock.row) /\ \A r \in Own(s) \cup Trail : r.at <= q.at
        BY <1>1, <1>9, <2>1, <3>1, <3>4 DEF LockTells
      <4>2. PICK last \in trail' :
              last.action = q.action /\ last.value = q.value /\ last.at = q.at /\ last.kept
        BY <4>1, CommitLeaves DEF Own
      <4>3. \A r \in Trail' : r.at <= q.at
        BY <1>2, <3>2, <3>4, <4>1
      <4> QED
        BY <4>1, <4>2, <4>3 DEF Tells, Trail
    <3> QED
      BY <3>3, <3>4
  <2>2. TrailTellsRow'
    BY <1>1, <1>9, <2>1 DEF TrailTellsRow, Tells
  <2> QED
    BY <1>3, <1>6, <1>7, <2>2 DEF AuditInv
<1> QED
  BY <1>8, <1>9

LEMMA RollbackTells ==
  ASSUME AuditInv, NEW s \in Sessions, TrailRollback(s)
  PROVE  AuditInv'
<1>1. /\ added'[s] = NoValue /\ \A x \in Sessions \ {s} : added'[x] = added[x]
      /\ object'[s] \in {NoObject, Expired}
      /\ \A x \in Sessions \ {s} : object'[x] = object[x]
      /\ added' \in [Sessions -> Rows] /\ object' = [object EXCEPT ![s] = object'[s]]
      /\ trail' = {r \in trail : r.kept \/ r.by # s}
      /\ lock' = IF lock.by = s THEN Unlocked ELSE lock
      /\ failed' = IF object[s].flushing /\ object[s].is = "new" THEN failed \cup {s} ELSE failed
      /\ UNCHANGED <<row, stamp, queued, blur, swept>>
  BY DEF AuditInv, AuditTyped, TrailRollback, Rows
<1>2. object'[s] \in ObjectType /\ ~object'[s].flushing /\ object'[s].is # "new"
  <2>1. NoObject \in ObjectType /\ ~NoObject.flushing /\ NoObject.is # "new"
    BY DEF NoObject, ObjectType, Rows
  <2>2. Expired \in ObjectType /\ ~Expired.flushing /\ Expired.is # "new"
    BY DEF Expired, ObjectType, Rows
  <2> QED
    BY <1>1, <2>1, <2>2
<1>3. AuditTyped'
  <2>1. object' \in [Sessions -> ObjectType]
    BY <1>1, <1>2 DEF AuditInv, AuditTyped
  <2>2. lock'.row \in Rows
    BY <1>1 DEF AuditInv, AuditTyped, Unlocked, Rows
  <2> QED
    BY <1>1, <2>1, <2>2 DEF AuditInv, AuditTyped
<1>4. Trail' = Trail /\ Own(s)' = {} /\ \A x \in Sessions \ {s} : Own(x)' = Own(x)
  BY <1>1 DEF Trail, Own
<1>5. ASSUME NEW x \in Sessions \ {s} PROVE SessionTells(x)'
  <2>1. \/ lock' = lock /\ Trail' \subseteq Trail
        \/ lock.by # x /\ lock'.by # x
    BY <1>1, <1>4, AuditAssumption DEF Unlocked
  <2> QED
    BY <1>1, <1>4, <2>1, OthersTell DEF AuditInv
<1>6. SessionTells(s)'
  <2>1. lock'.by # s
    BY <1>1, AuditAssumption DEF Unlocked
  <2>2. QueuesItsOwn(s)'
    BY <1>1 DEF AuditInv, SessionTells, QueuesItsOwn
  <2> QED
    BY <1>1, <1>2, <1>4, <2>1, <2>2 DEF SessionTells, LeavesNothing, FlushTells, LockTells
<1>7. TrailTellsRow'
  BY <1>1, <1>4, StillTells DEF AuditInv
<1> QED
  BY <1>3, <1>5, <1>6, <1>7 DEF AuditInv

\* A sweep takes the oldest records, or all.
LEMMA SweepTells ==
  ASSUME AuditInv, SweepAudits
  PROVE  AuditInv'
<1>1. PICK p \in Trail : trail' = {q \in trail : ~q.kept \/ q.at > p.at}
  BY DEF SweepAudits
<1>2. swept' = TRUE /\ UNCHANGED <<row, lock, object, queued, added, stamp, blur, failed>>
  BY DEF SweepAudits
<1>3. AuditTyped'
  BY <1>1, <1>2 DEF AuditInv, AuditTyped
<1>4. Trail' \subseteq Trail /\ \A x \in Sessions : Own(x)' = Own(x)
  BY <1>1 DEF Trail, Own
<1>5. \A x \in Sessions : SessionTells(x)'
  BY <1>2, <1>4, OthersTell DEF AuditInv
<1>6. TrailTellsRow'
  <2>1. SUFFICES ASSUME blur = {}, Trail' # {}
                 PROVE  \E last \in Trail' : /\ \A r \in Trail' : r.at <= last.at
                                             /\ Tells(last, row)
    BY <1>2 DEF TrailTellsRow, Tells
  <2>2. Trail # {}
    OBVIOUS
  <2>3. PICK last \in Trail : (\A r \in Trail : r.at <= last.at) /\ Tells(last, row)
    BY <2>1, <2>2 DEF AuditInv, TrailTellsRow, Tells
  <2>4. PICK r \in Trail' : TRUE
    BY <2>1
  <2>5. last \in Trail'
    <3>1. r \in Trail /\ r.at > p.at /\ r.at <= last.at
      BY <1>1, <1>4, <2>3 DEF Trail
    <3>2. r.at \in Nat /\ p.at \in Nat /\ last.at \in Nat /\ last \in trail /\ last.kept
      BY <3>1 DEF AuditInv, AuditTyped, RecordType, Trail
    <3> QED
      BY <1>1, <3>1, <3>2 DEF Trail
  <2> QED
    BY <1>4, <2>3, <2>5
<1> QED
  BY <1>3, <1>5, <1>6 DEF AuditInv

LEMMA AuditStutter ==
  ASSUME AuditInv, UNCHANGED audits
  PROVE  AuditInv'
<1>1. UNCHANGED <<row, lock, object, queued, added, trail, stamp, blur, swept, failed>>
  BY DEF audits
<1>2. AuditTyped'
  BY <1>1 DEF AuditInv, AuditTyped
<1>3. Trail' = Trail /\ \A x \in Sessions : Own(x)' = Own(x)
  BY <1>1 DEF Trail, Own
<1>4. \A x \in Sessions : SessionTells(x)'
  BY <1>1, <1>3, OthersTell DEF AuditInv
<1> QED
  BY <1>1, <1>2, <1>3, <1>4, StillTells DEF AuditInv

LEMMA AuditNext == (scene \in Scenes /\ AuditInv) /\ [Next]_vars => (scene \in Scenes /\ AuditInv)'
<1> SUFFICES ASSUME scene \in Scenes, AuditInv, [Next]_vars
             PROVE  (scene \in Scenes /\ AuditInv)'
  OBVIOUS
<1>1. CASE UNCHANGED vars
  BY <1>1, AuditStutter DEF vars
<1>2. CASE Next
  <2>1. scene' = scene /\ scene.writers \subseteq Sessions
    BY <1>2, RecordsAssumption DEF Next
  <2>2. ASSUME NEW s \in Sessions, Use(s) PROVE AuditInv'
    BY <2>2, InstanceTells, FlushAuditsTells, FlushRowTells DEF Use
  <2>3. ASSUME NEW s \in Sessions, Commit(s) \/ Rollback(s) PROVE AuditInv'
    BY <2>3, CommitTells, RollbackTells DEF Commit, Rollback
  <2>4. ASSUME SweepAudits PROVE AuditInv'
    BY <2>4, SweepTells
  <2>5. ASSUME UNCHANGED audits PROVE AuditInv'
    BY <2>5, AuditStutter
  <2> QED
    BY <1>2, <2>1, <2>2, <2>3, <2>4, <2>5 DEF Next, Step
<1> QED
  BY <1>1, <1>2

\* TrailTellsRow: the last committed record tells the committed row, whatever
\* sessions flush, commit, roll back and sweep, but for the three ways its
\* comment names.  (The flush listeners.)
THEOREM TrailIsTrue == Spec => []TrailTellsRow
<1>1. Init => scene \in Scenes /\ AuditInv
  BY AuditStart DEF Init
<1>2. (scene \in Scenes /\ AuditInv) /\ [Next]_vars => (scene \in Scenes /\ AuditInv)'
  BY AuditNext
<1>3. AuditInv => TrailTellsRow
  BY DEF AuditInv
<1> QED BY <1>1, <1>2, <1>3, PTL DEF Spec
=============================================================================
