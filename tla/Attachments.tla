---------------------------- MODULE Attachments -----------------------------
(***************************************************************************)
(* One attachment column (AttachedFileField) of one record, the storage,   *)
(* and PurgeAttachmentJob.  purge() enqueues the job in a transaction of   *)
(* its own, committed before the caller's; sqlalchemy-file saves a new     *)
(* file at the flush, deletes it when the transaction rolls back and       *)
(* deletes the file it replaces when it commits.                           *)
(***************************************************************************)
EXTENDS Naturals

CONSTANTS
    Owners,                 \* sessions that hold the record
    Files, NoFile,
    MaxTries                \* PurgeAttachmentJob.max_attempts

ASSUME AttachmentsAssumption == NoFile \notin Files /\ MaxTries \in Nat \ {0}

VARIABLES
    column,     \* the committed column
    holds,      \* holds[s]: the session's instance and what it did to it
    storage,    \* the files in object storage
    used,       \* files ever uploaded: a file_id is a new uuid
    keys,       \* objects that clients put themselves
    confirmed,  \* those some request has confirmed
    reused,     \* history: those confirmed more than once
    purging,    \* purging[f]: attempts made by the pending job of f
    regretted   \* history: files purged by a transaction that rolled back

direct == <<keys, confirmed, reused>>
attachments == <<column, holds, storage, used, direct, purging, regretted>>

Columns == Files \cup {NoFile}
HoldType == [file : Columns, base : Columns, fresh : SUBSET Files, purged : SUBSET Files]
Holds(f) == [file |-> f, base |-> f, fresh |-> {}, purged |-> {}]

AttachmentsInit ==
    /\ column = NoFile
    /\ holds = [s \in Owners |-> Holds(NoFile)]
    /\ storage = {} /\ used = {} /\ keys = {} /\ confirmed = {} /\ reused = {}
    /\ purging = [f \in {} |-> 0]
    /\ regretted = {}

Untouched(s) == holds[s] = Holds(holds[s].base)

-----------------------------------------------------------------------------
(* What the application does with its instance.                            *)

\* The record is read again: refresh, or a new session.
Reload(s) ==
    /\ Untouched(s) /\ holds[s].base # column
    /\ holds' = [holds EXCEPT ![s] = Holds(column)]
    /\ UNCHANGED <<column, storage, used, direct, purging, regretted>>

\* record.blob = File(...), flushed.
Attach(s, f) ==
    /\ f \notin used
    /\ used' = used \cup {f} /\ storage' = storage \cup {f}
    /\ holds' = [holds EXCEPT ![s].file = f, ![s].fresh = @ \cup {f}]
    /\ UNCHANGED <<column, direct, purging, regretted>>

\* A client puts the object at the key of PresignedUpload.generate.
Upload(f) ==
    /\ f \notin used
    /\ used' = used \cup {f} /\ storage' = storage \cup {f} /\ keys' = keys \cup {f}
    /\ UNCHANGED <<column, holds, purging, regretted, confirmed, reused>>

\* PresignedUpload.confirm: the object is there, and is not saved again.  Nothing
\* keeps a second request from confirming the same key.
Confirm(s, f) ==
    /\ f \in keys /\ f \in storage
    /\ holds' = [holds EXCEPT ![s].file = f]
    /\ confirmed' = confirmed \cup {f}
    /\ reused' = reused \cup (confirmed \cap {f})
    /\ UNCHANGED <<column, storage, used, keys, purging, regretted>>

\* Mutant: the file the record was loaded with.
PurgedLoaded(s) == holds[s].base

\* The file whose purge() is called.
Purged(s) == holds[s].file

\* record.blob.purge(); record.blob = None
Purge(s) ==
    /\ holds[s].file # NoFile
    /\ purging' = [f \in DOMAIN purging \cup {Purged(s)} |-> IF f = Purged(s) THEN 0 ELSE purging[f]]
    /\ holds' = [holds EXCEPT ![s].file = NoFile, ![s].purged = @ \cup {holds[s].file}]
    /\ UNCHANGED <<column, storage, used, direct, regretted>>

-----------------------------------------------------------------------------
(* The end of a transaction.                                                *)

FileCommit(s) ==
    LET h == holds[s] IN
    /\ column' = IF h.file # h.base THEN h.file ELSE column
    /\ storage' = IF h.file # h.base THEN storage \ {h.base} ELSE storage
    /\ holds' = [holds EXCEPT ![s] = Holds(h.file)]
    /\ UNCHANGED <<used, direct, purging, regretted>>

FileRollback(s) ==
    /\ storage' = storage \ holds[s].fresh
    /\ regretted' = regretted \cup holds[s].purged
    /\ holds' = [holds EXCEPT ![s] = Holds(column)]
    /\ UNCHANGED <<column, used, direct, purging>>

-----------------------------------------------------------------------------
(* PurgeAttachmentJob                                                       *)

JobEnds(f) == purging' = [g \in DOMAIN purging \ {f} |-> purging[g]]

PurgeDone(f) ==
    /\ f \in DOMAIN purging /\ f \in storage
    /\ storage' = storage \ {f}
    /\ JobEnds(f)
    /\ UNCHANGED <<column, holds, used, direct, regretted>>

\* Mutant: one attempt too many.
RetriesLeftOneMore(f) == purging[f] + 1 <= MaxTries

RetriesLeft(f) == purging[f] + 1 < MaxTries

\* AttachmentError: the storage failed, or has no such file.
PurgeFails(f) ==
    /\ f \in DOMAIN purging
    /\ IF RetriesLeft(f) THEN purging' = [purging EXCEPT ![f] = @ + 1]
       ELSE JobEnds(f)
    /\ UNCHANGED <<column, holds, storage, used, direct, regretted>>

-----------------------------------------------------------------------------
AttachmentsTypeOK ==
    /\ column \in Columns /\ holds \in [Owners -> HoldType]
    /\ storage \subseteq used /\ keys \subseteq used /\ used \subseteq Files
    /\ confirmed \subseteq keys /\ reused \subseteq confirmed
    /\ DOMAIN purging \subseteq used /\ \A f \in DOMAIN purging : purging[f] \in 0..(MaxTries - 1)
    /\ regretted \subseteq used

(***************************************************************************)
(* The committed record names a file that storage has, whatever the order  *)
(* of transactions, commits, rollbacks and purge jobs.  What purge() says  *)
(* of its caller is the exception: between purge() and the commit of the   *)
(* None, and for ever when that commit does not happen, the job may have   *)
(* deleted the file of a record that still has it.  So is a key confirmed  *)
(* more than once: the first record to replace its file deletes it for the *)
(* others.                                                                 *)
(***************************************************************************)
RecordsHaveTheirFiles ==
    column \notin {NoFile} \cup reused \cup regretted \cup UNION {holds[s].purged : s \in Owners}
        => column \in storage
=============================================================================
