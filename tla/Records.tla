------------------------------ MODULE Records -------------------------------
(***************************************************************************)
(* An application's records: audited, with an attachment.  A session's     *)
(* transaction ends for both at once.                                      *)
(***************************************************************************)
EXTENDS AuditTrail, Attachments

CONSTANT Scenes     \* which sessions write the audited columns, which the file, and
                    \* whether clients upload directly

ASSUME RecordsAssumption ==
    /\ Owners = Sessions
    /\ Scenes \subseteq [writers : SUBSET Sessions, owners : SUBSET Owners, direct : BOOLEAN]

VARIABLE scene

vars == <<audits, attachments, scene>>

Init == AuditInit /\ AttachmentsInit /\ scene \in Scenes

Use(s) ==
    \/ Load(s)
    \/ \E v \in Values : Make(s, v) \/ Assign(s, v)
    \/ Destroy(s)
    \/ FlushAudits(s)
    \/ FlushRow(s)

UseFile(s) ==
    /\ ~object[s].flushing
    /\ \/ Reload(s)
       \/ \E f \in Files : Attach(s, f) \/ Confirm(s, f)
       \/ Purge(s)

\* Commit needs something to commit.
Commit(s) == (lock.by = s \/ ~Untouched(s)) /\ TrailCommit(s) /\ FileCommit(s)

\* An error, raised by the application or by the row's statement.
Rollback(s) ==
    /\ object[s].flushing => CanWrite(s) /\ ~Writable(s)
    /\ object[s].is # "none" \/ ~Untouched(s)
    /\ TrailRollback(s) /\ FileRollback(s)

Step ==
    \/ \E s \in scene.writers : Use(s) /\ UNCHANGED attachments
    \/ \E s \in scene.owners : UseFile(s) /\ UNCHANGED audits
    \/ \E s \in Sessions : Commit(s) \/ Rollback(s)
    \/ SweepAudits /\ UNCHANGED attachments
    \/ \E f \in Files : ((scene.direct /\ Upload(f)) \/ PurgeDone(f) \/ PurgeFails(f)) /\ UNCHANGED audits

Next == Step /\ UNCHANGED scene

Spec == Init /\ [][Next]_vars

TypeOK == AuditTypeOK /\ AttachmentsTypeOK /\ scene \in Scenes
=============================================================================
