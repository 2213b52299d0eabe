--------------------------- MODULE Notifications ----------------------------
(***************************************************************************)
(* One notification delivered by DeliverNotificationJob over its           *)
(* transports, with the recipient's inbox, event streams and push          *)
(* subscriptions.  DatabaseTransport writes first; the others run together *)
(* in the event loop of the worker thread: web_push suspends, sse and fcm  *)
(* run through.  The job queue repeats a run that raised, as often as      *)
(* max_attempts allows, and one that was killed without counting it.       *)
(***************************************************************************)
EXTENDS Inbox, EventStreams, PushSubscriptions

CONSTANTS
    Critical,       \* transports with fail_silently=False
    Devices,        \* FCM tokens of the recipient
    MaxAttempts,    \* of DeliverNotificationJob
    MaxKills,       \* bound: kills of the worker's process
    Scenes          \* the notification's transports, those that
                    \* configure_notifications() equips, and the clients about

Names == {"database", "sse", "web_push", "fcm"}

ASSUME NotificationsAssumption ==
    /\ Critical \subseteq Names
    /\ Devices # {}
    /\ MaxAttempts \in Nat \ {0} /\ MaxKills \in Nat
    /\ Scenes \subseteq [transports : SUBSET Names, configured : SUBSET Names,
                          clients : SUBSET {"inbox", "streams", "push"}]

VARIABLES
    job,        \* the job's row: how far it is, attempts and kills
    run,        \* the run: its record, transports not finished, and finished
    fcm,        \* FCM jobs that wait, as <<device, record>>
    left,       \* devices the FCM transport has still to enqueue for
    scene       \* transports, configuration and clients of this behaviour

vars == <<job, run, fcm, left, scene, inbox, streams, pushes>>

NoRecord == 0
Records == 0..MaxRecords

\* A transport without its credentials, loader, tokens or emitter returns at once:
\* it finishes and delivers nothing.  The database needs nothing.
Equipped == {t \in scene.transports : t = "database" \/ t \in scene.configured}
Beside == Equipped \ {"database"}

JobType == [at : {"waiting", "write", "fan", "done", "skipped", "failed"},
            attempts : 0..MaxAttempts, kills : 0..MaxKills]
RunType == [record : Records, pending : SUBSET Names, done : SUBSET Names]
NoRun == [record |-> NoRecord, pending |-> {}, done |-> {}]

Init ==
    /\ InboxInit /\ StreamsInit(NoRecord) /\ PushInit
    /\ job = [at |-> "waiting", attempts |-> 0, kills |-> 0]
    /\ run = NoRun /\ fcm = {} /\ left = {}
    /\ scene \in Scenes

-----------------------------------------------------------------------------
(* DeliverNotificationJob.perform and BaseNotification.deliver.             *)

Begin ==
    /\ job.at = "waiting"
    /\ job' = [job EXCEPT !.at = "write"]
    /\ run' = NoRun
    /\ UNCHANGED <<fcm, left, scene, inbox, streams, pushes>>

\* The recipient, its model or the class is not found: perform returns.
Skip ==
    /\ job.at = "waiting"
    /\ job' = [job EXCEPT !.at = "skipped"]
    /\ UNCHANGED <<run, fcm, left, scene, inbox, streams, pushes>>

\* All equipped transports but the database start, web_push with its loader.
FansOut(i, done) ==
    /\ job' = [job EXCEPT !.at = "fan"]
    /\ run' = [record |-> i, pending |-> Beside, done |-> done]
    /\ left' = IF "fcm" \in Beside THEN Devices ELSE {}
    /\ push' = IF "web_push" \in Beside THEN [NoPush EXCEPT !.at = "load"] ELSE push
    /\ UNCHANGED <<fcm, scene, streams, sub, caller, tx, rows, wronged>>

\* The run raises: the gather is left, what has not finished is cancelled, and
\* the job retried or failed.
Raise ==
    /\ job' = [job EXCEPT !.attempts = @ + 1,
                          !.at = IF job.attempts + 1 >= MaxAttempts THEN "failed"
                                 ELSE "waiting"]
    /\ run' = NoRun /\ left' = {}
    /\ push' = NoPush
    /\ UNCHANGED <<fcm, scene, streams, sub, caller, tx, rows, wronged>>

\* The class does not import, its parameters do not fit, the recipient cannot be
\* read, or to_notification raises.
PerformRaises ==
    /\ job.at \in {"waiting", "write"}
    /\ Raise
    /\ UNCHANGED inbox

Write(i) ==
    /\ job.at = "write" /\ "database" \in scene.transports
    /\ Insert(i)
    /\ FansOut(i, {"database"})

\* Mutant: an error is never raised again.
RaisedNever == {}

\* fail_silently=False.
Raised == Critical

\* The commit fails, or what follows it does.
WriteFails(committed) ==
    /\ job.at = "write" /\ "database" \in scene.transports
    /\ IF committed THEN \E i \in Ids : Insert(i) ELSE UNCHANGED inbox
    /\ IF "database" \in Raised THEN Raise ELSE FansOut(NoRecord, {})

WriteSkipped ==
    /\ job.at = "write" /\ "database" \notin scene.transports
    /\ FansOut(NoRecord, {})
    /\ UNCHANGED inbox

\* sse and fcm do not suspend: nothing else of the run happens meanwhile.
Between == job.at = "fan" /\ ~pub.on /\ left \in {{}, Devices}

Finished(t) == run' = [run EXCEPT !.pending = @ \ {t}, !.done = @ \cup {t}]

SseStarts ==
    /\ Between /\ "sse" \in run.pending
    /\ Publish(run.record)
    /\ UNCHANGED <<job, run, fcm, left, scene, inbox, pushes>>

SseEnds ==
    /\ job.at = "fan" /\ PublishEnds
    /\ Finished("sse")
    /\ UNCHANGED <<job, fcm, left, scene, inbox, pushes>>

FcmEnqueues(d) ==
    /\ job.at = "fan" /\ ~pub.on /\ "fcm" \in run.pending /\ d \in left
    /\ fcm' = fcm \cup {<<d, run.record>>}
    /\ left' = left \ {d}
    /\ IF left' = {} THEN Finished("fcm") ELSE UNCHANGED run
    /\ UNCHANGED <<job, scene, inbox, streams, pushes>>

WebPushGoesOn ==
    /\ Between /\ "web_push" \in run.pending
    /\ Pushing
    /\ IF push'.at = "idle" THEN Finished("web_push") ELSE UNCHANGED run
    /\ UNCHANGED <<job, fcm, left, scene, inbox, streams>>

\* _run_transport: fcm may have enqueued for some devices; web_push fails only
\* before it sends.
TransportFails(t) ==
    /\ job.at = "fan" /\ ~pub.on /\ t \in run.pending
    /\ t # "fcm" => Between
    /\ t = "web_push" => push.at = "load"
    /\ IF t \in Raised THEN Raise
       ELSE /\ run' = [run EXCEPT !.pending = @ \ {t}]
            /\ left' = IF t = "fcm" THEN {} ELSE left
            /\ push' = IF t = "web_push" THEN NoPush ELSE push
            /\ UNCHANGED <<job, fcm, scene, streams, sub, caller, tx, rows, wronged>>
    /\ UNCHANGED inbox

RunEnds ==
    /\ Between /\ run.pending = {}
    /\ job' = [job EXCEPT !.at = "done", !.attempts = @ + 1]
    /\ UNCHANGED <<run, fcm, left, scene, inbox, streams, pushes>>

\* The stale sweeper hands the job out again; the streams were of the process.
Kill ==
    /\ job.at \in {"write", "fan"} /\ job.kills < MaxKills
    /\ job' = [job EXCEPT !.at = "waiting", !.kills = @ + 1]
    /\ run' = NoRun /\ left' = {}
    /\ push' = NoPush
    /\ StreamsDie
    /\ UNCHANGED <<fcm, scene, inbox, sub, caller, tx, rows, wronged>>

\* FCMNotificationJob sends, or ends without: every error but an HTTP status
\* fails it at once, a status after its attempts.
FcmJobEnds(d, i) ==
    /\ <<d, i>> \in fcm
    /\ fcm' = fcm \ {<<d, i>>}
    /\ UNCHANGED <<job, run, left, scene, inbox, streams, pushes>>

-----------------------------------------------------------------------------
(* The clients.                                                             *)

Reads == "inbox" \in scene.clients /\ InboxNext /\ UNCHANGED <<job, run, fcm, left, scene, streams, pushes>>
Listens == "streams" \in scene.clients /\ StreamsNext /\ UNCHANGED <<job, run, fcm, left, scene, inbox, pushes>>
Subscribes == "push" \in scene.clients /\ CallersNext /\ UNCHANGED <<job, run, fcm, left, scene, inbox, streams>>
Publishing == PublishNext /\ UNCHANGED <<job, run, fcm, left, scene, inbox, pushes>>

Delivers ==
    \/ Begin \/ Skip \/ PerformRaises \/ RunEnds \/ WriteSkipped
    \/ \E i \in Ids : Write(i)
    \/ \E committed \in BOOLEAN : WriteFails(committed)
    \/ SseStarts \/ Publishing \/ SseEnds \/ WebPushGoesOn
    \/ \E d \in Devices : FcmEnqueues(d)
    \/ \E t \in Beside : TransportFails(t)

Next ==
    \/ Delivers \/ Kill
    \/ \E d \in Devices, i \in Records : FcmJobEnds(d, i)
    \/ Reads \/ Listens \/ Subscribes

Spec == Init /\ [][Next]_vars

-----------------------------------------------------------------------------
(* Properties.                                                              *)

\* Every variable keeps its type.
TypeOK ==
    /\ job \in JobType /\ run \in RunType
    /\ fcm \subseteq Devices \X Records /\ left \subseteq Devices
    /\ scene \in Scenes
    /\ InboxTypeOK /\ StreamsTypeOK(Records) /\ PushTypeOK

\* A job that is DONE had one run in which every critical transport that is
\* equipped finished, whatever raised, was cancelled, killed and repeated before;
\* web_push is excepted, whose failed sends are never raised.
DoneMeansDelivered ==
    job.at = "done" => (Critical \cap Equipped) \ {"web_push"} \subseteq run.done
=============================================================================
