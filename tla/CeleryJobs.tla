----------------------------- MODULE CeleryJobs -----------------------------
(***************************************************************************)
(* lib.jobs over CeleryAdapter: one Celery task, jobs.dispatch_job, that     *)
(* runs the jobs of any class and retries them itself.                      *)
(*                                                                         *)
(* The broker hands a message to one worker, which acknowledges it before    *)
(* it runs the task (Celery's default): a worker that dies loses it.  Of     *)
(* time only whether a message is held back (eta, countdown) is left.        *)
(***************************************************************************)
EXTENDS Naturals, FiniteSets

CONSTANTS
    Tasks,          \* calls of perform_later
    CeleryWorkers,
    NoTask,
    Attempts,       \* max_attempts of the job's class
    Errors,         \* what perform and the hooks raise
    RetryOn,        \* retry_on; empty: all of Errors
    MaxKills        \* bound: workers killed

ASSUME CeleryJobsAssumption ==
    /\ NoTask \notin Tasks
    /\ Attempts \in Nat /\ MaxKills \in Nat
    /\ RetryOn \subseteq Errors

VARIABLES
    known,          \* tasks whose class the workers have imported
    message,        \* message[t]: on the broker, with its retries, or NoMessage
    running,        \* running[w]: the task a worker runs and where it is
    fate,           \* fate[t]: what became of it
    performs,       \* performs[t]: calls of perform
    worked,         \* perform returned
    kills

celery == <<known, message, running, fate, performs, worked, kills>>

NoMessage == [retries |-> 0, waits |-> FALSE, on |-> FALSE]
Message == [retries : Nat, waits : BOOLEAN, on : BOOLEAN]
Resting == [task |-> NoTask, retries |-> 0, step |-> "free"]

CeleryInit ==
    /\ known \in SUBSET Tasks
    /\ message = [t \in Tasks |-> NoMessage]
    /\ running = [w \in CeleryWorkers |-> Resting]
    /\ fate = [t \in Tasks |-> "new"]
    /\ performs = [t \in Tasks |-> 0]
    /\ worked = [t \in Tasks |-> FALSE]
    /\ kills = 0

Sent(t, n, waits) == message' = [message EXCEPT ![t] = [retries |-> n, waits |-> waits, on |-> TRUE]]
Steps(w, s) == running' = [running EXCEPT ![w].step = s]
Leaves(w) == running' = [running EXCEPT ![w] = Resting]

-----------------------------------------------------------------------------
\* enqueue: at once, or held back by wait or wait_until.  with_session has no
\* effect: the message is out whether the caller commits or not.
Enqueue(t, waits) ==
    /\ fate[t] = "new"
    /\ Sent(t, 0, waits)
    /\ fate' = [fate EXCEPT ![t] = "sent"]
    /\ UNCHANGED <<known, running, performs, worked, kills>>

TimePasses(t) ==
    /\ message[t].on /\ message[t].waits
    /\ message' = [message EXCEPT ![t].waits = FALSE]
    /\ UNCHANGED <<known, running, fate, performs, worked, kills>>

\* dispatch_job: a class that is not registered is logged, and the task
\* returns.
Receive(w, t) ==
    /\ running[w] = Resting /\ message[t].on /\ ~message[t].waits
    /\ message' = [message EXCEPT ![t] = NoMessage]
    /\ IF t \in known
       THEN /\ running' = [running EXCEPT ![w] = [task |-> t, retries |-> message[t].retries, step |-> "before"]]
            /\ UNCHANGED fate
       ELSE /\ fate' = [fate EXCEPT ![t] = "dropped"]
            /\ UNCHANGED running
    /\ UNCHANGED <<known, performs, worked, kills>>

CeleryRetries == IF Attempts = 0 THEN 0 ELSE Attempts - 1
Eligible(e) == RetryOn = {} \/ e \in RetryOn

\* Mutant: max_attempts counts retries.
RaisedOneMore(w, e) ==
    LET t == running[w].task IN
    /\ IF Eligible(e) /\ running[w].retries < Attempts
       THEN Sent(t, running[w].retries + 1, TRUE) /\ UNCHANGED fate
       ELSE fate' = [fate EXCEPT ![t] = "failed"] /\ UNCHANGED message
    /\ Leaves(w)

\* execute() raised e: retry with a countdown, or fail.
Raised(w, e) ==
    LET t == running[w].task IN
    /\ IF Eligible(e) /\ running[w].retries < CeleryRetries
       THEN Sent(t, running[w].retries + 1, TRUE) /\ UNCHANGED fate
       ELSE fate' = [fate EXCEPT ![t] = "failed"] /\ UNCHANGED message
    /\ Leaves(w)

\* before_perform(), outside execute's try: no hook runs after it raised.
BeforePerform(w) ==
    /\ running[w].step = "before"
    /\ \/ \E e \in Errors : Raised(w, e)
       \/ Steps(w, "performing") /\ UNCHANGED <<message, fate>>
    /\ UNCHANGED <<known, performs, worked, kills>>

\* perform(), then on_error, which is caught, or on_success, and after_perform,
\* either of which may raise after the work is done.
Perform(w) ==
    /\ running[w].step = "performing"
    /\ performs' = [performs EXCEPT ![running[w].task] = @ + 1]
    /\ \E done \in BOOLEAN :
          /\ worked' = [worked EXCEPT ![running[w].task] = @ \/ done]
          /\ \/ \E e \in Errors : Raised(w, e)
             \/ /\ done
                /\ fate' = [fate EXCEPT ![running[w].task] = "done"]
                /\ Leaves(w)
                /\ UNCHANGED message
    /\ UNCHANGED <<known, kills>>

Kill(w) ==
    /\ running[w] # Resting
    /\ kills < MaxKills /\ kills' = kills + 1
    /\ fate' = [fate EXCEPT ![running[w].task] = "lost"]
    /\ Leaves(w)
    /\ UNCHANGED <<known, message, performs, worked>>

CeleryNext ==
    \/ \E t \in Tasks :
          \/ \E waits \in BOOLEAN : Enqueue(t, waits)
          \/ TimePasses(t)
    \/ \E w \in CeleryWorkers :
          \/ \E t \in Tasks : Receive(w, t)
          \/ BeforePerform(w) \/ Perform(w) \/ Kill(w)

CelerySpec == CeleryInit /\ [][CeleryNext]_celery
-----------------------------------------------------------------------------
(* Properties.                                                              *)

CeleryTypeOK ==
    /\ known \subseteq Tasks
    /\ message \in [Tasks -> Message]
    /\ running \in [CeleryWorkers -> [task : Tasks \cup {NoTask}, retries : Nat,
                                 step : {"free", "before", "performing"}]]
    /\ fate \in [Tasks -> {"new", "sent", "done", "failed", "dropped", "lost"}]
    /\ performs \in [Tasks -> Nat] /\ worked \in [Tasks -> BOOLEAN]
    /\ kills \in Nat

\* A job is performed at most max_attempts times (once if that is 0), though
\* hooks raise before and after it and workers die, and one that is over has no
\* message left: Celery's own retries, max_retries=None, bound nothing.  Of the
\* jobs the queue in the database runs only the first half holds, and not
\* after a crash (JobQueue).
CeleryBudget ==
    \A t \in Tasks :
        /\ performs[t] <= IF Attempts = 0 THEN 1 ELSE Attempts
        /\ fate[t] \in {"done", "failed", "dropped", "lost"} =>
              ~message[t].on /\ \A w \in CeleryWorkers : running[w].task # t
=============================================================================
