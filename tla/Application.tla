----------------------------- MODULE Application -----------------------------
(***************************************************************************)
(* What an application builds on the library in one process group: state     *)
(* machines, repositories, slugs, listings, controllers, forms and recurring *)
(* or queued jobs.  A behaviour is about one of them; they share no state.   *)
(***************************************************************************)
EXTENDS StateMachine, Repositories, Slugs, Paging, Controllers, Forms,
        CeleryJobs, Schedules

VARIABLE about

Subjects ==
    {"machine", "repositories", "slugs", "paging", "controllers", "forms",
     "celery", "schedules"}

vars ==
    <<machine, repositories, slugs, paging, controllers, forms, celery, schedules, about>>

\* What a behaviour is not about starts in one state.
Only(subject, choice, S) == about = subject \/ choice = (CHOOSE c \in S : TRUE)

Init ==
    /\ about \in Subjects
    /\ MachineInit
    /\ RepositoriesInit
    /\ Only("repositories", table, [Ids -> Values \cup {Gone}])
    /\ SlugsInit /\ Only("slugs", <<updates, posts>>, BOOLEAN \X Stored)
    /\ PagingInit /\ Only("paging", items, StartItems)
    /\ ControllersInit /\ Only("controllers", engine, Engines)
    /\ FormsInit /\ Only("forms", setting, Settings)
    /\ CeleryInit /\ Only("celery", known, SUBSET Tasks)
    /\ SchedulesInit /\ Only("schedules", schedule, Declared)

InMachine(A) ==
    /\ about = "machine" /\ A
    /\ UNCHANGED <<repositories, slugs, paging, controllers, forms, celery, schedules, about>>

Next ==
    \/ InMachine(MachineNext)
    \/ /\ about = "repositories" /\ RepositoriesNext
       /\ UNCHANGED <<machine, slugs, paging, controllers, forms, celery, schedules, about>>
    \/ /\ about = "slugs" /\ SlugsNext
       /\ UNCHANGED <<machine, repositories, paging, controllers, forms, celery, schedules, about>>
    \/ /\ about = "paging" /\ PagingNext
       /\ UNCHANGED <<machine, repositories, slugs, controllers, forms, celery, schedules, about>>
    \/ /\ about = "controllers" /\ ControllersNext
       /\ UNCHANGED <<machine, repositories, slugs, paging, forms, celery, schedules, about>>
    \/ /\ about = "forms" /\ FormsNext
       /\ UNCHANGED <<machine, repositories, slugs, paging, controllers, celery, schedules, about>>
    \/ /\ about = "celery" /\ CeleryNext
       /\ UNCHANGED <<machine, repositories, slugs, paging, controllers, forms, schedules, about>>
    \/ /\ about = "schedules" /\ SchedulesNext
       /\ UNCHANGED <<machine, repositories, slugs, paging, controllers, forms, celery, about>>

Spec == Init /\ [][Next]_vars

\* A running call of a state machine goes on, and its caller ends its
\* transaction in the end.
Fairness ==
    \A w \in Workers :
        /\ WF_vars(InMachine(Runs(w)))
        /\ WF_vars(InMachine(CommitCaller(w) \/ RollbackCaller(w)))

FairSpec == Spec /\ Fairness
=============================================================================
