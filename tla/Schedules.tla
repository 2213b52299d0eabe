------------------------------ MODULE Schedules ------------------------------
(***************************************************************************)
(* lib.jobs.schedule: one recurring job under DBAdapter, whose servers each  *)
(* tick with an APScheduler of their own, and under CeleryAdapter, where     *)
(* Celery beat does.  Both only enqueue.                                    *)
(*                                                                         *)
(* An instant is its calendar fields; Calendar lists those the model is      *)
(* about, in order.  What a field's pattern matches is the libraries' part:  *)
(* "*" or one value here.  Days of the week are left out of both: in a       *)
(* crontab 0 is Sunday, for APScheduler it is Monday.                        *)
(***************************************************************************)
EXTENDS Naturals, Sequences, FiniteSets

CONSTANTS
    Servers,        \* processes that call DBAdapter.start()
    Calendar,       \* instants: sequence of [second, minute, hour, day, month]
    Declared,       \* schedules: cron, interval or once_at
    Grace,          \* misfire_grace_time, in instants
    Star,           \* "*" in a field
    MaxStarts       \* bound: starts of servers and of beat

CronFields == {"second", "minute", "hour", "day", "month"}

\* kind; expr: CronSchedule(expr=...), in the crontab's order; fields: its
\* keyword form; every: the period of an interval; on: run_at.
Schedule ==
    [kind : {"cron", "interval", "once"}, expr : Seq(Nat \cup {Star}),
     fields : [CronFields -> Nat \cup {Star}], every : Nat \ {0}, on : Nat]

ASSUME SchedulesAssumption ==
    /\ \A n \in 1..Len(Calendar) : DOMAIN Calendar[n] = CronFields
    /\ \A s \in Declared :
          /\ DOMAIN s = {"kind", "expr", "fields", "every", "on"}
          /\ s.kind \in {"cron", "interval", "once"} /\ Len(s.expr) \in {0, 4}
          /\ DOMAIN s.fields = CronFields
          /\ s.every \in Nat \ {0} /\ s.on \in Nat
    /\ Star # 0
    /\ Grace \in Nat /\ MaxStarts \in Nat

VARIABLES
    schedule,       \* the job's
    now,            \* instants past
    started,        \* started[s]: when the server started, or 0
    beat,           \* when beat started, or 0
    pending,        \* servers whose date trigger has not run
    fired,          \* fired[n]: perform_later of servers at instant n
    sent,           \* sent[n]: messages of beat at instant n
    starts

schedules == <<schedule, now, started, beat, pending, fired, sent, starts>>

SchedulesInit ==
    /\ schedule \in Declared
    /\ now = 1
    /\ started = [s \in Servers |-> 0]
    /\ beat = 0
    /\ pending = {}
    /\ fired = [n \in 1..Len(Calendar) |-> {}]
    /\ sent = [n \in 1..Len(Calendar) |-> FALSE]
    /\ starts = 0

-----------------------------------------------------------------------------
\* Mutant: day and hour of an expression are mixed up.
AsApschedulerSwapped(s) ==
    IF s.expr # <<>>
    THEN [second |-> 0, minute |-> s.expr[1], hour |-> s.expr[3], day |-> s.expr[2],
          month |-> s.expr[4]]
    ELSE s.fields

\* as_apscheduler_kwargs: an expression fires at second 0.
AsApscheduler(s) ==
    IF s.expr # <<>>
    THEN [second |-> 0, minute |-> s.expr[1], hour |-> s.expr[2], day |-> s.expr[3],
          month |-> s.expr[4]]
    ELSE s.fields

\* _to_celery_schedule: a crontab has no seconds.
AsCelery(s) ==
    IF s.expr # <<>>
    THEN [second |-> 0, minute |-> s.expr[1], hour |-> s.expr[2], day |-> s.expr[3],
          month |-> s.expr[4]]
    ELSE [s.fields EXCEPT !.second = 0]

Fits(fields, instant) == \A f \in CronFields : fields[f] \in {Star, instant[f]}

\* DBAdapter.start registers every job that has a schedule with a scheduler
\* that lives in memory.
StartServer(s) ==
    /\ started[s] = 0
    /\ starts < MaxStarts /\ starts' = starts + 1
    /\ started' = [started EXCEPT ![s] = now]
    /\ pending' = IF schedule.kind = "once" THEN pending \cup {s} ELSE pending
    /\ UNCHANGED <<schedule, now, beat, fired, sent>>

StopServer(s) ==
    /\ started[s] # 0
    /\ started' = [started EXCEPT ![s] = 0]
    /\ pending' = pending \ {s}
    /\ UNCHANGED <<schedule, now, beat, fired, sent, starts>>

\* CeleryAdapter.start with use_beat fills the beat schedule.
StartBeat ==
    /\ beat = 0
    /\ starts < MaxStarts /\ starts' = starts + 1
    /\ beat' = now
    /\ UNCHANGED <<schedule, now, started, pending, fired, sent>>

\* Servers whose trigger is due: a date that has passed is made up for within
\* the grace, any other instant is missed for good.
DueServers ==
    {s \in Servers : started[s] # 0 /\
        CASE schedule.kind = "cron" -> Fits(AsApscheduler(schedule), Calendar[now])
          [] schedule.kind = "interval" ->
                now > started[s] /\ (now - started[s]) % schedule.every = 0
          [] schedule.kind = "once" ->
                s \in pending /\ now >= schedule.on /\ now <= schedule.on + Grace}

\* once_at is an interval of a hundred years.
DueBeat ==
    beat # 0 /\
        CASE schedule.kind = "cron" -> Fits(AsCelery(schedule), Calendar[now])
          [] schedule.kind = "interval" -> now > beat /\ (now - beat) % schedule.every = 0
          [] schedule.kind = "once" -> FALSE

Tick ==
    /\ now < Len(Calendar)
    /\ fired' = [fired EXCEPT ![now] = DueServers]
    /\ sent' = [sent EXCEPT ![now] = DueBeat]
    /\ pending' = pending \ DueServers
    /\ now' = now + 1
    /\ UNCHANGED <<schedule, started, beat, starts>>

SchedulesNext ==
    \/ \E s \in Servers : StartServer(s) \/ StopServer(s)
    \/ StartBeat
    \/ Tick

SchedulesSpec == SchedulesInit /\ [][SchedulesNext]_schedules
-----------------------------------------------------------------------------
(* Properties.                                                              *)

SchedulesTypeOK ==
    /\ schedule \in Declared
    /\ now \in 1..Len(Calendar)
    /\ started \in [Servers -> Nat] /\ beat \in Nat
    /\ pending \subseteq Servers
    /\ fired \in [1..Len(Calendar) -> SUBSET Servers]
    /\ sent \in [1..Len(Calendar) -> BOOLEAN]
    /\ starts \in 0..MaxStarts

\* The crontab's own reading: minute, hour, day, month.
Means(s, instant) ==
    IF s.expr = <<>> THEN Fits(s.fields, instant)
    ELSE /\ instant.second = 0
         /\ \A n \in 1..4 :
               s.expr[n] \in {Star, instant[<<"minute", "hour", "day", "month">>[n]]}

\* A crontab has no seconds: a schedule with some is not for Celery.
WholeMinutes(s) == s.expr # <<>> \/ s.fields.second = 0

\* What a trigger that lives since instant `since` owes the job's author at n:
\* every instant a cron means, every period of an interval after the first, and
\* a date once, as soon as it has come and while it is within the grace.
Owed(n, since) ==
    \/ schedule.kind = "cron" /\ Means(schedule, Calendar[n])
    \/ schedule.kind = "interval" /\ n > since /\ (n - since) % schedule.every = 0
    \/ /\ schedule.kind = "once"
       /\ n = IF since > schedule.on THEN since ELSE schedule.on
       /\ n <= schedule.on + Grace

\* Every server that is up has enqueued the job at each instant since its start
\* that it owed, and at no other; so has beat, which never sends a once_at job
\* and does not promise a schedule with seconds.  And no process of the past
\* did otherwise: a cron fired only when it meant to, a date only within its
\* grace.  (Several servers, or a server restarted within the grace, enqueue a
\* date once each; a trigger whose thread is late beyond the grace is left out.)
FiresWhenItShould ==
    /\ \A s \in Servers : started[s] # 0 =>
          \A n \in started[s]..(now - 1) : s \in fired[n] <=> Owed(n, started[s])
    /\ beat # 0 /\ schedule.kind # "once" /\ WholeMinutes(schedule) =>
          \A n \in beat..(now - 1) : sent[n] <=> Owed(n, beat)
    /\ \A n \in 1..(now - 1) :
          /\ fired[n] # {} /\ schedule.kind = "cron" => Means(schedule, Calendar[n])
          /\ fired[n] # {} /\ schedule.kind = "once" =>
                n \in schedule.on..(schedule.on + Grace)
          /\ schedule.kind = "once" => ~sent[n]
=============================================================================
