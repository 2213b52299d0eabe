---------------------------- MODULE StateMachine ----------------------------
(***************************************************************************)
(* lib.fsm: StateMachine.transition_to over SQLAlchemyAdapter, for one       *)
(* owner (an order, say) whose transitions are rows of a table.             *)
(*                                                                         *)
(* Each worker holds one machine on one AsyncSession and calls transition_to *)
(* directly or through retry_conflicts.  The machine decides on a cached     *)
(* history; the row is flushed into the session's transaction, which the    *)
(* caller commits or rolls back later.  Two workers on the same owner are    *)
(* kept apart only by the UNIQUE (owner_id, sort_key) constraint that        *)
(* make_transition_table declares: nothing is locked while guards and        *)
(* callbacks run.                                                          *)
(*                                                                         *)
(* The database is READ COMMITTED: a SELECT sees what is committed and the   *)
(* session's own rows; a writer waits for the transaction that holds a row   *)
(* or a key it needs.                                                      *)
(***************************************************************************)
EXTENDS MachineClasses, Naturals, FiniteSets

CONSTANTS
    Workers,        \* machines, each on a session of its own
    ClassOf,        \* ClassOf[w]: the class of w's machine
    UniqueKeys,     \* the table has UNIQUE (owner_id, sort_key)
    MaxRetries,     \* retry_conflicts(max_retries); 0 is a plain call
    MaxCalls        \* bound: calls of transition_to

ASSUME StateMachineAssumption ==
    /\ ClassOf \in [Workers -> MachineClasses]
    /\ UniqueKeys \in BOOLEAN
    /\ MaxRetries \in Nat /\ MaxCalls \in Nat

VARIABLES
    transitions, \* committed transitions
    recent,     \* those of them with most_recent set
    flushed,    \* flushed[w]: rows flushed in w's open transaction
    demoted,    \* demoted[w]: rows whose most_recent that transaction cleared
    cache,      \* cache[w]: _cache of w's adapter
    call,       \* call[w]: where transition_to is
    calls,      \* calls of transition_to so far
    phantom     \* a machine that survived a rollback has written (history)

db == <<transitions, recent>>
unsaved == <<flushed, demoted>>
machine == <<db, unsaved, cache, call, calls, phantom>>

-----------------------------------------------------------------------------
States == UNION {StatesOf(c) : c \in MachineClasses} \cup {""}

\* by tells apart the rows of two sessions, as the primary key does.
Transition == [key : Nat, from : States, to : States, by : Workers]

\* _cache is None, or a list in the order of sort_key.
CacheType == [loaded : BOOLEAN, rows : SUBSET Transition]
NoCache == [loaded |-> FALSE, rows |-> {}]
Cached(S) == [loaded |-> TRUE, rows |-> S]

\* key, from, to: the TransitionRecord; prevs: the rows found most recent;
\* tries: retries so far.
CallType ==
    [at : {"idle", "called", "guards", "before", "creating", "flushing", "after"},
     key : Nat, from : States, to : States, prevs : SUBSET Transition,
     tries : Nat]
Idle == [at |-> "idle", key |-> 0, from |-> "", to |-> "",
         prevs |-> {}, tries |-> 0]

\* What the session of w sees.
View(w) == transitions \cup flushed[w]
RecentView(w) == (recent \cup flushed[w]) \ demoted[w]

\* history()[-1]
IsLast(r, S) == r \in S /\ \A q \in S : q.key <= r.key

\* current_state()
StateOf(w, S) ==
    IF S = {} THEN InitialState(ClassOf[w]) ELSE (CHOOSE r \in S : IsLast(r, S)).to

\* Mutant: the sort_key of the last transition.
NextSortKeyOfLast(S) == Cardinality(S) - 1

\* sort_key=len(all_history)
NextSortKey(S) == Cardinality(S)

\* The machine's history, from its cache when there is one.
History(w) == IF cache[w].loaded THEN cache[w].rows ELSE View(w)

\* The cache holds rows that were rolled back.
Ghost(w) == ~ cache[w].rows \subseteq View(w)

MachineInit ==
    /\ transitions = {} /\ recent = {}
    /\ flushed = [w \in Workers |-> {}]
    /\ demoted = [w \in Workers |-> {}]
    /\ cache = [w \in Workers |-> NoCache]
    /\ call = [w \in Workers |-> Idle]
    /\ calls = 0
    /\ phantom = FALSE

-----------------------------------------------------------------------------
(* transition_to(state).                                                    *)

Goes(w, at) == call' = [call EXCEPT ![w].at = at]
Ends(w) == call' = [call EXCEPT ![w] = Idle]

Call(w, s) ==
    /\ call[w].at = "idle"
    /\ calls < MaxCalls /\ calls' = calls + 1
    /\ call' = [call EXCEPT ![w].at = "called", ![w].to = s]
    /\ UNCHANGED <<db, unsaved, cache, phantom>>

\* The guards or callbacks of the transition under way.
CallbacksOf(w, op) == Matching(ClassOf[w], op, call[w].from, call[w].to)

\* Read the history, check the transition is defined, build the record; an
\* undefined one raises TransitionFailedError.
Decide(w) ==
    /\ call[w].at = "called"
    /\ LET h == History(w)
           from == StateOf(w, h)
       IN /\ cache' = [cache EXCEPT ![w] = Cached(h)]
          /\ call' = [call EXCEPT ![w] =
                IF @.to \in Successors(ClassOf[w], from)
                THEN [@ EXCEPT !.at = "guards", !.key = NextSortKey(h), !.from = from]
                ELSE Idle]
    /\ UNCHANGED <<db, unsaved, calls, phantom>>

\* A guard returns a falsy value or raises: nothing is written.
GuardFails(w) ==
    /\ call[w].at = "guards" /\ CallbacksOf(w, "guard") # <<>>
    /\ Ends(w)
    /\ UNCHANGED <<db, unsaved, cache, calls, phantom>>

GuardsPass(w) ==
    /\ call[w].at = "guards"
    /\ Goes(w, "before")
    /\ UNCHANGED <<db, unsaved, cache, calls, phantom>>

BeforeRaises(w) ==
    /\ call[w].at = "before" /\ CallbacksOf(w, "before") # <<>>
    /\ Ends(w)
    /\ UNCHANGED <<db, unsaved, cache, calls, phantom>>

BeforeRuns(w) ==
    /\ call[w].at = "before"
    /\ Goes(w, "creating")
    /\ UNCHANGED <<db, unsaved, cache, calls, phantom>>

\* create_transition: the SELECT of the most recent rows.
SelectPrevious(w) ==
    /\ call[w].at = "creating"
    /\ call' = [call EXCEPT ![w].at = "flushing", ![w].prevs = RecentView(w)]
    /\ UNCHANGED <<db, unsaved, cache, calls, phantom>>

-----------------------------------------------------------------------------
(* create_transition: the flush.                                            *)

Record(w) == [key |-> call[w].key, from |-> call[w].from, to |-> call[w].to,
              by |-> w]

SameKey(S, k) == \E r \in S : r.key = k

\* Another open transaction holds a row to demote, or the key to insert.
Waits(w) ==
    \E u \in Workers \ {w} :
        \/ demoted[u] \cap call[w].prevs # {}
        \/ UniqueKeys /\ SameKey(flushed[u], call[w].key)

\* Mutant: conflicts are looked for in the session's own rows only.
OwnConflict(w) == UniqueKeys /\ SameKey(flushed[w], call[w].key)

Conflict(w) == UniqueKeys /\ SameKey(View(w), call[w].key)

\* Mutant: the previous row keeps most_recent.
CreateTransitionOnly(w) ==
    /\ call[w].at = "flushing" /\ ~Waits(w) /\ ~Conflict(w)
    /\ flushed' = [flushed EXCEPT ![w] = @ \cup {Record(w)}]
    /\ cache' = [cache EXCEPT ![w] = NoCache]
    /\ phantom' = (phantom \/ Ghost(w))
    /\ Goes(w, "after")
    /\ UNCHANGED <<db, demoted, calls>>

CreateTransition(w) ==
    /\ call[w].at = "flushing" /\ ~Waits(w) /\ ~Conflict(w)
    /\ flushed' = [flushed EXCEPT ![w] = @ \cup {Record(w)}]
    /\ demoted' = [demoted EXCEPT ![w] = @ \cup call[w].prevs]
    /\ cache' = [cache EXCEPT ![w] = NoCache]
    /\ phantom' = (phantom \/ Ghost(w))
    /\ Goes(w, "after")
    /\ UNCHANGED <<db, calls>>

\* Mutant: a retry does not count.
RetryForever(w) ==
    call' = [call EXCEPT ![w] = [Idle EXCEPT !.at = "called",
                                          !.to = call[w].to]]

\* retry_conflicts calls the function again, or lets the error out.
Retry(w) ==
    call' = [call EXCEPT ![w] =
        IF @.tries < MaxRetries
        THEN [Idle EXCEPT !.at = "called", !.to = call[w].to,
                          !.tries = call[w].tries + 1]
        ELSE Idle]

\* IntegrityError: the whole transaction is rolled back, the cache is kept.
FlushConflicts(w) ==
    /\ call[w].at = "flushing" /\ ~Waits(w) /\ Conflict(w)
    /\ flushed' = [flushed EXCEPT ![w] = {}]
    /\ demoted' = [demoted EXCEPT ![w] = {}]
    /\ Retry(w)
    /\ UNCHANGED <<db, cache, calls, phantom>>

\* The after callbacks run; if one raises the row stays in the transaction.
After(w) ==
    /\ call[w].at = "after"
    /\ Ends(w)
    /\ UNCHANGED <<db, unsaved, cache, calls, phantom>>

-----------------------------------------------------------------------------
(* The caller and its session.                                             *)

InTransaction(w) == flushed[w] # {}

CommitCaller(w) ==
    /\ call[w].at = "idle" /\ InTransaction(w)
    /\ transitions' = transitions \cup flushed[w]
    /\ recent' = (recent \cup flushed[w]) \ demoted[w]
    /\ flushed' = [flushed EXCEPT ![w] = {}]
    /\ demoted' = [demoted EXCEPT ![w] = {}]
    /\ UNCHANGED <<cache, call, calls, phantom>>

\* The machine, and the cache of its adapter, outlive the rollback.
RollbackCaller(w) ==
    /\ call[w].at = "idle" /\ InTransaction(w)
    /\ flushed' = [flushed EXCEPT ![w] = {}]
    /\ demoted' = [demoted EXCEPT ![w] = {}]
    /\ UNCHANGED <<db, cache, call, calls, phantom>>

\* current_state(force_reload=TRUE) and the reads that follow; with FALSE it
\* fills an empty cache.
Reload(w, force) ==
    /\ call[w].at = "idle"
    /\ cache' = [cache EXCEPT ![w] = Cached(IF force THEN View(w) ELSE History(w))]
    /\ UNCHANGED <<db, unsaved, call, calls, phantom>>

\* The worker drops its machine and session, or dies; the server rolls back.
Leave(w) ==
    /\ flushed' = [flushed EXCEPT ![w] = {}]
    /\ demoted' = [demoted EXCEPT ![w] = {}]
    /\ cache' = [cache EXCEPT ![w] = NoCache]
    /\ Ends(w)
    /\ UNCHANGED <<db, calls, phantom>>

Runs(w) ==
    \/ Decide(w)
    \/ GuardFails(w) \/ GuardsPass(w)
    \/ BeforeRaises(w) \/ BeforeRuns(w)
    \/ SelectPrevious(w)
    \/ CreateTransition(w) \/ FlushConflicts(w)
    \/ After(w)

MachineNext ==
    \E w \in Workers :
        \/ \E s \in States \ {""} : Call(w, s)
        \/ Runs(w)
        \/ CommitCaller(w) \/ RollbackCaller(w) \/ Leave(w)
        \/ \E force \in BOOLEAN : Reload(w, force)

MachineSpec == MachineInit /\ [][MachineNext]_machine

\* A running call goes on, and a caller ends its transaction in the end.
MachineFairness ==
    \A w \in Workers :
        /\ WF_machine(Runs(w))
        /\ WF_machine(CommitCaller(w) \/ RollbackCaller(w))

FairMachineSpec == MachineSpec /\ MachineFairness
-----------------------------------------------------------------------------
(* Properties.                                                              *)

\* Every variable keeps its type.
MachineTypeOK ==
    /\ transitions \subseteq Transition /\ recent \subseteq transitions
    /\ flushed \in [Workers -> SUBSET Transition]
    /\ demoted \in [Workers -> SUBSET Transition]
    /\ cache \in [Workers -> CacheType]
    /\ call \in [Workers -> CallType]
    /\ calls \in Nat
    /\ phantom \in BOOLEAN

\* S is a history: one row per sort_key, without gaps, each leaving the state
\* the one before it reached, along a declared transition.
IsWalk(S) ==
    /\ \A r, q \in S : r.key = q.key => r = q
    /\ \A r \in S :
          /\ r.to \in Successors(ClassOf[r.by], r.from)
          /\ IF r.key = 0 THEN r.from = InitialState(ClassOf[r.by])
             ELSE \E q \in S : q.key + 1 = r.key /\ q.to = r.from

\* Whatever guards, callbacks, commits and rollbacks of two sessions interleave,
\* each session sees a history of the machine, and so does the database: the
\* state a transition was decided in is the state it is written in.  Not so
\* once a machine that survived a rollback has written.
HistoryIsAWalk ==
    ~phantom => \A w \in Workers : IsWalk(View(w))

\* most_recent: "A flag indicating if this transition is the most recent one
\* for its owner": the last row has it, and no other.
OneMostRecent ==
    ~phantom => recent = {r \in transitions : IsLast(r, transitions)}

\* A call returns or raises, though it may wait for another transaction.
EveryCallEnds ==
    \A w \in Workers : call[w].at # "idle" ~> call[w].at = "idle"
=============================================================================
