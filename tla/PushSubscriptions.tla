------------------------- MODULE PushSubscriptions --------------------------
(***************************************************************************)
(* The table push_subscriptions: requests of several users through         *)
(* PushSubscriptionService, each in a session that sees committed rows,    *)
(* and WebPushTransport, which loads the recipient's subscriptions, sends  *)
(* and prunes those the push service answers 410 for.                      *)
(***************************************************************************)
EXTENDS Naturals, FiniteSets

CONSTANTS
    Endpoints, Users, Callers, NoUser,
    Recipient,      \* the user a notification is delivered to
    Commits,        \* the session dependency commits what the service flushed
    MaxRows         \* bound: rows ever inserted

ASSUME PushAssumption ==
    /\ Recipient \in Users /\ NoUser \notin Users
    /\ Commits \in BOOLEAN /\ MaxRows \in Nat

VARIABLES
    sub,        \* sub[e]: the committed row of endpoint e
    caller,     \* caller[c]: where a request is
    tx,         \* tx[c]: what its transaction has written
    push,       \* where the transport is
    rows,       \* bound counter, and the id of the last row
    wronged     \* history: owners whose row another user's request changed

pushes == <<sub, caller, tx, push, rows, wronged>>

\* keys: the user whose browser sent p256dh and auth.
SubType == [id : 0..MaxRows, owner : Users \cup {NoUser}, keys : Users \cup {NoUser}]
NoSub == [id |-> 0, owner |-> NoUser, keys |-> NoUser]
CallerType == [at : {"idle", "asked", "found", "flushed"},
               what : {"register", "unregister", "unregister_all"},
               user : Users, endpoint : Endpoints, id : 0..MaxRows]
PushType == [at : {"idle", "load", "send", "prune"}, to : SUBSET Endpoints]

SomeEndpoint == CHOOSE e \in Endpoints : TRUE
NoCaller == [at |-> "idle", what |-> "register", user |-> Recipient,
             endpoint |-> SomeEndpoint, id |-> 0]
NoPush == [at |-> "idle", to |-> {}]
Nothing == [e \in {} |-> NoSub]

PushInit ==
    /\ sub = [e \in Endpoints |-> NoSub]
    /\ caller = [c \in Callers |-> NoCaller]
    /\ tx = [c \in Callers |-> Nothing]
    /\ push = NoPush
    /\ rows = 0 /\ wronged = {}

Owned(u) == {e \in Endpoints : sub[e].owner = u}
Goes(c, stage) == caller' = [caller EXCEPT ![c].at = stage]
Ends(c) == caller' = [caller EXCEPT ![c] = NoCaller] /\ tx' = [tx EXCEPT ![c] = Nothing]

-----------------------------------------------------------------------------
(* register, unregister, unregister_all.                                    *)

AskPush(c, what, u, e) ==
    /\ caller[c].at = "idle"
    /\ caller' = [caller EXCEPT ![c] = [at |-> "asked", what |-> what, user |-> u,
                                        endpoint |-> e, id |-> 0]]
    /\ UNCHANGED <<sub, tx, push, rows, wronged>>

\* _get_by_endpoint: another user's endpoint is AlreadyExists or NotFound.
Refused(c) ==
    LET found == sub[caller[c].endpoint].owner IN
    \/ caller[c].what = "register" /\ found \notin {NoUser, caller[c].user}
    \/ caller[c].what = "unregister" /\ found # caller[c].user

Find(c) ==
    /\ caller[c].at = "asked"
    /\ IF Refused(c) THEN Ends(c)
       ELSE /\ caller' = [caller EXCEPT ![c].at = "found",
                                        ![c].id = sub[caller[c].endpoint].id]
            /\ UNCHANGED tx
    /\ UNCHANGED <<sub, push, rows, wronged>>

\* A statement waits for the open transaction that wrote the row or its key.
Waits(c, E) == \E d \in Callers \ {c} : E \cap DOMAIN tx[d] # {}

Flushes(c, written) ==
    /\ tx' = [tx EXCEPT ![c] = written]
    /\ Goes(c, "flushed")

\* Mutant: rows are written by endpoint.
StillThereByEndpoint(c) == sub[caller[c].endpoint].id # 0

\* Rows are written by the id that was read.
StillThere(c) == sub[caller[c].endpoint].id = caller[c].id

\* The endpoint is unique: IntegrityError, rollback, AlreadyExists.
FlushInsert(c) ==
    LET e == caller[c].endpoint IN
    /\ caller[c].at = "found" /\ caller[c].what = "register" /\ caller[c].id = 0
    /\ ~Waits(c, {e})
    /\ IF sub[e].id = 0
       THEN /\ rows < MaxRows /\ rows' = rows + 1
            /\ Flushes(c, [x \in {e} |-> [id |-> rows + 1, owner |-> caller[c].user,
                                          keys |-> caller[c].user]])
       ELSE Ends(c) /\ UNCHANGED rows
    /\ UNCHANGED <<sub, push, wronged>>

\* A row that is gone by now is a StaleDataError.
FlushUpdate(c) ==
    LET e == caller[c].endpoint IN
    /\ caller[c].at = "found" /\ caller[c].what = "register" /\ caller[c].id # 0
    /\ ~Waits(c, {e})
    /\ IF StillThere(c)
       THEN Flushes(c, [x \in {e} |-> [sub[e] EXCEPT !.keys = caller[c].user]])
       ELSE Ends(c)
    /\ UNCHANGED <<sub, push, rows, wronged>>

\* Deleting a row that is gone is only a warning.
FlushDelete(c) ==
    LET e == caller[c].endpoint
        E == IF caller[c].what = "unregister_all" THEN Owned(caller[c].user)
             ELSE {x \in {e} : StillThere(c)}
    IN
    /\ caller[c].at = "found" /\ caller[c].what # "register"
    /\ ~Waits(c, E)
    /\ Flushes(c, [x \in E |-> NoSub])
    /\ UNCHANGED <<sub, push, rows, wronged>>

Finish(c) ==
    /\ caller[c].at = "flushed"
    /\ LET E == IF Commits THEN DOMAIN tx[c] ELSE {} IN
       /\ sub' = [e \in Endpoints |-> IF e \in E THEN tx[c][e] ELSE sub[e]]
       /\ wronged' = wronged \cup ({sub[e].owner : e \in E} \ {caller[c].user, NoUser})
    /\ Ends(c)
    /\ UNCHANGED <<push, rows>>

\* The request dies, or a statement raises: the session rolls back.
Breaks(c) ==
    /\ caller[c].at # "idle"
    /\ Ends(c)
    /\ UNCHANGED <<sub, push, rows, wronged>>

-----------------------------------------------------------------------------
(* WebPushTransport.deliver.                                                *)

PushLoad ==
    /\ push.at = "load"
    /\ push' = IF Owned(Recipient) = {} THEN NoPush
               ELSE [at |-> "send", to |-> Owned(Recipient)]
    /\ UNCHANGED <<sub, caller, tx, rows, wronged>>

\* gather(..., return_exceptions=True): errors other than 410 are logged, and
\* lost even with fail_silently=False.
PushSend(gone) ==
    /\ push.at = "send" /\ gone \subseteq push.to
    /\ push' = IF gone = {} THEN NoPush ELSE [at |-> "prune", to |-> gone]
    /\ UNCHANGED <<sub, caller, tx, rows, wronged>>

\* prune_expired, whatever was registered under the endpoint meanwhile.
PushPrune ==
    /\ push.at = "prune"
    /\ \A d \in Callers : push.to \cap DOMAIN tx[d] = {}
    /\ sub' = [e \in Endpoints |-> IF e \in push.to \cap Owned(Recipient) THEN NoSub ELSE sub[e]]
    /\ push' = NoPush
    /\ UNCHANGED <<caller, tx, rows, wronged>>

\* The pruner's errors are logged.
PruneFails ==
    /\ push.at = "prune"
    /\ push' = NoPush
    /\ UNCHANGED <<sub, caller, tx, rows, wronged>>

Pushing == PushLoad \/ PushPrune \/ PruneFails \/ \E gone \in SUBSET push.to : PushSend(gone)

CallersNext ==
    \E c \in Callers :
        \/ \E what \in {"register", "unregister", "unregister_all"}, u \in Users, e \in Endpoints :
               AskPush(c, what, u, e)
        \/ Find(c) \/ FlushInsert(c) \/ FlushUpdate(c) \/ FlushDelete(c)
        \/ Finish(c) \/ Breaks(c)

-----------------------------------------------------------------------------
(* Properties.                                                              *)

\* Rows, requests, transactions and the transport keep their types.
PushTypeOK ==
    /\ sub \in [Endpoints -> SubType]
    /\ caller \in [Callers -> CallerType]
    /\ \A c \in Callers : \E E \in SUBSET Endpoints : tx[c] \in [E -> SubType]
    /\ push \in PushType
    /\ rows \in 0..MaxRows /\ wronged \subseteq Users

\* However requests of several users for one endpoint, prunes and failures
\* overlap, no request changes or removes another user's subscription, and what
\* is sent to a user is encrypted with keys that user registered.
KeysStayHome == wronged = {} /\ \A e \in Endpoints : sub[e].keys = sub[e].owner
=============================================================================
