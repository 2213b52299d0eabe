---------------------------- MODULE EventStreams ----------------------------
(***************************************************************************)
(* InMemoryEventEmitter for one channel: the SSE streams of one recipient  *)
(* come and go in the event loop of the server, while a job's worker       *)
(* thread publishes.  publish loops over the list of queues by index, and  *)
(* a stream that closes removes its queue from that list.                  *)
(***************************************************************************)
EXTENDS Naturals, Sequences, SequencesExt

CONSTANTS
    Streams,
    Maxsize         \* of a queue; 0: unbounded

ASSUME StreamsAssumption == Maxsize \in Nat

VARIABLES
    stream,     \* stream[s]: closed, opening (its generator has not run), open
    list,       \* _subscribers[channel]
    queue,      \* queue[s]: messages not yet sent to the browser
    pub         \* the publish under way

streams == <<stream, list, queue, pub>>

\* over: the list it loops on was dropped from _subscribers.  owed: open since
\* it began and not reached yet; upset: a queue it had passed was removed.
PubType(Messages) ==
    [on : BOOLEAN, next : Nat, msg : Messages, over : BOOLEAN,
     owed : SUBSET Streams, upset : BOOLEAN]
NoPub(msg) == [on |-> FALSE, next |-> 1, msg |-> msg, over |-> FALSE,
               owed |-> {}, upset |-> FALSE]

StreamsInit(msg) ==
    /\ stream = [s \in Streams |-> "closed"]
    /\ list = <<>>
    /\ queue = [s \in Streams |-> <<>>]
    /\ pub = NoPub(msg)

\* GET /stream: subscribe makes the queue, the generator has not started.
Open(s) ==
    /\ stream[s] = "closed"
    /\ stream' = [stream EXCEPT ![s] = "opening"]
    /\ UNCHANGED <<list, queue, pub>>

Register(s) ==
    /\ stream[s] = "opening"
    /\ stream' = [stream EXCEPT ![s] = "open"]
    /\ list' = Append(list, s)
    /\ UNCHANGED <<queue, pub>>

Receive(s) ==
    /\ stream[s] = "open" /\ queue[s] # <<>>
    /\ queue' = [queue EXCEPT ![s] = Tail(@)]
    /\ UNCHANGED <<stream, list, pub>>

\* The browser is gone: the generator's finally.
Passed(s) == \E i \in 1..pub.next - 1 : i <= Len(list) /\ list[i] = s

Close(s) ==
    /\ stream[s] # "closed"
    /\ stream' = [stream EXCEPT ![s] = "closed"]
    /\ IF s \in ToSet(list)
       THEN \E i \in DOMAIN list : list[i] = s /\ list' = RemoveAt(list, i)
       ELSE UNCHANGED list
    /\ queue' = [queue EXCEPT ![s] = <<>>]
    /\ pub' = [pub EXCEPT !.owed = @ \ {s},
                          !.over = @ \/ list = <<s>>,
                          !.upset = @ \/ Passed(s)]

Publish(msg) ==
    /\ ~pub.on
    /\ pub' = [NoPub(msg) EXCEPT !.on = TRUE, !.owed = ToSet(list), !.over = list = <<>>]
    /\ UNCHANGED <<stream, list, queue>>

Full(s) == Maxsize # 0 /\ Len(queue[s]) >= Maxsize
More == ~pub.over /\ pub.next <= Len(list)

\* Mutant: a full queue ends the loop.
AfterThatEnds == [pub EXCEPT !.next = @ + 1, !.owed = @ \ {list[pub.next]},
                             !.over = @ \/ Full(list[pub.next])]

\* QueueFull is passed over.
AfterThat == [pub EXCEPT !.next = @ + 1, !.owed = @ \ {list[pub.next]}]

PublishNext ==
    LET s == list[pub.next] IN
    /\ pub.on /\ More
    /\ queue' = IF Full(s) THEN queue ELSE [queue EXCEPT ![s] = Append(@, pub.msg)]
    /\ pub' = AfterThat
    /\ UNCHANGED <<stream, list>>

PublishEnds ==
    /\ pub.on /\ ~More
    /\ pub' = [pub EXCEPT !.on = FALSE]
    /\ UNCHANGED <<stream, list, queue>>

\* The process dies.
StreamsDie ==
    /\ stream' = [s \in Streams |-> "closed"]
    /\ list' = <<>>
    /\ queue' = [s \in Streams |-> <<>>]
    /\ pub' = NoPub(pub.msg)

StreamsNext == \E s \in Streams : Open(s) \/ Register(s) \/ Receive(s) \/ Close(s)

-----------------------------------------------------------------------------
(* Properties.                                                              *)

\* Streams, their list and queues and the publish keep their types.
StreamsTypeOK(Messages) ==
    /\ stream \in [Streams -> {"closed", "opening", "open"}]
    /\ list \in Seq(Streams)
    /\ queue \in [Streams -> Seq(Messages)]
    /\ pub \in PubType(Messages)

\* "Any open SSE stream for the recipient will receive the event": a publish
\* puts it into the queue of every stream that was open when it began and still
\* is, or finds it full; unless a stream it had served closed meanwhile, which
\* makes the loop skip one.
OpenStreamsAreServed == ~pub.on /\ ~pub.upset => pub.owed = {}
=============================================================================
