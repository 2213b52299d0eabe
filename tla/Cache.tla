------------------------------- MODULE Cache --------------------------------
(***************************************************************************)
(* CacheService as the cache of a table: readers call get_or_set, whose    *)
(* factory reads the table, or get alone, and a writer changes a row and   *)
(* then sets its key, deletes it, or deletes all keys with                 *)
(* invalidate_pattern.  Every Redis call and the factory are steps of      *)
(* their own; a call that raises is logged and counts as a miss, or as     *)
(* done.                                                                   *)
(***************************************************************************)
EXTENDS Redis

CONSTANTS
    Keys, Readers,
    MaxWrites       \* bound: versions of a row

ASSUME CacheAssumption == MaxWrites \in Nat /\ Keys # {}

VARIABLES
    truth,      \* truth[k]: the version of the row; 0 while there is none
    cached,     \* cached[k]: the key's value in Redis
    reader,     \* reader[r]: where a get or a get_or_set is
    writer,     \* where the writer is
    clean       \* history: clean[k]: the last version k was invalidated for

cache == <<truth, cached, reader, writer, clean>>

Versions == 0..MaxWrites
None == 0

\* raced: stored after, but computed before a write; or missed by a failed
\* delete.  A history field.
Entry == [full : BOOLEAN, value : Versions, raced : BOOLEAN]
Empty == [full |-> FALSE, value |-> None, raced |-> FALSE]

\* floor: clean[key] when the call began; a history field.
ReaderType == [at : {"idle", "look", "get", "compute", "store", "answer"}, key : Keys,
               value : Versions, floor : Versions, raced : BOOLEAN]
WriterType == [at : {"idle", "written", "scan"}, key : Keys, left : SUBSET Keys]

AnyKey == CHOOSE k \in Keys : TRUE
NoCall == [at |-> "idle", key |-> AnyKey, value |-> None, floor |-> None, raced |-> FALSE]
NoWrite == [at |-> "idle", key |-> AnyKey, left |-> {}]

CacheInit ==
    /\ truth = [k \in Keys |-> None]
    /\ cached = [k \in Keys |-> Empty]
    /\ reader = [r \in Readers |-> NoCall]
    /\ writer = NoWrite
    /\ clean = [k \in Keys |-> None]

-----------------------------------------------------------------------------
(* get and get_or_set.                                                      *)

Call(r, k, stage) ==
    /\ reader[r].at = "idle"
    /\ reader' = [reader EXCEPT ![r] = [at |-> stage, key |-> k, value |-> None,
                                        floor |-> clean[k], raced |-> FALSE]]
    /\ UNCHANGED <<truth, cached, writer, clean>>

\* A cached None reads like a miss, and so does an error.
Hit(k) == up /\ cached[k].full /\ cached[k].value # None

Found(r) ==
    LET k == reader[r].key IN
    [reader[r] EXCEPT !.at = "answer", !.value = cached[k].value, !.raced = cached[k].raced]

\* get: None for a key that is not there.
LookUp(r) ==
    /\ reader[r].at = "look"
    /\ reader' = [reader EXCEPT ![r] = IF Hit(reader[r].key) THEN Found(r) ELSE NoCall]
    /\ UNCHANGED <<truth, cached, writer, clean>>

Get(r) ==
    /\ reader[r].at = "get"
    /\ reader' = [reader EXCEPT ![r] = IF Hit(reader[r].key) THEN Found(r)
                                       ELSE [@ EXCEPT !.at = "compute"]]
    /\ UNCHANGED <<truth, cached, writer, clean>>

Compute(r) ==
    /\ reader[r].at = "compute"
    /\ reader' = [reader EXCEPT ![r].at = "store", ![r].value = truth[reader[r].key]]
    /\ UNCHANGED <<truth, cached, writer, clean>>

\* The factory raises: nothing is stored, the caller gets the exception.
FactoryFails(r) ==
    /\ reader[r].at = "compute"
    /\ reader' = [reader EXCEPT ![r] = NoCall]
    /\ UNCHANGED <<truth, cached, writer, clean>>

Store(r) ==
    LET k == reader[r].key IN
    /\ reader[r].at = "store"
    /\ reader' = [reader EXCEPT ![r].at = "answer"]
    /\ cached' = IF up THEN [cached EXCEPT ![k] = [full |-> TRUE, value |-> reader[r].value,
                                                   raced |-> reader[r].value # truth[k]]]
                 ELSE cached
    /\ UNCHANGED <<truth, writer, clean>>

Answer(r) ==
    /\ reader[r].at = "answer"
    /\ reader' = [reader EXCEPT ![r] = NoCall]
    /\ UNCHANGED <<truth, cached, writer, clean>>

-----------------------------------------------------------------------------
(* The application's writer, set, delete and invalidate_pattern.            *)

Write(k) ==
    /\ writer.at = "idle" /\ truth[k] < MaxWrites
    /\ truth' = [truth EXCEPT ![k] = @ + 1]
    /\ writer' = [at |-> "written", key |-> k, left |-> {}]
    /\ UNCHANGED <<cached, reader, clean>>

\* The writer goes on, whether its call was executed or not.
Finished ==
    /\ writer' = NoWrite
    /\ clean' = [clean EXCEPT ![writer.key] = truth[writer.key]]

\* A swallowed error leaves an outdated value behind.
Outdated(k) == cached[k].full /\ cached[k].value < truth[k]
Missed == cached' = [cached EXCEPT ![writer.key].raced = @ \/ Outdated(writer.key)]

\* The writer stores what it wrote.
SetThrough ==
    /\ writer.at = "written" /\ up
    /\ cached' = [cached EXCEPT ![writer.key] = [full |-> TRUE, value |-> truth[writer.key],
                                                 raced |-> FALSE]]
    /\ Finished
    /\ UNCHANGED <<truth, reader>>

\* Mutant: delete misses the key, as with other params than get_or_set.
DeleteElsewhere ==
    /\ writer.at = "written" /\ up
    /\ Finished
    /\ UNCHANGED <<truth, cached, reader>>

Delete ==
    /\ writer.at = "written" /\ up
    /\ cached' = [cached EXCEPT ![writer.key] = Empty]
    /\ Finished
    /\ UNCHANGED <<truth, reader>>

ScanStart ==
    /\ writer.at = "written" /\ up
    /\ writer' = [writer EXCEPT !.at = "scan", !.left = {k \in Keys : cached[k].full}]
    /\ UNCHANGED <<truth, cached, reader, clean>>

\* SCAN returns every key that is there from its start to its end, and perhaps
\* others.
ScanDelete(k) ==
    /\ writer.at = "scan" /\ up
    /\ k \in writer.left \/ cached[k].full
    /\ writer' = [writer EXCEPT !.left = @ \ {k}]
    /\ cached' = [cached EXCEPT ![k] = Empty]
    /\ UNCHANGED <<truth, reader, clean>>

ScanEnds ==
    /\ writer.at = "scan" /\ up /\ writer.left = {}
    /\ Finished
    /\ UNCHANGED <<truth, cached, reader>>

\* set and delete return False; an error ends the loop of invalidate_pattern.
InvalidationFails ==
    /\ writer.at \in {"written", "scan"} /\ ~up
    /\ Missed
    /\ Finished
    /\ UNCHANGED <<truth, reader>>

\* Every SET has an expiry, with jitter (_get_ttl).
Expire(k) ==
    /\ cached[k].full
    /\ cached' = [cached EXCEPT ![k] = Empty]
    /\ UNCHANGED <<truth, reader, writer, clean>>

Reads(r) == LookUp(r) \/ Get(r) \/ Compute(r) \/ FactoryFails(r) \/ Store(r) \/ Answer(r)
Invalidates ==
    SetThrough \/ Delete \/ ScanStart \/ ScanEnds \/ InvalidationFails \/ \E k \in Keys : ScanDelete(k)

CacheNext ==
    \/ \E r \in Readers : Reads(r) \/ \E k \in Keys, stage \in {"look", "get"} : Call(r, k, stage)
    \/ \E k \in Keys : Write(k) \/ Expire(k)
    \/ Invalidates

-----------------------------------------------------------------------------
(* Properties.                                                              *)

\* The table, the cache and its users keep their types.
CacheTypeOK ==
    /\ truth \in [Keys -> Versions] /\ clean \in [Keys -> Versions]
    /\ cached \in [Keys -> Entry]
    /\ reader \in [Readers -> ReaderType]
    /\ writer \in WriterType

\* A get or a get_or_set that begins after a row was invalidated, or set anew,
\* never answers with an older version of it, unless the cached value was
\* computed before the write and stored after it, or an outage swallowed the
\* delete.
ReadsAfterInvalidation ==
    \A r \in Readers :
        reader[r].at = "answer" /\ ~reader[r].raced => reader[r].value >= reader[r].floor
=============================================================================
