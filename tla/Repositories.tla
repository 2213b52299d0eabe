---------------------------- MODULE Repositories ----------------------------
(***************************************************************************)
(* lib.database: Repository calls and Transaction blocks on AsyncSessions    *)
(* that share a table.                                                      *)
(*                                                                         *)
(* A session keeps the instances it loaded (autoflush=False,                *)
(* expire_on_commit=False): it neither writes nor refreshes one unless a     *)
(* call makes it.  The database is READ COMMITTED and a writer waits for     *)
(* the transaction that holds the row.  A call is one step: what it loaded    *)
(* before it waits it would have loaded in a call before it.                *)
(***************************************************************************)
EXTENDS Naturals, Sequences, Functions

CONSTANTS
    Sessions,
    Ids,            \* primary keys
    Values,         \* what the other columns hold
    Gone,           \* no such row
    Kept,           \* no such instance, write or promise
    MaxBlocks       \* bound: Transaction blocks entered at a time

\* value: its columns; loaded: what they were when loaded or flushed.
Instance == [value : Values, loaded : Values]

ASSUME RepositoriesAssumption ==
    /\ Gone \notin Values /\ Kept \notin Values /\ Gone # Kept
    /\ Kept \notin Instance
    /\ MaxBlocks \in Nat

VARIABLES
    table,      \* the committed rows
    writes,     \* writes[s]: those of its open transaction
    instance,   \* instance[s]: its identity map
    begun,      \* begun[s]: in_transaction()
    broken,     \* broken[s]: a flush failed, only a rollback is left
    blocks,     \* blocks[s]: _should_manage of the Transaction blocks it is in
    promised,   \* promised[s]: what the calls in its blocks said of rows
    misled      \* sessions a call or block told what is not so

session == <<begun, broken, blocks>>
repositories == <<table, writes, instance, session, promised, misled>>

Nothing == [i \in Ids |-> Kept]

RepositoriesInit ==
    /\ table \in [Ids -> Values \cup {Gone}]
    /\ writes = [s \in Sessions |-> Nothing]
    /\ instance = [s \in Sessions |-> Nothing]
    /\ begun = [s \in Sessions |-> FALSE]
    /\ broken = [s \in Sessions |-> FALSE]
    /\ blocks = [s \in Sessions |-> <<>>]
    /\ promised = [s \in Sessions |-> Nothing]
    /\ misled = {}

-----------------------------------------------------------------------------
(* The session.                                                             *)

Over(f, g) == [i \in Ids |-> IF g[i] = Kept THEN f[i] ELSE g[i]]
Rows(w) == Over(table, w)
Row(s, i) == Rows(writes[s])[i]

Holds(s, i) == instance[s][i] # Kept
Fresh(v) == [value |-> v, loaded |-> v]
Changed(in) == {i \in Ids : in[i] # Kept /\ in[i].value # in[i].loaded}
Dirty(s, i) == i \in Changed(instance[s])

\* No other transaction holds the row.
Free(s, i) == \A u \in Sessions \ {s} : writes[u][i] = Kept

Calls(s) == ~broken[s] /\ begun' = [begun EXCEPT ![s] = TRUE]

\* A flush raises: the transaction is rolled back, its instances expire.
Fails(s) ==
    /\ writes' = [writes EXCEPT ![s] = Nothing]
    /\ instance' = [instance EXCEPT ![s] = Nothing]
    /\ broken' = [broken EXCEPT ![s] = TRUE]
    /\ promised' = [promised EXCEPT ![s] = Nothing]
    /\ UNCHANGED <<table, blocks, misled>>

\* A flush over the writes w and the instances in: an UPDATE for each changed
\* one and for no other; StaleDataError when the row is not there.
FlushWaits(s, in) == \E i \in Changed(in) : ~Free(s, i)
FlushFails(w, in) == \E i \in Changed(in) : Rows(w)[i] = Gone
Flushed(w, in) ==
    [i \in Ids |-> IF i \in Changed(in) THEN in[i].value ELSE w[i]]
Clean(in) == [i \in Ids |-> IF in[i] = Kept THEN Kept ELSE Fresh(in[i].value)]

Flush(s, w, in) ==
    /\ writes' = [writes EXCEPT ![s] = Flushed(w, in)]
    /\ instance' = [instance EXCEPT ![s] = Clean(in)]
    /\ UNCHANGED table

-----------------------------------------------------------------------------
(* What a call says: that row i holds v.  A block answers for it when it     *)
(* ends, if the session wrote the row or is going to.                       *)

Says(s, i, v, excused) ==
    /\ misled' = IF excused \/ Row(s, i)' = v THEN misled ELSE misled \cup {s}
    /\ promised' = [promised EXCEPT ![s][i] =
          IF blocks[s] # <<>> /\ ~excused /\ writes'[s][i] # Kept THEN v ELSE Kept]
    /\ UNCHANGED <<broken, blocks>>

SaysNothing == UNCHANGED <<broken, blocks, promised, misled>>
Retracts(s, i) ==
    /\ promised' = [promised EXCEPT ![s][i] = Kept]
    /\ UNCHANGED <<broken, blocks, misled>>

\* The instance has the value already, though the row does not.
OutOfDate(s, i, v) == Holds(s, i) /\ instance[s][i].loaded = v /\ Row(s, i) # v

\* It has another one, which is returned, or written over v.
Differs(s, i, v) == Holds(s, i) /\ instance[s][i].value # v

-----------------------------------------------------------------------------
(* Repository.                                                              *)

\* get, get_by and the queries of QueryBuilder: SELECT loads the rows the
\* session holds no instance of.
Found(s, i) ==
    IF Holds(s, i) THEN instance[s][i]
    ELSE IF Row(s, i) = Gone THEN Kept ELSE Fresh(Row(s, i))

Get(s, i) ==
    /\ Calls(s)
    /\ instance' = [instance EXCEPT ![s][i] = Found(s, i)]
    /\ UNCHANGED <<table, writes>> /\ SaysNothing

\* create and bulk_create: add, flush; IntegrityError when the key is there.
Create(s, i, v) ==
    /\ Calls(s) /\ Free(s, i) /\ ~FlushWaits(s, instance[s])
    /\ Row(s, i) = Gone => ~Holds(s, i)
    /\ LET w == [writes[s] EXCEPT ![i] = v]
           in == [instance[s] EXCEPT ![i] = Fresh(v)]
       IN IF Row(s, i) # Gone \/ FlushFails(w, in) THEN Fails(s)
          ELSE Flush(s, w, in) /\ Says(s, i, v, FALSE)

\* Mutant: the update is left to a later flush.
UpdateUnflushed(s, i, v) ==
    /\ Calls(s) /\ Found(s, i) # Kept
    /\ instance' = [instance EXCEPT ![s][i] = [Found(s, i) EXCEPT !.value = v]]
    /\ UNCHANGED <<table, writes>>
    /\ Says(s, i, v, OutOfDate(s, i, v))

\* update: get(id), set the columns, flush.
Update(s, i, v) ==
    /\ Calls(s) /\ Found(s, i) # Kept
    /\ LET in == [instance[s] EXCEPT ![i] = [Found(s, i) EXCEPT !.value = v]]
       IN /\ ~FlushWaits(s, in)
          /\ IF FlushFails(writes[s], in) THEN Fails(s)
             ELSE Flush(s, writes[s], in) /\ Says(s, i, v, OutOfDate(s, i, v))

\* update_with_obj: the instance changes, nothing is flushed.
UpdateWithObj(s, i, v) ==
    /\ Calls(s) /\ Holds(s, i)
    /\ instance' = [instance EXCEPT ![s][i].value = v]
    /\ promised' = [promised EXCEPT ![s][i] =
          IF blocks[s] # <<>> /\ instance[s][i].loaded # v THEN v ELSE Kept]
    /\ UNCHANGED <<table, writes, broken, blocks, misled>>

\* delete, bulk_delete and delete_with_obj; the instance leaves the session.
Delete(s, i) ==
    /\ Calls(s) /\ Free(s, i)
    /\ LET w == [writes[s] EXCEPT ![i] = IF Row(s, i) = Gone THEN @ ELSE Gone]
           in == [instance[s] EXCEPT ![i] = Kept]
       IN /\ ~FlushWaits(s, in)
          /\ IF FlushFails(w, in) THEN Fails(s)
             ELSE Flush(s, w, in) /\ Says(s, i, Gone, FALSE)

\* delete_by: the database compares its rows, the session its instances.
DeleteBy(s, i, v) ==
    /\ Calls(s) /\ Free(s, i)
    /\ LET w == [writes[s] EXCEPT ![i] = IF Row(s, i) = v THEN Gone ELSE @]
           in == [instance[s] EXCEPT ![i] = IF Differs(s, i, v) THEN @ ELSE Kept]
       IN /\ ~FlushWaits(s, in)
          /\ IF FlushFails(w, in) THEN Fails(s)
             ELSE /\ Flush(s, w, in)
                  /\ IF Row(s, i) = v THEN Says(s, i, Gone, FALSE)
                     ELSE IF Differs(s, i, v) THEN SaysNothing
                     ELSE Retracts(s, i)

\* upsert and bulk_upsert: ON CONFLICT DO UPDATE, then a flush.  An instance
\* the session holds is returned as it is.
Upsert(s, i, v) ==
    /\ Calls(s) /\ Free(s, i) /\ ~FlushWaits(s, instance[s])
    /\ LET w == [writes[s] EXCEPT ![i] = v]
           in == [instance[s] EXCEPT ![i] = IF @ = Kept THEN Fresh(v) ELSE @]
       IN IF FlushFails(w, in) THEN Fails(s)
          ELSE Flush(s, w, in) /\ Says(s, i, v, Differs(s, i, v))

\* bulk_update: UPDATE without synchronizing the session, then a flush.
BulkUpdate(s, i, v) ==
    /\ Calls(s) /\ Free(s, i) /\ ~FlushWaits(s, instance[s])
    /\ Row(s, i) # Gone
    /\ LET w == [writes[s] EXCEPT ![i] = v]
       IN IF FlushFails(w, instance[s]) THEN Fails(s)
          ELSE /\ Flush(s, w, instance[s])
               /\ Says(s, i, v, Dirty(s, i) /\ Differs(s, i, v))

\* refresh, refresh_instance: the row as it is; unflushed changes are dropped.
Refresh(s, i) ==
    /\ Calls(s) /\ Holds(s, i) /\ Row(s, i) # Gone
    /\ instance' = [instance EXCEPT ![s][i] = Fresh(Row(s, i))]
    /\ UNCHANGED <<table, writes>>
    /\ IF Dirty(s, i) THEN Retracts(s, i) ELSE SaysNothing

-----------------------------------------------------------------------------
(* Transaction, @transactional and Service.transaction.                     *)

\* __init__: _should_manage = not session.in_transaction()
Enter(s) ==
    /\ ~broken[s]
    /\ FoldFunction(+, 0, [u \in Sessions |-> Len(blocks[u])]) < MaxBlocks
    /\ blocks' = [blocks EXCEPT ![s] = Append(@, ~begun[s])]
    /\ UNCHANGED <<table, writes, instance, begun, broken, promised, misled>>

Innermost(s) == blocks[s][Len(blocks[s])]
Left(s) == blocks' = [blocks EXCEPT ![s] = SubSeq(@, 1, Len(@) - 1)]

\* session.commit() flushes what changed, and keeps the instances.
Commits(s) ==
    /\ ~FlushWaits(s, instance[s]) /\ ~FlushFails(writes[s], instance[s])
    /\ table' = Rows(Flushed(writes[s], instance[s]))
    /\ writes' = [writes EXCEPT ![s] = Nothing]
    /\ instance' = [instance EXCEPT ![s] = Clean(@)]
    /\ begun' = [begun EXCEPT ![s] = FALSE]
    /\ UNCHANGED broken

RollsBack(s) ==
    /\ writes' = [writes EXCEPT ![s] = Nothing]
    /\ instance' = [instance EXCEPT ![s] = Nothing]
    /\ begun' = [begun EXCEPT ![s] = FALSE]
    /\ broken' = [broken EXCEPT ![s] = FALSE]
    /\ UNCHANGED table

\* __exit__ without an exception; a block that manages its transaction says
\* that what its calls said is kept.
LeaveWell(s) ==
    /\ blocks[s] # <<>> /\ (Innermost(s) => ~broken[s])
    /\ Left(s)
    /\ IF Innermost(s)
       THEN /\ Commits(s)
            /\ misled' = IF \A i \in Ids : promised[s][i] \in {Kept, table'[i]}
                         THEN misled ELSE misled \cup {s}
            /\ promised' = [promised EXCEPT ![s] = Nothing]
       ELSE /\ promised' = [promised EXCEPT ![s] =
                  IF Len(blocks[s]) = 1 THEN Nothing ELSE @]
            /\ UNCHANGED <<table, writes, instance, begun, broken, misled>>

\* Its commit raises, and rolls back unless a failed flush already has.
LeaveFailing(s) ==
    /\ blocks[s] # <<>> /\ Innermost(s)
    /\ Left(s)
    /\ \/ broken[s] /\ UNCHANGED <<table, writes, instance, begun, broken>>
       \/ ~broken[s] /\ FlushFails(writes[s], instance[s]) /\ RollsBack(s)
    /\ promised' = [promised EXCEPT ![s] = Nothing]
    /\ UNCHANGED misled

\* __exit__ with an exception; the caller may go on after it.
LeaveRaising(s) ==
    /\ blocks[s] # <<>>
    /\ Left(s)
    /\ IF Innermost(s) THEN RollsBack(s)
       ELSE UNCHANGED <<table, writes, instance, begun, broken>>
    /\ promised' = [promised EXCEPT ![s] = Nothing]
    /\ UNCHANGED misled

\* Outside any block the service commits; and the session is rolled back or
\* closed, which rolls back.
Commit(s) ==
    /\ blocks[s] = <<>> /\ begun[s] /\ ~broken[s]
    /\ Commits(s)
    /\ UNCHANGED <<blocks, promised, misled>>

Close(s) ==
    /\ blocks[s] = <<>>
    /\ RollsBack(s)
    /\ UNCHANGED <<blocks, promised, misled>>

RepositoriesNext ==
    \E s \in Sessions :
        \/ Enter(s) \/ LeaveWell(s) \/ LeaveFailing(s) \/ LeaveRaising(s)
        \/ Commit(s) \/ Close(s)
        \/ \E i \in Ids :
              \/ Get(s, i) \/ Refresh(s, i) \/ Delete(s, i)
              \/ \E v \in Values :
                    \/ Create(s, i, v) \/ Update(s, i, v)
                    \/ UpdateWithObj(s, i, v) \/ DeleteBy(s, i, v)
                    \/ Upsert(s, i, v) \/ BulkUpdate(s, i, v)

RepositoriesSpec == RepositoriesInit /\ [][RepositoriesNext]_repositories
-----------------------------------------------------------------------------
(* Properties.                                                              *)

\* Every variable keeps its type.
RepositoriesTypeOK ==
    /\ table \in [Ids -> Values \cup {Gone}]
    /\ writes \in [Sessions -> [Ids -> Values \cup {Gone, Kept}]]
    /\ instance \in [Sessions -> [Ids -> Instance \cup {Kept}]]
    /\ begun \in [Sessions -> BOOLEAN] /\ broken \in [Sessions -> BOOLEAN]
    /\ blocks \in [Sessions -> Seq(BOOLEAN)]
    /\ promised \in [Sessions -> [Ids -> Values \cup {Gone, Kept}]]
    /\ misled \subseteq Sessions

\* What a returned call said of a row is so for its session, and what calls
\* said in a Transaction block that manages its transaction is committed when
\* the block ends well, whatever other sessions commit meanwhile.  Excused are
\* an update to the value an out-of-date instance has, and an upsert or
\* bulk_update of a row whose instance has another.
ReportsAreTrue == misled = {}

\* "The decorator will manage transactions by committing if the function
\* completes successfully": what was said in blocks is committed when the
\* outermost one ends well.
BlocksCommit ==
    [][\A s \in Sessions : LeaveWell(s) /\ Len(blocks[s]) = 1 =>
          \A i \in Ids : promised[s][i] \in {Kept, table'[i]}]_repositories
=============================================================================
