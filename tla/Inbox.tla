------------------------------- MODULE Inbox --------------------------------
(***************************************************************************)
(* One recipient's rows of the table notifications and the routes over     *)
(* them: a request that marks rows as read or archives them, and a client  *)
(* that pages through a listing, newest first, by page number.  A listing  *)
(* is two statements, the count and the rows.                              *)
(***************************************************************************)
EXTENDS Naturals, FiniteSets

CONSTANTS
    MaxRecords,     \* bound: rows
    Earlier,        \* rows that are there at the start
    PageSize

ASSUME InboxAssumption ==
    /\ MaxRecords \in Nat \ {0} /\ Earlier \in 0..MaxRecords
    /\ PageSize \in Nat \ {0}

VARIABLES
    record,     \* record[i]: row i; newer rows have larger numbers
    desk,       \* the marking request: the rows it loaded, before its commit
    walk        \* the paging client

inbox == <<record, desk, walk>>

Ids == 1..MaxRecords
Row == [stored : BOOLEAN, read : BOOLEAN, archived : BOOLEAN]
DeskType == [at : {"idle", "loaded"}, mark : {"read", "archived"}, rows : SUBSET Ids]

\* unread: the listing is /notifications, not /all.  owed: what was listed when
\* the walk began and has not been shown; a history field.
WalkType == [at : {"away", "asks", "counted", "done"}, unread : BOOLEAN,
             page : 1..MaxRecords, total : 0..MaxRecords,
             owed : SUBSET Ids]

AtDesk == [at |-> "idle", mark |-> "read", rows |-> {}]
Away == [at |-> "away", unread |-> FALSE, page |-> 1, total |-> 0, owed |-> {}]

InboxInit ==
    /\ record = [i \in Ids |-> [stored |-> i <= Earlier, read |-> FALSE, archived |-> FALSE]]
    /\ desk = AtDesk
    /\ walk = Away

Stored == {i \in Ids : record[i].stored}

\* The filters of the two listings.
Listed(rows, unread) ==
    {i \in Ids : rows[i].stored /\ ~rows[i].archived /\ (unread => ~rows[i].read)}

\* A row that leaves the listing, or comes between the two statements, moves
\* rows over a page's edge unseen: nothing is owed to the client any more.
Disturbed == [walk EXCEPT !.owed = {}]

-----------------------------------------------------------------------------
(* DatabaseTransport.write, called by the delivery.                         *)

Insert(i) ==
    /\ i = Cardinality(Stored) + 1 /\ i \in Ids
    /\ record' = [record EXCEPT ![i].stored = TRUE]
    /\ walk' = IF walk.at = "counted" THEN Disturbed ELSE walk
    /\ UNCHANGED desk

-----------------------------------------------------------------------------
(* mark_read, mark_all_read and archive: rows are loaded, then written.     *)

Loads(mark, rows) ==
    /\ desk.at = "idle" /\ rows # {}
    /\ desk' = [at |-> "loaded", mark |-> mark, rows |-> rows]
    /\ UNCHANGED <<record, walk>>

MarkRead(i) == ~record[i].read /\ i \in Stored /\ Loads("read", {i})
MarkAllRead == Loads("read", {i \in Stored : ~record[i].read})
Archive(i) == ~record[i].archived /\ i \in Stored /\ Loads("archived", {i})

Marked == [i \in Ids |->
    IF i \notin desk.rows THEN record[i]
    ELSE IF desk.mark = "read" THEN [record[i] EXCEPT !.read = TRUE]
    ELSE [record[i] EXCEPT !.archived = TRUE]]

DeskCommit ==
    /\ desk.at = "loaded"
    /\ record' = Marked
    /\ desk' = AtDesk
    /\ walk' = IF Listed(Marked, walk.unread) # Listed(record, walk.unread)
               THEN Disturbed ELSE walk

-----------------------------------------------------------------------------
(* inbox and all_notifications, page by page.                               *)

StartWalk(unread) ==
    /\ walk.at \in {"away", "done"}
    /\ walk' = [Away EXCEPT !.at = "asks", !.unread = unread, !.owed = Listed(record, unread)]
    /\ UNCHANGED <<record, desk>>

Count ==
    /\ walk.at = "asks"
    /\ walk' = [walk EXCEPT !.at = "counted",
                            !.total = Cardinality(Listed(record, walk.unread))]
    /\ UNCHANGED <<record, desk>>

\* Mutant: a full last page counts twice.
PagesOneMore(total) == total \div PageSize + 1

Pages(total) == IF total = 0 THEN 1 ELSE (total + PageSize - 1) \div PageSize

\* Mutant: pages are counted from zero.
OnPageFromZero(rows, page) ==
    {i \in rows : LET newer == Cardinality({j \in rows : j > i})
                  IN  newer \div PageSize = page}

\* ORDER BY created_at DESC OFFSET (page - 1) * page_size LIMIT page_size
OnPage(rows, page) ==
    {i \in rows : LET newer == Cardinality({j \in rows : j > i})
                  IN  newer \div PageSize = page - 1}

\* The client stops at the last page it was told of.
ShowPage ==
    /\ walk.at = "counted"
    /\ LET more == walk.page < Pages(walk.total) IN
       walk' = [walk EXCEPT
                  !.owed = @ \ OnPage(Listed(record, walk.unread), walk.page),
                  !.at = IF more THEN "asks" ELSE "done",
                  !.page = IF more THEN @ + 1 ELSE @]
    /\ UNCHANGED <<record, desk>>

InboxNext ==
    \/ \E i \in Ids : MarkRead(i) \/ Archive(i)
    \/ MarkAllRead \/ DeskCommit
    \/ \E unread \in BOOLEAN : StartWalk(unread)
    \/ Count \/ ShowPage

-----------------------------------------------------------------------------
(* Properties.                                                              *)

\* Rows, the marking request and the client keep their types.
InboxTypeOK ==
    /\ record \in [Ids -> Row]
    /\ desk \in DeskType
    /\ walk \in WalkType

\* A client that pages to the end sees every notification that was listed when
\* it began, although new ones move the rest to later pages all the time; unless
\* one was read or archived meanwhile, or arrived between the two statements of
\* a page.
PagingMissesNothing == walk.at = "done" => walk.owed = {}
=============================================================================
