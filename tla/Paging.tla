------------------------------- MODULE Paging -------------------------------
(***************************************************************************)
(* lib.pagination and lib.database.Paginator: a client pages through a       *)
(* filtered and sorted listing, page by page, while rows come, go and       *)
(* change.                                                                  *)
(*                                                                         *)
(* Each page is a query of its own.  A limit/offset page counts rows from    *)
(* the start of the listing; a cursor is the place of the last row of the    *)
(* page before it, in the columns the listing is sorted by.  Cutting the     *)
(* listing into pages is fastapi-pagination's part, and rows that compare    *)
(* equal come in any order.                                                 *)
(***************************************************************************)
EXTENDS Naturals, Sequences, FiniteSets, SequencesExt

CONSTANTS
    Items,          \* primary keys, numbers
    Sorts,          \* order_by values clients send: sequences of columns, or none
    Sortable,       \* allowed_sort_fields
    Size,           \* size or limit of a page
    MaxItems,       \* bound: rows at first
    MaxChanges      \* bound: writes to the table

\* A column of a listing: "key" is one that rows share, "id" the primary key.
Column == [name : {"key", "id"}, desc : BOOLEAN]

ASSUME PagingAssumption ==
    /\ Items \subseteq Nat /\ IsFiniteSet(Items)
    /\ Sorts \subseteq Seq(Column)
    /\ Sortable \subseteq {"key", "id"}
    /\ Size \in Nat \ {0} /\ MaxItems \in Nat /\ MaxChanges \in Nat

VARIABLES
    items,      \* the rows: their key, and the related rows the filter matches
    listing,    \* what the client asked for, or Unasked
    place,      \* its cursor: <<>> at the start; or its offset
    seen,       \* seen[i]: how often row i was on a page
    ended,      \* the last page was read
    touched,    \* rows written since the listing was asked for
    changes     \* writes so far

paging == <<items, listing, place, seen, ended, touched, changes>>

NoItem == [key |-> 0, hits |-> 0]
\* hits counts the rows a join over the relationship yields: none when the
\* filter does not match, several over a to-many relationship.
Hits == 0..2
Item == [key : 1..2, hits : Hits]
Unasked == [sort |-> <<>>, by |-> "cursor", joins |-> 0, keyed |-> FALSE]

StartItems ==
    {m \in [Items -> Item \cup {NoItem}] : Cardinality({i \in Items : m[i] # NoItem}) = MaxItems}

PagingInit ==
    /\ items \in StartItems
    /\ listing = Unasked
    /\ place = <<>>
    /\ seen = [i \in Items |-> 0]
    /\ ended = FALSE
    /\ touched = {}
    /\ changes = 0

-----------------------------------------------------------------------------
(* Filter.                                                                  *)

\* restrict_sortable_fields
Allowed(sort) == \A n \in 1..Len(sort) : sort[n].name \in Sortable

NamesId(sort) == \E n \in 1..Len(sort) : sort[n].name = "id"

\* Mutant: sort() without the id.
SortColumnsAsked(sort, keyed) == sort

\* sort(): nothing when no column is asked for; else the columns asked for and,
\* unless it is among them or the model has none, the id in the direction of
\* the last.
SortColumns(sort, keyed) ==
    IF sort = <<>> \/ NamesId(sort) \/ ~keyed THEN sort
    ELSE Append(sort, [name |-> "id", desc |-> Last(sort).desc])

\* A criterion that goes through a relationship joins it: a row is listed once
\* for each related row that matches.
Copies(i, joins) == IF joins = 0 /\ items[i].hits > 0 THEN 1 ELSE items[i].hits

ColumnOf(i, c) == IF c.name = "id" THEN i ELSE items[i].key
PlaceOf(i, columns) == [n \in 1..Len(columns) |-> ColumnOf(i, columns[n])]

\* ORDER BY columns puts p before q.
Before(p, q, columns) ==
    \E n \in 1..Len(columns) :
        /\ \A m \in 1..(n - 1) : p[m] = q[m]
        /\ IF columns[n].desc THEN p[n] > q[n] ELSE p[n] < q[n]

\* The orders the database may list the rows of S in.
Orders(S, columns) ==
    {o \in [S -> 1..Cardinality(S)] :
        \A i, j \in S :
            /\ i # j => o[i] # o[j]
            /\ Before(PlaceOf(i, columns), PlaceOf(j, columns), columns) => o[i] < o[j]}

\* The entries of a listing of the rows in S: a row and which of its copies.
Entries(S, joins) == {e \in S \X Hits : e[2] \in 1..Copies(e[1], joins)}

\* How many entries of listing L come before e.
Ahead(e, L, o) ==
    Cardinality({f \in L : o[f[1]] < o[e[1]] \/ (f[1] = e[1] /\ f[2] < e[2])})

Page(L, o, start) == {e \in L : Ahead(e, L, o) \in start..(start + Size - 1)}

-----------------------------------------------------------------------------
(* The client.                                                              *)

Stands == {i \in Items : items[i] # NoItem}

\* A listing is asked for, of a model that has an id column (keyed) or none.
\* Joining one relationship twice is an error of the database; a column that may
\* not be sorted by, or is not there, is refused, and fastapi-pagination refuses
\* a cursor over a listing without an order.
Ask(sort, by, joins, keyed) ==
    /\ listing = Unasked
    /\ Allowed(sort) /\ joins < 2
    /\ NamesId(sort) => keyed
    /\ by = "cursor" => sort # <<>>
    /\ listing' = [sort |-> SortColumns(sort, keyed), by |-> by, joins |-> joins,
                   keyed |-> keyed]
    /\ UNCHANGED <<items, place, seen, ended, touched, changes>>

Delivers(page) ==
    seen' = [i \in Items |-> seen[i] + Cardinality({c \in Hits : <<i, c>> \in page})]

\* The rows after the cursor.
AfterCursor ==
    {i \in Stands : place = <<>> \/ Before(place, PlaceOf(i, listing.sort), listing.sort)}

\* execute_cursor
CursorPage ==
    /\ listing.by = "cursor"
    /\ LET L == Entries(AfterCursor, listing.joins) IN
       \E o \in Orders(AfterCursor, listing.sort) :
           LET page == Page(L, o, 0) IN
           /\ Delivers(page)
           /\ ended' = (Cardinality(L) <= Size)
           /\ \/ page = {} /\ place' = place
              \/ \E last \in page :
                    /\ \A e \in page : o[e[1]] <= o[last[1]]
                    /\ place' = PlaceOf(last[1], listing.sort)

\* The entries an offset passes over.
Start == IF place = <<>> THEN 0 ELSE place[1]

\* execute_offset
OffsetPage ==
    /\ listing.by = "offset"
    /\ LET L == Entries(Stands, listing.joins) IN
       /\ \E o \in Orders(Stands, listing.sort) : Delivers(Page(L, o, Start))
       /\ ended' = (Cardinality(L) <= Start + Size)
       /\ place' = <<Start + Size>>

ReadPage ==
    /\ listing # Unasked /\ ~ended
    /\ CursorPage \/ OffsetPage
    /\ UNCHANGED <<items, listing, touched, changes>>

\* Someone inserts, changes or deletes a row.
ChangeItem(i, item) ==
    /\ changes < MaxChanges /\ changes' = changes + 1
    /\ items[i] # item
    /\ items' = [items EXCEPT ![i] = item]
    /\ touched' = touched \cup {i}
    /\ UNCHANGED <<listing, place, seen, ended>>

PagingNext ==
    \/ \E sort \in Sorts, by \in {"cursor", "offset"}, joins \in 0..2, keyed \in BOOLEAN :
          Ask(sort, by, joins, keyed)
    \/ ReadPage
    \/ listing # Unasked /\ ~ended
       /\ \E i \in Items, item \in Item \cup {NoItem} : ChangeItem(i, item)

PagingSpec == PagingInit /\ [][PagingNext]_paging
-----------------------------------------------------------------------------
(* Properties.                                                              *)

\* Every variable keeps its type.
PagingTypeOK ==
    /\ items \in [Items -> Item \cup {NoItem}]
    /\ seen \in [Items -> Nat]
    /\ touched \subseteq Items

\* A listing has an order of its own when it was asked for sorted, of a model
\* with an id: then rows that share a key still have their places.
Ordered == listing.keyed /\ listing.sort # <<>>

\* A client that reads an ordered listing to its end gets every row that matches
\* and that nobody wrote meanwhile, and gets it once unless a to-many
\* relationship multiplies it: always with cursors, and with offsets while
\* nothing changes.  (A listing nobody sorted, or of a model without an id, may
\* be in another order for every page, and loses and repeats rows.)
PagesMissNothing ==
    ended /\ Ordered /\ (listing.by = "cursor" \/ touched = {}) =>
        \A i \in Stands \ touched :
            IF items[i].hits = 0 THEN seen[i] = 0
            ELSE seen[i] \in 1..Copies(i, listing.joins)
=============================================================================
