------------------------------- MODULE Slugs --------------------------------
(***************************************************************************)
(* lib.database.mixins.friendly: slugs given in before_flush.              *)
(*                                                                         *)
(* Sessions insert and change rows of one table whose slug column is        *)
(* unique.  before_flush looks for a free slug with SELECTs, row after row;  *)
(* the INSERTs and UPDATEs come after it, and other sessions in between.  A  *)
(* unique index makes a writer wait for the transaction that holds the key.  *)
(***************************************************************************)
EXTENDS Naturals, FiniteSets

CONSTANTS
    Editors,        \* sessions
    Posts,          \* primary keys, numbers
    Titles,         \* what slugs are made from; an empty one has no slug
    Empty,
    Given,          \* a slug given by hand
    Stored,         \* what the table may hold at first
    MaxDrafts,      \* bound: rows in one flush
    MaxFlushes      \* bound

NoSlug == [of |-> Empty, n |-> 0]
NoPost == [title |-> "none", slug |-> NoSlug, new |-> FALSE]
NoDrafts == [p \in Posts |-> NoPost]
\* A slug is its title, slugified and cut, and a number from 2 on when taken.
Slug == [of : Titles, n : Nat]

\* The unique index: no two rows have one slug, but any may have none.
Distinct(rows) ==
    \A p, q \in Posts : p # q /\ rows[p].slug = rows[q].slug => rows[p].slug = NoSlug

ASSUME SlugsAssumption ==
    /\ Empty \in Titles /\ "none" \notin Titles /\ MaxDrafts \in Nat /\ MaxFlushes \in Nat
    /\ \A rows \in Stored :
          /\ rows \in [Posts -> [title : Titles \cup {"none"}, slug : Slug, new : {FALSE}]]
          /\ Distinct(rows)

VARIABLES
    updates,    \* slug_config.update_on_change
    posts,      \* the committed rows
    drafts,     \* drafts[e]: new and dirty instances session e is flushing
    slugless,   \* slugless[e]: those before_flush has yet to give a slug
    resolved,   \* resolved[e]: the slugs of the instances
    unwritten,  \* unwritten[e]: rows e flushed and has not committed
    arrived,    \* arrived[e]: slugs others committed since e looked
    clashes,    \* flushes that hit the unique index, though nobody raced them
    flushes     \* flushes so far

slugs == <<updates, posts, drafts, slugless, resolved, unwritten, arrived, clashes, flushes>>

SlugsOfNone == [p \in Posts |-> NoSlug]

SlugsInit ==
    /\ updates \in BOOLEAN
    /\ posts \in Stored
    /\ drafts = [e \in Editors |-> NoDrafts]
    /\ slugless = [e \in Editors |-> {}]
    /\ resolved = [e \in Editors |-> SlugsOfNone]
    /\ unwritten = [e \in Editors |-> NoDrafts]
    /\ arrived = [e \in Editors |-> {}]
    /\ clashes = 0
    /\ flushes = 0

-----------------------------------------------------------------------------
Sees(e) == [p \in Posts |-> IF unwritten[e][p] # NoPost THEN unwritten[e][p] ELSE posts[p]]
Targets(d) == {p \in Posts : d[p] # NoPost}
SlugsOf(rows, P) == {rows[p].slug : p \in P} \ {NoSlug}

\* _on_before_flush leaves a row's slug alone.
Skips(d) ==
    \/ d.slug # NoSlug /\ ~(updates /\ ~d.new)
    \/ ~d.new /\ ~updates
    \/ d.title = Empty

Flushes(e) == drafts[e] # NoDrafts

-----------------------------------------------------------------------------
\* What a session may have added or changed before it flushes: new rows, with
\* a slug given by hand or without, and rows it loaded.  One session at a time
\* has a row.
Elsewhere(e, p) == \E x \in Editors \ {e} : drafts[x][p] # NoPost \/ unwritten[x][p] # NoPost

Draft(e, p) ==
    {NoPost} \cup
    IF Elsewhere(e, p) THEN {}
    ELSE IF Sees(e)[p] # NoPost
    THEN {[title |-> t, slug |-> Sees(e)[p].slug, new |-> FALSE] : t \in Titles}
    ELSE [title : Titles, slug : {NoSlug, Given}, new : {TRUE}]

\* _on_before_flush begins: rows it leaves alone keep their slug.
BeforeFlush(e) ==
    /\ ~Flushes(e)
    /\ flushes < MaxFlushes /\ flushes' = flushes + 1
    /\ \E d \in [Posts -> UNION {Draft(e, p) : p \in Posts}] :
          /\ Cardinality(Targets(d)) \in 1..MaxDrafts
          /\ \A p \in Posts : d[p] \in Draft(e, p)
          /\ drafts' = [drafts EXCEPT ![e] = d]
          /\ slugless' = [slugless EXCEPT ![e] = {p \in Targets(d) : ~Skips(d[p])}]
          /\ resolved' = [resolved EXCEPT ![e] = [p \in Posts |-> d[p].slug]]
    /\ UNCHANGED <<updates, posts, unwritten, arrived, clashes>>

\* The slugs given in this flush.
Claimed(e) ==
    {resolved[e][p] : p \in {p \in Targets(drafts[e]) : ~Skips(drafts[e][p])} \ slugless[e]}

\* Mutant: slugs given in this flush are not claimed.
TakenUnclaimed(e, p) == SlugsOf(Sees(e), Posts \ {p})

\* exists: the row's own slug does not count, those given in this flush do.
Taken(e, p) == Claimed(e) \cup SlugsOf(Sees(e), Posts \ {p})

\* make_unique_slug: the candidate, or the first free number.
GiveSlug(e, p) ==
    /\ p \in slugless[e]
    \* The new instances, then the dirty ones, each in the order of a set.
    /\ drafts[e][p].new \/ \A q \in slugless[e] : ~drafts[e][q].new
    /\ \E n \in 1..(Cardinality(Taken(e, p)) + 1) :
          LET slug(m) == [of |-> drafts[e][p].title, n |-> m] IN
          /\ slug(n) \notin Taken(e, p) /\ \A m \in 1..(n - 1) : slug(m) \in Taken(e, p)
          /\ resolved' = [resolved EXCEPT ![e] = [@ EXCEPT ![p] = slug(n)]]
          /\ arrived' = [arrived EXCEPT ![e] = @ \ {slug(n)}]
    /\ slugless' = [slugless EXCEPT ![e] = @ \ {p}]
    /\ UNCHANGED <<updates, posts, drafts, unwritten, clashes, flushes>>

Inserted(e) ==
    [p \in Posts |-> IF p \in Targets(drafts[e])
                     THEN [title |-> drafts[e][p].title, slug |-> resolved[e][p], new |-> FALSE]
                     ELSE Sees(e)[p]]

\* Another open transaction holds the row or the key.
MustWait(e) ==
    \E x \in Editors \ {e} : \E p \in Targets(drafts[e]), q \in Posts :
        /\ unwritten[x][q] # NoPost
        /\ \/ p = q
           \/ resolved[e][p] # NoSlug /\ resolved[e][p] \in {unwritten[x][q].slug, posts[q].slug}

\* Rows to write whose slug another row has, before or after the flush.
Clashing(e) ==
    {p \in Targets(drafts[e]) : \E q \in Posts \ {p} :
        Inserted(e)[p].slug \in {Inserted(e)[q].slug, Sees(e)[q].slug} \ {NoSlug}}

\* INSERT and UPDATE.
Write(e) ==
    /\ Flushes(e) /\ slugless[e] = {} /\ ~MustWait(e) /\ Clashing(e) = {}
    /\ unwritten' = [unwritten EXCEPT ![e] =
          [p \in Posts |-> IF p \in Targets(drafts[e]) THEN Inserted(e)[p] ELSE @[p]]]
    /\ drafts' = [drafts EXCEPT ![e] = NoDrafts]
    /\ resolved' = [resolved EXCEPT ![e] = SlugsOfNone]
    /\ arrived' = [arrived EXCEPT ![e] = {}]
    /\ UNCHANGED <<updates, posts, slugless, clashes, flushes>>

GivenByHand(e, slug) ==
    \E p \in Targets(drafts[e]) : drafts[e][p].new /\ drafts[e][p].slug = slug

\* IntegrityError: the transaction is rolled back.  It counts unless another
\* session committed the slug meanwhile, or this flush has it given by hand.
Clash(e) ==
    /\ Flushes(e) /\ slugless[e] = {} /\ ~MustWait(e) /\ Clashing(e) # {}
    /\ clashes' = IF \A p \in Clashing(e) :
                        /\ resolved[e][p] \notin arrived[e]
                        /\ ~GivenByHand(e, resolved[e][p])
                  THEN clashes + 1 ELSE clashes
    /\ drafts' = [drafts EXCEPT ![e] = NoDrafts]
    /\ resolved' = [resolved EXCEPT ![e] = SlugsOfNone]
    /\ unwritten' = [unwritten EXCEPT ![e] = NoDrafts]
    /\ arrived' = [arrived EXCEPT ![e] = {}]
    /\ UNCHANGED <<updates, posts, slugless, flushes>>

CommitPosts(e) ==
    /\ ~Flushes(e) /\ unwritten[e] # NoDrafts
    /\ posts' = Sees(e)
    /\ arrived' = [x \in Editors |->
          IF ~Flushes(x) THEN {} ELSE arrived[x] \cup SlugsOf(unwritten[e], Posts)]
    /\ unwritten' = [unwritten EXCEPT ![e] = NoDrafts]
    /\ UNCHANGED <<updates, drafts, slugless, resolved, clashes, flushes>>

RollBackPosts(e) ==
    /\ ~Flushes(e) /\ unwritten[e] # NoDrafts
    /\ unwritten' = [unwritten EXCEPT ![e] = NoDrafts]
    /\ UNCHANGED <<updates, posts, drafts, slugless, resolved, arrived, clashes, flushes>>

\* A row is deleted and its slug is free again.
RemovePost(p) ==
    /\ posts[p] # NoPost
    /\ \A x \in Editors : drafts[x][p] = NoPost /\ unwritten[x][p] = NoPost
    /\ posts' = [posts EXCEPT ![p] = NoPost]
    /\ UNCHANGED <<updates, drafts, slugless, resolved, unwritten, arrived, clashes, flushes>>

SlugsNext ==
    \/ \E e \in Editors :
          \/ BeforeFlush(e) \/ (\E p \in Posts : GiveSlug(e, p)) \/ Write(e) \/ Clash(e)
          \/ CommitPosts(e) \/ RollBackPosts(e)
    \/ \E p \in Posts : RemovePost(p)

SlugsSpec == SlugsInit /\ [][SlugsNext]_slugs
-----------------------------------------------------------------------------
\* Every variable keeps its type.
SlugsTypeOK ==
    /\ posts \in [Posts -> [title : Titles \cup {"none"}, slug : Slug, new : {FALSE}]]
    /\ updates \in BOOLEAN /\ flushes \in Nat /\ clashes \in Nat

\* A flush fails on the unique slug only because another session committed
\* that slug after it looked, or because a slug was given by hand: what one
\* session flushes, in whatever order, does not clash with itself or with
\* what it could see.
ClashesAreRaces == clashes = 0
=============================================================================
