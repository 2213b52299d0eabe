-------------------------- MODULE ApplicationSafety --------------------------
(***************************************************************************)
(* Theorems about Application for every choice of its constants: the         *)
(* history of a state machine, what repositories report, the pages of a      *)
(* form, the jobs of Celery and recurring ones, slugs, listings read page by *)
(* page, and the hooks and routes of controllers.                           *)
(***************************************************************************)
EXTENDS Application, FiniteSetTheorems, SequenceTheorems, WellFoundedInduction, TLAPS

-----------------------------------------------------------------------------
(* The state machine's inductive invariant.                                 *)

\* S is a history whose sort_keys count its rows.
Orderly(S) ==
  /\ IsWalk(S) /\ IsFiniteSet(S)
  /\ \A r \in S : r.key \in 0..Cardinality(S)
  /\ \A k \in 0..Cardinality(S) : SameKey(S, k) <=> k # Cardinality(S)

Latest(S) == {r \in S : IsLast(r, S)}

\* Records and functions have their shape.
IsCall(c) == c = [at |-> c.at, key |-> c.key, from |-> c.from, to |-> c.to,
                  prevs |-> c.prevs, tries |-> c.tries]
IsCache(c) == c = [loaded |-> c.loaded, rows |-> c.rows]
Shaped ==
  /\ call = [w \in Workers |-> call[w]] /\ \A w \in Workers : IsCall(call[w])
  /\ cache = [w \in Workers |-> cache[w]] /\ \A w \in Workers : IsCache(cache[w])
  /\ flushed = [w \in Workers |-> flushed[w]]
  /\ demoted = [w \in Workers |-> demoted[w]]
  /\ phantom \in BOOLEAN

\* A session's view of the table is a history whose last row is the most
\* recent one; so is the table.
SessionAgrees(w) ==
  /\ Orderly(View(w)) /\ RecentView(w) = Latest(View(w))
  /\ flushed[w] \cap transitions = {}
  /\ \A r \in flushed[w] : r.by = w
  /\ demoted[w] \subseteq View(w)
  /\ flushed[w] = {} => demoted[w] = {}

ViewsAgree ==
  /\ Orderly(transitions) /\ recent = Latest(transitions)
  /\ \A w \in Workers : SessionAgrees(w)

\* The unique key keeps all but one transaction from writing.
OneWrites ==
  \A u, w \in Workers : u # w => flushed[u] = {} \/ flushed[w] = {}

\* A cache was a history; its rows are committed, or the session's own.
CacheWas(w, d) ==
  /\ d.loaded => Orderly(d.rows)
  /\ \A r \in d.rows : r.by = w \/ r \in transitions

\* A call goes by the history it has in its cache; while that is all there is,
\* the row it found most recent is the last one.
Decided(w, c, d) ==
  c.at \in {"guards", "before", "creating", "flushing"} =>
    /\ d.loaded /\ c.key = Cardinality(d.rows)
    /\ c.from = StateOf(w, d.rows) /\ c.to \in Successors(ClassOf[w], c.from)
    /\ c.at = "flushing" /\ d.rows = View(w) => c.prevs = Latest(d.rows)

CallsDecided ==
  \A w \in Workers : CacheWas(w, cache[w]) /\ Decided(w, call[w], cache[w])

MachineInv ==
  /\ Shaped
  /\ \/ phantom
     \/ ViewsAgree /\ OneWrites /\ CallsDecided

-----------------------------------------------------------------------------
(* Histories.                                                               *)

\* The last row of a history has the largest sort_key, and is the one the
\* machine takes its state from.
LEMMA LastRow ==
  ASSUME NEW S, Orderly(S), S # {}
  PROVE  \E r \in S : /\ Latest(S) = {r} /\ r.key + 1 = Cardinality(S)
                      /\ (CHOOSE q \in S : IsLast(q, S)) = r
<1>1. Cardinality(S) \in Nat /\ Cardinality(S) # 0
  BY FS_CardinalityType, FS_EmptySet DEF Orderly
<1>2. PICK n \in Nat : Cardinality(S) = n + 1
  BY <1>1
<1>3. PICK r \in S : r.key = n
  <2>1. SameKey(S, n)
    BY <1>2 DEF Orderly
  <2> QED
    BY <2>1 DEF SameKey
<1>4. \A q \in S : q.key \in 0..n
  BY <1>2 DEF Orderly, SameKey
<1>5. IsLast(r, S) /\ \A q \in S : IsLast(q, S) => q = r
  BY <1>3, <1>4 DEF IsLast, Orderly, IsWalk
<1>6. (CHOOSE q \in S : IsLast(q, S)) = r
  BY <1>5
<1> QED
  BY <1>2, <1>3, <1>5, <1>6 DEF Latest

\* A row with the next sort_key, decided in the state the history ends in,
\* makes a history.
LEMMA HistoryGrows ==
  ASSUME NEW S, Orderly(S), NEW w, NEW r, r.key = Cardinality(S), r.by = w,
         r.from = StateOf(w, S), r.to \in Successors(ClassOf[w], r.from)
  PROVE  /\ Orderly(S \cup {r}) /\ Latest(S \cup {r}) = {r} /\ r \notin S
<1> DEFINE n == Cardinality(S)
<1>1. n \in Nat
  BY FS_CardinalityType DEF Orderly
<1>2. \A q \in S : q.key \in 0..n /\ q.key # n
  BY <1>1 DEF Orderly, SameKey
<1>3. r \notin S
  BY <1>2
<1>4. IsFiniteSet(S \cup {r}) /\ Cardinality(S \cup {r}) = n + 1
  BY <1>3, FS_AddElement DEF Orderly
<1>5. \A q \in S \cup {r} : q.key \in 0..n
  BY <1>1, <1>2
<1>6. \A k \in 0..n : SameKey(S \cup {r}, k)
  <2>1. \A k \in 0..n : k # n => SameKey(S, k)
    BY DEF Orderly
  <2> QED
    BY <2>1 DEF SameKey
<1>7. ~SameKey(S \cup {r}, n + 1)
  BY <1>1, <1>5 DEF SameKey
<1>8. \A k \in 0..(n + 1) : SameKey(S \cup {r}, k) <=> k # n + 1
  <2>1. \A k \in 0..(n + 1) : k # n + 1 => k \in 0..n
    BY <1>1
  <2> QED
    BY <2>1, <1>1, <1>6, <1>7
<1>9. IsWalk(S \cup {r})
  <2>1. \A p, q \in S \cup {r} : p.key = q.key => p = q
    BY <1>2 DEF Orderly, IsWalk
  <2>2. ASSUME NEW q \in S
        PROVE  /\ q.to \in Successors(ClassOf[q.by], q.from)
               /\ IF q.key = 0 THEN q.from = InitialState(ClassOf[q.by])
                  ELSE \E p \in S \cup {r} : p.key + 1 = q.key /\ p.to = q.from
    BY DEF Orderly, IsWalk
  <2>3. IF r.key = 0 THEN r.from = InitialState(ClassOf[r.by])
        ELSE \E p \in S \cup {r} : p.key + 1 = r.key /\ p.to = r.from
    <3>1. CASE S = {}
      BY <3>1, FS_EmptySet DEF StateOf
    <3>2. CASE S # {}
      <4>1. PICK p \in S : p.key + 1 = n /\ (CHOOSE q \in S : IsLast(q, S)) = p
        BY <3>2, LastRow
      <4>2. r.from = p.to
        BY <3>2, <4>1 DEF StateOf
      <4>3. n # 0
        BY <3>2, FS_EmptySet DEF Orderly
      <4> QED
        BY <4>1, <4>2, <4>3
    <3> QED
      BY <3>1, <3>2
  <2> QED
    BY <2>1, <2>2, <2>3 DEF IsWalk
<1>10. Latest(S \cup {r}) = {r}
  BY <1>1, <1>2, <1>5 DEF Latest, IsLast
<1> QED
  BY <1>1, <1>3, <1>4, <1>5, <1>8, <1>9, <1>10 DEF Orderly

\* An old history that lacks nothing but the next sort_key is the view itself.
LEMMA OldHistory ==
  ASSUME NEW S, NEW V, Orderly(S), Orderly(V), S \subseteq V,
         ~SameKey(V, Cardinality(S))
  PROVE  S = V
<1>1. Cardinality(S) \in Nat /\ Cardinality(V) \in Nat
  BY FS_CardinalityType DEF Orderly
<1>2. Cardinality(S) <= Cardinality(V) /\ (Cardinality(V) = Cardinality(S) => V = S)
  BY FS_Subset DEF Orderly
<1>3. Cardinality(S) = Cardinality(V)
  BY <1>1, <1>2 DEF Orderly
<1> QED
  BY <1>2, <1>3

LEMMA NoHistory == Orderly({}) /\ Latest({}) = {}
BY FS_EmptySet DEF Orderly, IsWalk, SameKey, Latest

-----------------------------------------------------------------------------
(* The steps of the machine.                                                *)

LEMMA MachineStarts == MachineInit => MachineInv
<1> SUFFICES ASSUME MachineInit PROVE MachineInv
  OBVIOUS
<1>1. Shaped
  BY DEF MachineInit, Shaped, IsCall, IsCache, Idle, NoCache
<1>2. ViewsAgree
  BY NoHistory DEF MachineInit, ViewsAgree, SessionAgrees, View, RecentView
<1>3. OneWrites /\ CallsDecided
  BY DEF MachineInit, OneWrites, CallsDecided, CacheWas, Decided, NoCache, Idle
<1> QED
  BY <1>1, <1>2, <1>3 DEF MachineInv

\* A step gives the call of one worker another value, and its cache perhaps.
CallTo(w, c) ==
  /\ IsCall(c) /\ call'[w] = c
  /\ \A u \in Workers \ {w} : call'[u] = call[u]
CacheTo(w, d) ==
  /\ IsCache(d) /\ cache'[w] = d
  /\ \A u \in Workers \ {w} : cache'[u] = cache[u]

LEMMA CallChanges ==
  ASSUME Shaped, NEW w \in Workers, NEW c, IsCall(c), call' = [call EXCEPT ![w] = c]
  PROVE  CallTo(w, c) /\ call' = [u \in Workers |-> call'[u]]
                      /\ \A u \in Workers : IsCall(call'[u])
BY DEF Shaped, CallTo

LEMMA CacheChanges ==
  ASSUME Shaped, NEW w \in Workers, NEW d, IsCache(d), cache' = [cache EXCEPT ![w] = d]
  PROVE  CacheTo(w, d) /\ cache' = [u \in Workers |-> cache'[u]]
                       /\ \A u \in Workers : IsCache(cache'[u])
BY DEF Shaped, CacheTo

\* The call goes on, or is over.
LEMMA Moves ==
  ASSUME Shaped, NEW w \in Workers
  PROVE  /\ \A at : Goes(w, at) =>
              \E c : /\ IsCall(c) /\ call' = [call EXCEPT ![w] = c]
                     /\ c.at = at /\ c.key = call[w].key /\ c.from = call[w].from
                     /\ c.to = call[w].to /\ c.prevs = call[w].prevs
         /\ Ends(w) => call' = [call EXCEPT ![w] = Idle]
         /\ IsCall(Idle) /\ Idle.at = "idle" /\ IsCache(NoCache)
         /\ NoCache.rows = {} /\ ~NoCache.loaded
<1>1. ASSUME NEW at, Goes(w, at)
      PROVE  \E c : /\ IsCall(c) /\ call' = [call EXCEPT ![w] = c]
                    /\ c.at = at /\ c.key = call[w].key /\ c.from = call[w].from
                    /\ c.to = call[w].to /\ c.prevs = call[w].prevs
  <2>1. PICK c : c = [at |-> at, key |-> call[w].key, from |-> call[w].from,
                      to |-> call[w].to, prevs |-> call[w].prevs,
                      tries |-> call[w].tries]
    OBVIOUS
  <2>2. [call[w] EXCEPT !.at = at] = c
    <3>1. IsCall(call[w])
      BY DEF Shaped
    <3> QED
      BY <2>1, <3>1 DEF IsCall
  <2>3. call' = [call EXCEPT ![w] = c]
    BY <1>1, <2>2 DEF Goes
  <2>4. IsCall(c) /\ c.at = at /\ c.key = call[w].key /\ c.from = call[w].from
        /\ c.to = call[w].to /\ c.prevs = call[w].prevs
    BY <2>1 DEF IsCall
  <2> QED
    BY <2>3, <2>4
<1> QED
  BY <1>1 DEF Ends, Idle, IsCall, NoCache, IsCache

\* The tables stay as they are.
LEMMA CallSteps ==
  ASSUME MachineInv, NEW w \in Workers, NEW c, NEW d, IsCall(c), IsCache(d),
         call' = [call EXCEPT ![w] = c], cache' = [cache EXCEPT ![w] = d],
         UNCHANGED <<db, unsaved, phantom>>,
         phantom \/ (CacheWas(w, d) /\ Decided(w, c, d))
  PROVE  MachineInv'
<1>1. CallTo(w, c) /\ CacheTo(w, d) /\ Shaped'
  BY CallChanges, CacheChanges DEF MachineInv, Shaped, unsaved
<1>2. CASE ~phantom
  <2>1. UNCHANGED <<transitions, recent, flushed, demoted, phantom>>
    BY DEF db, unsaved
  <2>2. \A u \in Workers : View(u)' = View(u) /\ RecentView(u)' = RecentView(u)
    BY <2>1 DEF View, RecentView
  <2>3. ViewsAgree' /\ OneWrites'
    BY <1>2, <2>1, <2>2 DEF MachineInv, ViewsAgree, SessionAgrees, OneWrites
  <2>4. ASSUME NEW u \in Workers
        PROVE  CacheWas(u, cache[u])' /\ Decided(u, call[u], cache[u])'
    <3>1. PICK cu, du : /\ cu = call'[u] /\ du = cache'[u]
                        /\ CacheWas(u, du) /\ Decided(u, cu, du)
      <4>1. CASE u = w
        BY <1>1, <1>2, <4>1 DEF CallTo, CacheTo
      <4>2. CASE u # w
        BY <1>1, <1>2, <4>2 DEF CallTo, CacheTo, MachineInv, CallsDecided
      <4> QED
        BY <4>1, <4>2
    <3>2. CacheWas(u, du)' /\ Decided(u, cu, du)'
      BY <3>1, <2>1, <2>2 DEF CacheWas, Decided
    <3> QED
      BY <3>1, <3>2
  <2> QED
    BY <1>1, <2>3, <2>4 DEF MachineInv, CallsDecided
<1> QED
  BY <1>1, <1>2 DEF MachineInv, unsaved

\* The open transaction of w is rolled back; its cache is kept or dropped.
LEMMA RolledBack ==
  ASSUME MachineInv, NEW w \in Workers, NEW c, NEW d, IsCall(c), IsCache(d),
         call' = [call EXCEPT ![w] = c], cache' = [cache EXCEPT ![w] = d],
         flushed' = [flushed EXCEPT ![w] = {}],
         demoted' = [demoted EXCEPT ![w] = {}],
         UNCHANGED <<db, phantom>>, c.at \in {"idle", "called"},
         phantom \/ CacheWas(w, d)
  PROVE  MachineInv'
<1>1. CallTo(w, c) /\ CacheTo(w, d) /\ Shaped'
  BY CallChanges, CacheChanges DEF MachineInv, Shaped
<1>2. CASE ~phantom
  <2>1. /\ UNCHANGED <<transitions, recent>>
        /\ \A u \in Workers : flushed'[u] = IF u = w THEN {} ELSE flushed[u]
        /\ \A u \in Workers : demoted'[u] = IF u = w THEN {} ELSE demoted[u]
    BY DEF db, MachineInv, Shaped
  <2>2. View(w)' = transitions /\ RecentView(w)' = recent
    BY <2>1 DEF View, RecentView
  <2>3. \A u \in Workers \ {w} : View(u)' = View(u) /\ RecentView(u)' = RecentView(u)
    BY <2>1 DEF View, RecentView
  <2>4. ViewsAgree'
    <3>1. ASSUME NEW u \in Workers PROVE SessionAgrees(u)'
      BY <1>2, <2>1, <2>2, <2>3 DEF MachineInv, ViewsAgree, SessionAgrees
    <3> QED
      BY <1>2, <2>1, <3>1 DEF MachineInv, ViewsAgree, SessionAgrees
  <2>5. OneWrites'
    BY <1>2, <2>1 DEF MachineInv, OneWrites
  <2>6. ASSUME NEW u \in Workers
        PROVE  CacheWas(u, cache[u])' /\ Decided(u, call[u], cache[u])'
    <3>1. CASE u = w
      <4>1. CacheWas(w, d)' /\ Decided(w, c, d)'
        BY <1>2, <2>1 DEF CacheWas, Decided
      <4> QED
        BY <3>1, <4>1, <1>1 DEF CallTo, CacheTo
    <3>2. CASE u # w
      <4>1. PICK cu, du : /\ cu = call'[u] /\ du = cache'[u]
                          /\ CacheWas(u, du) /\ Decided(u, cu, du)
        BY <1>1, <1>2, <3>2 DEF CallTo, CacheTo, MachineInv, CallsDecided
      <4>2. CacheWas(u, du)' /\ Decided(u, cu, du)'
        BY <4>1, <2>1, <2>3, <3>2 DEF CacheWas, Decided
      <4> QED
        BY <4>1, <4>2
    <3> QED
      BY <3>1, <3>2
  <2> QED
    BY <1>1, <2>4, <2>5, <2>6 DEF MachineInv, CallsDecided
<1> QED
  BY <1>1, <1>2 DEF MachineInv

\* A transaction commits: no other is open, and a cache that lacks its rows
\* goes on lacking them.
LEMMA CommitStep ==
  ASSUME MachineInv, NEW w \in Workers, CommitCaller(w) PROVE MachineInv'
<1>1. Shaped'
  BY DEF MachineInv, Shaped, CommitCaller
<1>2. CASE ~phantom
  <2>1. /\ flushed[w] # {} /\ transitions' = View(w) /\ recent' = RecentView(w)
        /\ \A u \in Workers : flushed'[u] = IF u = w THEN {} ELSE flushed[u]
        /\ \A u \in Workers : demoted'[u] = IF u = w THEN {} ELSE demoted[u]
        /\ UNCHANGED <<cache, call>>
    BY DEF CommitCaller, InTransaction, View, RecentView, MachineInv, Shaped
  <2>2. \A u \in Workers : flushed'[u] = {} /\ demoted'[u] = {}
    BY <1>2, <2>1 DEF MachineInv, ViewsAgree, SessionAgrees, OneWrites
  <2>3. \A u \in Workers : View(u)' = transitions' /\ RecentView(u)' = recent'
    BY <2>2 DEF View, RecentView
  <2>4. ViewsAgree' /\ OneWrites'
    BY <1>2, <2>1, <2>2, <2>3 DEF MachineInv, ViewsAgree, SessionAgrees, OneWrites
  <2>5. ASSUME NEW u \in Workers
        PROVE  CacheWas(u, cache[u])' /\ Decided(u, call[u], cache[u])'
    <3>1. PICK c, d : /\ c = call[u] /\ d = cache[u] /\ c = call'[u] /\ d = cache'[u]
                      /\ CacheWas(u, d) /\ Decided(u, c, d)
      BY <1>2, <2>1 DEF MachineInv, CallsDecided
    <3>2. CacheWas(u, d)'
      BY <3>1, <2>1 DEF CacheWas, View
    <3>3. c.at = "flushing" => u # w
      BY <3>1 DEF CommitCaller
    <3>4. ASSUME u # w, d.rows = transitions' PROVE FALSE
      <4>1. PICK r \in flushed[w] : TRUE
        BY <2>1
      <4>2. r.by = w /\ r \notin transitions /\ r \in d.rows
        BY <4>1, <1>2, <2>1, <3>4 DEF MachineInv, ViewsAgree, SessionAgrees, View
      <4> QED
        BY <4>2, <3>1, <3>4 DEF CacheWas
    <3>5. Decided(u, c, d)'
      BY <3>1, <3>3, <3>4, <2>3 DEF Decided
    <3> QED
      BY <3>1, <3>2, <3>5
  <2> QED
    BY <1>1, <2>4, <2>5 DEF MachineInv, CallsDecided
<1> QED
  BY <1>1, <1>2 DEF MachineInv, CommitCaller

\* A row is written only by a session whose cache is all there is, and while
\* no other transaction is open; or by a machine that survived a rollback.
LEMMA CreateStep ==
  ASSUME UniqueKeys, MachineInv, NEW w \in Workers, CreateTransition(w)
  PROVE  MachineInv'
<1> DEFINE S == cache[w].rows
           r == Record(w)
<1>1. PICK c : /\ IsCall(c) /\ call' = [call EXCEPT ![w] = c] /\ c.at = "after"
  BY Moves DEF MachineInv, CreateTransition
<1>2. CallTo(w, c) /\ CacheTo(w, NoCache) /\ Shaped'
  <2>1. cache' = [cache EXCEPT ![w] = NoCache] /\ IsCache(NoCache)
    BY Moves DEF CreateTransition, MachineInv
  <2>2. CallTo(w, c) /\ CacheTo(w, NoCache)
    BY <1>1, <2>1, CallChanges, CacheChanges DEF MachineInv
  <2>3. phantom' \in BOOLEAN
    BY DEF CreateTransition, MachineInv, Shaped, Ghost
  <2> QED
    BY <1>1, <2>1, <2>2, <2>3, CallChanges, CacheChanges
       DEF MachineInv, Shaped, CreateTransition
<1>3. CASE ~phantom'
  <2>1. ~phantom /\ ~Ghost(w)
    BY <1>3 DEF CreateTransition
  <2>2. /\ UNCHANGED <<transitions, recent>>
        /\ \A u \in Workers : flushed'[u] = IF u = w THEN flushed[w] \cup {r} ELSE flushed[u]
        /\ \A u \in Workers : demoted'[u] = IF u = w THEN demoted[w] \cup call[w].prevs
                                            ELSE demoted[u]
    BY DEF CreateTransition, db, MachineInv, Shaped
  <2>3. /\ call[w].at = "flushing" /\ ~SameKey(View(w), call[w].key)
        /\ \A u \in Workers \ {w} : ~SameKey(flushed[u], call[w].key)
    BY DEF CreateTransition, Conflict, Waits
  <2>4. Orderly(S) /\ call[w].key = Cardinality(S) /\ S \subseteq View(w)
    BY <2>1, <2>3 DEF MachineInv, CallsDecided, CacheWas, Decided, Ghost
  <2>5. S = View(w)
    BY <2>1, <2>3, <2>4, OldHistory DEF MachineInv, ViewsAgree, SessionAgrees
  <2>6. /\ r.key = Cardinality(S) /\ r.by = w /\ r.from = StateOf(w, S)
        /\ r.to \in Successors(ClassOf[w], r.from) /\ call[w].prevs = Latest(S)
    BY <2>1, <2>3, <2>5 DEF MachineInv, CallsDecided, Decided, Record
  <2>7. Orderly(S \cup {r}) /\ Latest(S \cup {r}) = {r} /\ r \notin S
    BY <2>4, <2>6, HistoryGrows
  <2>8. View(w)' = S \cup {r} /\ \A u \in Workers \ {w} : View(u)' = View(u)
    BY <2>2, <2>5 DEF View
  <2>9. RecentView(w)' = {r} /\ \A u \in Workers \ {w} : RecentView(u)' = RecentView(u)
    <3>1. r \notin demoted[w] /\ r \notin call[w].prevs
      BY <2>1, <2>5, <2>6, <2>7 DEF MachineInv, ViewsAgree, SessionAgrees, Latest
    <3>2. RecentView(w) = call[w].prevs
      BY <2>1, <2>5, <2>6 DEF MachineInv, ViewsAgree, SessionAgrees
    <3> QED
      BY <2>2, <3>1, <3>2 DEF RecentView
  <2>10. \A u \in Workers \ {w} : flushed[u] = {}
    <3> SUFFICES ASSUME NEW u \in Workers \ {w}, flushed[u] # {} PROVE FALSE
      OBVIOUS
    <3>1. S = transitions
      BY <2>1, <2>5 DEF MachineInv, OneWrites, View
    <3>2. transitions \subseteq View(u) /\ View(u) # transitions
      BY <2>1 DEF MachineInv, ViewsAgree, SessionAgrees, View
    <3>3. SameKey(View(u), Cardinality(S))
      BY <2>1, <2>4, <3>1, <3>2, OldHistory DEF MachineInv, ViewsAgree, SessionAgrees
    <3>4. ~SameKey(transitions, Cardinality(S))
      BY <2>3, <2>4, <2>5, <3>1
    <3> QED
      BY <2>3, <2>4, <3>3, <3>4 DEF SameKey, View
  <2>11. ViewsAgree'
    <3>1. Latest(S) \subseteq S
      BY DEF Latest
    <3>2. \A q \in flushed[w] \cup {r} : q.by = w /\ q \notin transitions
      BY <2>1, <2>5, <2>6, <2>7 DEF MachineInv, ViewsAgree, SessionAgrees, View
    <3>3. demoted'[w] \subseteq View(w)'
      BY <2>1, <2>2, <2>5, <2>6, <2>8, <3>1 DEF MachineInv, ViewsAgree, SessionAgrees
    <3>4. SessionAgrees(w)'
      BY <2>2, <2>7, <2>8, <2>9, <3>2, <3>3 DEF SessionAgrees
    <3>5. ASSUME NEW u \in Workers \ {w} PROVE SessionAgrees(u)'
      BY <2>1, <2>2, <2>8, <2>9 DEF MachineInv, ViewsAgree, SessionAgrees
    <3> QED
      BY <2>1, <2>2, <3>4, <3>5 DEF MachineInv, ViewsAgree, SessionAgrees
  <2>12. OneWrites'
    BY <2>2, <2>10 DEF OneWrites
  <2>13. ASSUME NEW u \in Workers
         PROVE  CacheWas(u, cache[u])' /\ Decided(u, call[u], cache[u])'
    <3>1. CASE u = w
      BY <1>1, <1>2, <3>1, Moves DEF MachineInv, CallTo, CacheTo, CacheWas, Decided
    <3>2. CASE u # w
      <4>1. PICK cu, du : /\ cu = call'[u] /\ du = cache'[u]
                          /\ CacheWas(u, du) /\ Decided(u, cu, du)
        BY <1>2, <2>1, <3>2 DEF CallTo, CacheTo, MachineInv, CallsDecided
      <4>2. CacheWas(u, du)' /\ Decided(u, cu, du)'
        BY <4>1, <2>2, <2>8, <3>2 DEF CacheWas, Decided
      <4> QED
        BY <4>1, <4>2
    <3> QED
      BY <3>1, <3>2
  <2> QED
    BY <1>2, <2>11, <2>12, <2>13 DEF MachineInv, CallsDecided
<1> QED
  BY <1>2, <1>3 DEF MachineInv

\* A failed flush, a rollback by the caller, and a worker that leaves.
LEMMA UndoSteps ==
  ASSUME MachineInv, NEW w \in Workers,
         FlushConflicts(w) \/ RollbackCaller(w) \/ Leave(w)
  PROVE  MachineInv'
<1>1. /\ flushed' = [flushed EXCEPT ![w] = {}]
      /\ demoted' = [demoted EXCEPT ![w] = {}]
      /\ UNCHANGED <<db, phantom>>
  BY DEF FlushConflicts, RollbackCaller, Leave
<1>2. IsCache(cache[w]) /\ IsCall(call[w])
      /\ cache = [cache EXCEPT ![w] = cache[w]] /\ call = [call EXCEPT ![w] = call[w]]
  BY DEF MachineInv, Shaped
<1>3. phantom \/ CacheWas(w, cache[w])
  BY DEF MachineInv, CallsDecided
<1>4. CASE FlushConflicts(w)
  <2>1. PICK c : /\ IsCall(c) /\ c.at \in {"idle", "called"}
                 /\ call' = [call EXCEPT ![w] = c]
    <3>1. CASE call' = [call EXCEPT ![w] = Idle]
      BY <3>1, Moves DEF MachineInv
    <3>2. CASE call' # [call EXCEPT ![w] = Idle]
      <4>1. PICK c : c = [Idle EXCEPT !.at = "called", !.to = call[w].to,
                                      !.tries = call[w].tries + 1]
        OBVIOUS
      <4>2. call' = [call EXCEPT ![w] = c]
        BY <1>4, <3>2, <4>1 DEF FlushConflicts, Retry, MachineInv, Shaped
      <4>3. IsCall(c) /\ c.at = "called"
        BY <4>1 DEF Idle, IsCall
      <4> QED
        BY <4>2, <4>3
    <3> QED
      BY <3>1, <3>2
  <2>2. cache' = [cache EXCEPT ![w] = cache[w]]
    BY <1>2, <1>4 DEF FlushConflicts
  <2> QED
    BY <1>1, <1>2, <1>3, <2>1, <2>2, RolledBack
<1>5. CASE RollbackCaller(w)
  <2>1. cache' = [cache EXCEPT ![w] = cache[w]] /\ call' = [call EXCEPT ![w] = call[w]]
        /\ call[w].at = "idle"
    BY <1>2, <1>5 DEF RollbackCaller
  <2> QED
    BY <1>1, <1>2, <1>3, <2>1, RolledBack
<1>6. CASE Leave(w)
  <2>1. cache' = [cache EXCEPT ![w] = NoCache] /\ call' = [call EXCEPT ![w] = Idle]
    BY <1>6, Moves DEF Leave, MachineInv
  <2>2. CacheWas(w, NoCache) /\ IsCall(Idle) /\ Idle.at = "idle" /\ IsCache(NoCache)
    BY Moves DEF CacheWas, MachineInv
  <2> QED
    BY <1>1, <2>1, <2>2, RolledBack
<1> QED
  BY <1>4, <1>5, <1>6

\* What a session reads is a history, with its own rows and committed ones.
LEMMA ReadIsHistory ==
  ASSUME MachineInv, NEW w \in Workers, NEW S \in {View(w), History(w)}
  PROVE  phantom \/ CacheWas(w, Cached(S))
<1>1. Cached(S).loaded /\ Cached(S).rows = S
  BY DEF Cached
<1>2. CASE S = View(w)
  BY <1>1, <1>2
     DEF MachineInv, ViewsAgree, SessionAgrees, CallsDecided, CacheWas, View
<1>3. CASE S # View(w)
  BY <1>1, <1>3 DEF MachineInv, CallsDecided, CacheWas, History
<1> QED
  BY <1>2, <1>3

\* A call that reads, asks or ends.
LEMMA ReadSteps ==
  ASSUME MachineInv, NEW w \in Workers,
         \/ \E s \in States \ {""} : Call(w, s)
         \/ Decide(w) \/ GuardFails(w) \/ GuardsPass(w) \/ BeforeRaises(w)
         \/ BeforeRuns(w) \/ SelectPrevious(w) \/ After(w)
         \/ \E force \in BOOLEAN : Reload(w, force)
  PROVE  MachineInv'
<1>1. UNCHANGED <<db, unsaved, phantom>>
  BY DEF Call, Decide, GuardFails, GuardsPass, BeforeRaises, BeforeRuns,
         SelectPrevious, After, Reload
<1>2. IsCache(cache[w]) /\ IsCall(call[w])
      /\ cache = [cache EXCEPT ![w] = cache[w]] /\ call = [call EXCEPT ![w] = call[w]]
  BY DEF MachineInv, Shaped
<1>3. phantom \/ (CacheWas(w, cache[w]) /\ Decided(w, call[w], cache[w]))
  BY DEF MachineInv, CallsDecided
<1>4. ASSUME NEW c, IsCall(c), call' = [call EXCEPT ![w] = c], cache' = cache,
             phantom \/ Decided(w, c, cache[w])
      PROVE  MachineInv'
  BY <1>1, <1>2, <1>3, <1>4, CallSteps
<1>5. ASSUME call' = [call EXCEPT ![w] = Idle], cache' = cache
      PROVE  MachineInv'
  BY <1>4, <1>5, Moves DEF Decided, MachineInv
<1>6. ASSUME NEW s, Call(w, s) PROVE MachineInv'
  <2>1. PICK c : c = [call[w] EXCEPT !.at = "called", !.to = s]
    OBVIOUS
  <2>2. IsCall(c) /\ c.at = "called" /\ call' = [call EXCEPT ![w] = c]
    BY <1>2, <1>6, <2>1 DEF Call, IsCall
  <2> QED
    BY <2>2, <1>4, <1>6 DEF Call, Decided
<1>7. CASE GuardsPass(w) \/ BeforeRuns(w)
  <2>1. PICK at \in {"before", "creating"} : Goes(w, at)
    BY <1>7 DEF GuardsPass, BeforeRuns
  <2>2. PICK c : /\ IsCall(c) /\ call' = [call EXCEPT ![w] = c]
                 /\ c.at = at /\ c.key = call[w].key /\ c.from = call[w].from
                 /\ c.to = call[w].to /\ c.prevs = call[w].prevs
    BY <2>1, Moves DEF MachineInv
  <2>3. phantom \/ Decided(w, c, cache[w])
    BY <1>3, <1>7, <2>2 DEF GuardsPass, BeforeRuns, Decided
  <2> QED
    BY <1>4, <1>7, <2>2, <2>3 DEF GuardsPass, BeforeRuns
<1>8. CASE SelectPrevious(w)
  <2>1. PICK c : c = [call[w] EXCEPT !.at = "flushing", !.prevs = RecentView(w)]
    OBVIOUS
  <2>2. /\ IsCall(c) /\ call' = [call EXCEPT ![w] = c]
        /\ c.at = "flushing" /\ c.key = call[w].key /\ c.from = call[w].from
        /\ c.to = call[w].to /\ c.prevs = RecentView(w)
    BY <1>2, <1>8, <2>1 DEF SelectPrevious, IsCall
  <2>3. phantom \/ RecentView(w) = Latest(View(w))
    BY DEF MachineInv, ViewsAgree, SessionAgrees
  <2>4. phantom \/ Decided(w, c, cache[w])
    BY <1>3, <1>8, <2>2, <2>3 DEF SelectPrevious, Decided
  <2> QED
    BY <1>4, <1>8, <2>2, <2>4 DEF SelectPrevious
<1>9. CASE Decide(w)
  <2>1. PICK h : h = History(w)
    OBVIOUS
  <2>2. cache' = [cache EXCEPT ![w] = Cached(h)] /\ IsCache(Cached(h))
        /\ Cached(h).loaded /\ Cached(h).rows = h
    BY <1>9, <2>1 DEF Decide, Cached, IsCache
  <2>3. PICK c : /\ IsCall(c) /\ call' = [call EXCEPT ![w] = c]
                 /\ Decided(w, c, Cached(h))
    <3>1. CASE call' = [call EXCEPT ![w] = Idle]
      BY <3>1, Moves DEF MachineInv, Decided
    <3>2. CASE call' # [call EXCEPT ![w] = Idle]
      <4>1. PICK c : c = [call[w] EXCEPT !.at = "guards", !.key = NextSortKey(h),
                                         !.from = StateOf(w, h)]
        OBVIOUS
      <4>2. /\ call' = [call EXCEPT ![w] = c]
            /\ call[w].to \in Successors(ClassOf[w], StateOf(w, h))
        BY <1>9, <2>1, <3>2, <4>1 DEF Decide, MachineInv, Shaped
      <4>3. /\ IsCall(c) /\ c.at = "guards" /\ c.key = Cardinality(h)
            /\ c.from = StateOf(w, h) /\ c.to = call[w].to
        BY <1>2, <4>1 DEF IsCall, NextSortKey
      <4>4. Decided(w, c, Cached(h))
        BY <2>2, <4>2, <4>3 DEF Decided
      <4> QED
        BY <4>2, <4>3, <4>4
    <3> QED
      BY <3>1, <3>2
  <2>4. phantom \/ CacheWas(w, Cached(h))
    BY <2>1, ReadIsHistory
  <2> QED
    BY <1>1, <2>2, <2>3, <2>4, CallSteps
<1>10. ASSUME NEW force \in BOOLEAN, Reload(w, force) PROVE MachineInv'
  <2>1. PICK S \in {View(w), History(w)} : cache' = [cache EXCEPT ![w] = Cached(S)]
    BY <1>10 DEF Reload
  <2>2. IsCache(Cached(S)) /\ call' = [call EXCEPT ![w] = call[w]]
        /\ call[w].at = "idle"
    BY <1>2, <1>10 DEF Reload, Cached, IsCache
  <2>3. Decided(w, call[w], Cached(S))
    BY <2>2 DEF Decided
  <2>4. phantom \/ CacheWas(w, Cached(S))
    BY ReadIsHistory
  <2> QED
    BY <1>1, <1>2, <2>1, <2>2, <2>3, <2>4, CallSteps
<1>11. CASE GuardFails(w) \/ BeforeRaises(w) \/ After(w)
  BY <1>5, <1>11, Moves DEF GuardFails, BeforeRaises, After, MachineInv
<1> QED
  BY <1>6, <1>7, <1>8, <1>9, <1>10, <1>11

LEMMA MachineKeeps ==
  ASSUME UniqueKeys, MachineInv, MachineNext \/ UNCHANGED machine
  PROVE  MachineInv'
<1>1. CASE MachineNext
  BY <1>1, ReadSteps, UndoSteps, CreateStep, CommitStep DEF MachineNext, Runs
<1>2. CASE UNCHANGED machine
  BY <1>2 DEF machine, db, unsaved, MachineInv, Shaped, ViewsAgree, SessionAgrees,
     OneWrites, CallsDecided, CacheWas, Decided, View, RecentView
<1> QED
  BY <1>1, <1>2

\* The machine takes a step of its own in a step of the application, or none.
LEMMA MachineInApplication ==
  /\ Init => MachineInit
  /\ [Next]_vars => MachineNext \/ UNCHANGED machine
BY DEF Init, Next, InMachine, vars

\* Whatever two sessions interleave, each sees a history of the machine whose
\* last row is the most recent one.
THEOREM MachineInvariant ==
  ASSUME UniqueKeys PROVE Spec => []MachineInv
<1>1. Init => MachineInv
  BY MachineInApplication, MachineStarts
<1>2. MachineInv /\ [Next]_vars => MachineInv'
  BY MachineInApplication, MachineKeeps
<1> QED
  BY <1>1, <1>2, PTL DEF Spec

\* Under the unique sort_key the state a transition was decided in is the
\* state it is written in.
THEOREM HistoriesAreWalks ==
  ASSUME UniqueKeys PROVE Spec => []HistoryIsAWalk
<1>1. MachineInv => HistoryIsAWalk
  BY DEF MachineInv, ViewsAgree, SessionAgrees, Orderly, HistoryIsAWalk
<1> QED
  BY <1>1, MachineInvariant, PTL

\* The last transition has most_recent set, and no other.
THEOREM LastIsMostRecent ==
  ASSUME UniqueKeys PROVE Spec => []OneMostRecent
<1>1. MachineInv => OneMostRecent
  BY DEF MachineInv, ViewsAgree, Latest, OneMostRecent
<1> QED
  BY <1>1, MachineInvariant, PTL

-----------------------------------------------------------------------------
(* Repositories.                                                            *)

Written == [Ids -> Values \cup {Gone, Kept}]
IdentityMap == [Ids -> Instance \cup {Kept}]

\* What was promised of a row is what the next flush leaves there.
Keeps(p, w, in) == \A i \in Ids : p[i] # Kept => Flushed(w, in)[i] = p[i]

SessionKeeps(s) ==
  /\ Keeps(promised[s], writes[s], instance[s])
  /\ blocks[s] = <<>> => promised[s] = Nothing

RepositoriesInv ==
  /\ RepositoriesTypeOK /\ misled = {}
  /\ \A s \in Sessions : SessionKeeps(s)

LEMMA NothingType == Nothing \in Written /\ Nothing \in IdentityMap /\ \A i \in Ids : Nothing[i] = Kept
BY DEF Nothing, Written, IdentityMap

LEMMA RepositoriesStart == RepositoriesInit => RepositoriesInv
<1> SUFFICES ASSUME RepositoriesInit PROVE RepositoriesInv
  OBVIOUS
<1>1. RepositoriesTypeOK /\ misled = {}
  BY NothingType DEF RepositoriesInit, RepositoriesTypeOK, Written, IdentityMap
<1>2. ASSUME NEW s \in Sessions PROVE SessionKeeps(s)
  <2>1. promised[s] = Nothing
    BY DEF RepositoriesInit
  <2> QED
    BY <2>1, NothingType DEF SessionKeeps, Keeps
<1> QED
  BY <1>1, <1>2 DEF RepositoriesInv

\* What a flush leaves in a row: the instance's value if it changed.
LEMMA FlushedAt ==
  ASSUME NEW w, NEW in, NEW i \in Ids
  PROVE  Flushed(w, in)[i] =
           IF in[i] # Kept /\ in[i].value # in[i].loaded THEN in[i].value ELSE w[i]
BY DEF Flushed, Changed

\* A flush writes what changed; after it nothing has.
LEMMA FlushedIs ==
  ASSUME NEW w \in Written, NEW in \in IdentityMap
  PROVE  /\ Flushed(w, in) \in Written /\ Clean(in) \in IdentityMap
         /\ \A x \in Written : \A i \in Ids : Flushed(x, Clean(in))[i] = x[i]
<1>1. /\ Flushed(w, in) = [i \in Ids |-> IF i \in Changed(in) THEN in[i].value ELSE w[i]]
      /\ \A i \in Ids : i \in Changed(in) <=> in[i] # Kept /\ in[i].value # in[i].loaded
      /\ \A i \in Ids : in[i] = Kept \/ in[i].value \in Values
  BY DEF Flushed, Changed, IdentityMap, Instance
<1>2. Flushed(w, in) \in Written
  BY <1>1 DEF Written, Changed
<1>3. ASSUME NEW i \in Ids
      PROVE  /\ Clean(in)[i] \in Instance \cup {Kept}
             /\ Clean(in)[i] = Kept \/ Clean(in)[i].value = Clean(in)[i].loaded
  BY <1>1 DEF Clean, Fresh, Instance
<1>4. Clean(in) \in IdentityMap
  BY <1>3 DEF Clean, IdentityMap
<1>5. ASSUME NEW x \in Written, NEW i \in Ids PROVE Flushed(x, Clean(in))[i] = x[i]
  BY <1>3 DEF Flushed, Changed
<1> QED
  BY <1>1, <1>2, <1>4, <1>5

\* A session goes on with the writes w, the instances in and the promises p.
LEMMA SessionGoesOn ==
  ASSUME RepositoriesInv, NEW s \in Sessions,
         NEW w \in Written, NEW in \in IdentityMap, NEW p \in Written,
         writes' = [writes EXCEPT ![s] = w], instance' = [instance EXCEPT ![s] = in],
         promised' = [promised EXCEPT ![s] = p],
         table' \in [Ids -> Values \cup {Gone}], misled' = {},
         begun' \in [Sessions -> BOOLEAN], broken' \in [Sessions -> BOOLEAN],
         blocks' \in [Sessions -> Seq(BOOLEAN)],
         \A u \in Sessions \ {s} : blocks'[u] = blocks[u],
         Keeps(p, w, in), blocks'[s] = <<>> => p = Nothing
  PROVE  RepositoriesInv'
<1>1. RepositoriesTypeOK'
  BY DEF RepositoriesInv, RepositoriesTypeOK, Written, IdentityMap
<1>2. SessionKeeps(s)'
  <2>1. promised'[s] = p /\ writes'[s] = w /\ instance'[s] = in
    BY DEF RepositoriesInv, RepositoriesTypeOK
  <2> QED
    BY <2>1 DEF SessionKeeps, Keeps, Flushed, Changed, Nothing
<1>3. ASSUME NEW u \in Sessions \ {s} PROVE SessionKeeps(u)'
  <2>1. promised'[u] = promised[u] /\ writes'[u] = writes[u] /\ instance'[u] = instance[u]
        /\ blocks'[u] = blocks[u] /\ SessionKeeps(u)
    BY DEF RepositoriesInv, RepositoriesTypeOK
  <2> QED
    BY <2>1 DEF SessionKeeps, Keeps, Flushed, Changed, Nothing
<1> QED
  BY <1>1, <1>2, <1>3 DEF RepositoriesInv

\* What a session has, by its types.
LEMMA SessionHas ==
  ASSUME RepositoriesInv, NEW s \in Sessions
  PROVE  /\ writes[s] \in Written /\ instance[s] \in IdentityMap /\ promised[s] \in Written
         /\ \A i \in Ids : /\ Row(s, i) = IF writes[s][i] = Kept THEN table[i] ELSE writes[s][i]
                           /\ Row(s, i) \in Values \cup {Gone}
                           /\ Found(s, i) \in Instance \cup {Kept}
         /\ Keeps(promised[s], writes[s], instance[s])
         /\ blocks[s] = <<>> => promised[s] = Nothing
<1>1. writes[s] \in Written /\ instance[s] \in IdentityMap /\ promised[s] \in Written
      /\ table \in [Ids -> Values \cup {Gone}] /\ SessionKeeps(s)
  BY DEF RepositoriesInv, RepositoriesTypeOK, Written, IdentityMap
<1>2. ASSUME NEW i \in Ids
      PROVE  /\ Row(s, i) = IF writes[s][i] = Kept THEN table[i] ELSE writes[s][i]
             /\ Row(s, i) \in Values \cup {Gone}
  BY <1>1 DEF Row, Rows, Over, Written
<1>3. ASSUME NEW i \in Ids PROVE Found(s, i) \in Instance \cup {Kept}
  BY <1>1, <1>2 DEF Found, Holds, IdentityMap, Fresh, Instance
<1> QED
  BY <1>1, <1>2, <1>3 DEF SessionKeeps

\* A call that fails takes its promises back.
LEMMA FailsKeeps ==
  ASSUME RepositoriesInv, NEW s \in Sessions, Calls(s), Fails(s)
  PROVE  RepositoriesInv'
<1>1. Keeps(Nothing, Nothing, Nothing)
  BY NothingType DEF Keeps
<1>2. /\ table' \in [Ids -> Values \cup {Gone}] /\ misled' = {}
      /\ begun' \in [Sessions -> BOOLEAN] /\ broken' \in [Sessions -> BOOLEAN]
      /\ blocks' = blocks /\ blocks \in [Sessions -> Seq(BOOLEAN)]
      /\ writes' = [writes EXCEPT ![s] = Nothing] /\ instance' = [instance EXCEPT ![s] = Nothing]
      /\ promised' = [promised EXCEPT ![s] = Nothing]
  BY DEF Calls, Fails, RepositoriesInv, RepositoriesTypeOK
<1> QED
  BY <1>1, <1>2, NothingType, SessionGoesOn

\* A call that flushes, with promises the flush leaves true.
LEMMA FlushKeeps ==
  ASSUME RepositoriesInv, NEW s \in Sessions,
         NEW w \in Written, NEW in \in IdentityMap, NEW p \in Written,
         Calls(s), Flush(s, w, in), promised' = [promised EXCEPT ![s] = p],
         UNCHANGED <<broken, blocks, misled>>,
         Keeps(p, w, in), blocks[s] = <<>> => p = Nothing
  PROVE  RepositoriesInv'
<1>1. PICK g, c : g = Flushed(w, in) /\ c = Clean(in)
  OBVIOUS
<1>2. /\ g \in Written /\ c \in IdentityMap /\ \A i \in Ids : Flushed(g, c)[i] = g[i]
  BY <1>1, FlushedIs
<1>3. /\ writes' = [writes EXCEPT ![s] = g] /\ instance' = [instance EXCEPT ![s] = c]
      /\ table' \in [Ids -> Values \cup {Gone}]
  BY <1>1 DEF Flush, RepositoriesInv, RepositoriesTypeOK
<1>4. Keeps(p, g, c)
  BY <1>1, <1>2 DEF Keeps
<1>5. /\ begun' \in [Sessions -> BOOLEAN] /\ broken' \in [Sessions -> BOOLEAN]
      /\ blocks' = blocks /\ blocks \in [Sessions -> Seq(BOOLEAN)] /\ misled' = {}
  BY DEF Calls, RepositoriesInv, RepositoriesTypeOK
<1> QED
  BY <1>2, <1>3, <1>4, <1>5, SessionGoesOn

\* A call that changes one row or instance, flushes, and says what the row
\* then holds.
LEMMA FlushSays ==
  ASSUME RepositoriesInv, NEW s \in Sessions, NEW i \in Ids,
         NEW w \in Written, NEW in \in IdentityMap,
         \A j \in Ids \ {i} : w[j] = writes[s][j] /\ in[j] = instance[s][j],
         NEW v \in Values \cup {Gone}, NEW excused,
         Calls(s), Flush(s, w, in), Says(s, i, v, excused),
         excused \/ Over(table, Flushed(w, in))[i] = v
  PROVE  RepositoriesInv'
<1>1. PICK g \in Written : g = Flushed(w, in)
  BY FlushedIs
<1>2. writes'[s] = g /\ table' = table /\ table \in [Ids -> Values \cup {Gone}]
  BY <1>1 DEF Flush, RepositoriesInv, RepositoriesTypeOK
<1>3. PICK x : x = IF blocks[s] # <<>> /\ ~excused /\ g[i] # Kept THEN v ELSE Kept
  OBVIOUS
<1>4. PICK p : p = [promised[s] EXCEPT ![i] = x]
  OBVIOUS
<1>5. promised' = [promised EXCEPT ![s] = p]
  BY <1>2, <1>3, <1>4 DEF Says
<1>6. p \in Written /\ p[i] = x /\ \A j \in Ids \ {i} : p[j] = promised[s][j]
  BY <1>3, <1>4, SessionHas DEF Written
<1>7. UNCHANGED <<broken, blocks, misled>>
  <2>1. Row(s, i)' = Over(table, g)[i]
    BY <1>2 DEF Row, Rows, Over
  <2>2. excused \/ Row(s, i)' = v
    BY <1>1, <2>1
  <2> QED
    BY <2>2 DEF Says
<1>8. ASSUME NEW j \in Ids, p[j] # Kept PROVE g[j] = p[j]
  <2>1. CASE j = i
    <3>1. Over(table, g)[i] = IF g[i] = Kept THEN table[i] ELSE g[i]
      BY DEF Over
    <3> QED
      BY <1>1, <1>3, <1>6, <1>8, <2>1, <3>1
  <2>2. CASE j # i
    <3>1. promised[s][j] # Kept /\ w[j] = writes[s][j] /\ in[j] = instance[s][j]
      BY <1>6, <1>8, <2>2
    <3>2. Flushed(writes[s], instance[s])[j] = promised[s][j]
      BY <3>1, SessionHas DEF Keeps
    <3>3. Flushed(writes[s], instance[s])[j] =
            IF instance[s][j] # Kept /\ instance[s][j].value # instance[s][j].loaded
            THEN instance[s][j].value ELSE writes[s][j]
      BY FlushedAt
    <3>4. Flushed(w, in)[j] = IF in[j] # Kept /\ in[j].value # in[j].loaded
                              THEN in[j].value ELSE w[j]
      BY FlushedAt
    <3> QED
      BY <1>1, <1>6, <2>2, <3>1, <3>2, <3>3, <3>4
  <2> QED
    BY <2>1, <2>2
<1>9. blocks[s] = <<>> => p = Nothing
  <2>1. blocks[s] = <<>> => x = Kept /\ promised[s] = Nothing
    BY <1>3, SessionHas
  <2> QED
    BY <1>4, <2>1 DEF Nothing
<1> QED
  BY <1>1, <1>5, <1>6, <1>7, <1>8, <1>9, FlushKeeps DEF Keeps

\* A call that flushes nothing: row i keeps what a flush leaves it, or the call
\* takes back what was said of it.
LEMMA CallKeeps ==
  ASSUME RepositoriesInv, NEW s \in Sessions, NEW i \in Ids, Calls(s),
         NEW in \in IdentityMap, instance' = [instance EXCEPT ![s] = in],
         \A j \in Ids \ {i} : in[j] = instance[s][j],
         UNCHANGED <<table, writes, broken, blocks, misled>>,
         NEW x \in Values \cup {Gone, Kept}, promised' = [promised EXCEPT ![s][i] = x],
         x # Kept => Flushed(writes[s], in)[i] = x /\ blocks[s] # <<>>
  PROVE  RepositoriesInv'
<1>1. PICK p : p = [promised[s] EXCEPT ![i] = x]
  OBVIOUS
<1>2. p \in Written /\ p[i] = x /\ \A j \in Ids \ {i} : p[j] = promised[s][j]
  BY <1>1, SessionHas DEF Written
<1>3. promised' = [promised EXCEPT ![s] = p] /\ writes[s] \in Written
  BY <1>1, SessionHas
<1>4. writes' = [writes EXCEPT ![s] = writes[s]]
  BY DEF RepositoriesInv, RepositoriesTypeOK
<1>5. Keeps(p, writes[s], in)
  <2>1. ASSUME NEW j \in Ids, j # i, p[j] # Kept
        PROVE  Flushed(writes[s], in)[j] = p[j]
    <3>1. /\ Flushed(writes[s], instance[s])[j] = promised[s][j]
          /\ in[j] = instance[s][j] /\ p[j] = promised[s][j]
      BY <1>2, <2>1, SessionHas DEF Keeps
    <3>2. Flushed(writes[s], instance[s])[j] =
            IF instance[s][j] # Kept /\ instance[s][j].value # instance[s][j].loaded
            THEN instance[s][j].value ELSE writes[s][j]
      BY FlushedAt
    <3>3. Flushed(writes[s], in)[j] = IF in[j] # Kept /\ in[j].value # in[j].loaded
                                      THEN in[j].value ELSE writes[s][j]
      BY FlushedAt
    <3> QED
      BY <3>1, <3>2, <3>3
  <2> QED
    BY <1>2, <2>1 DEF Keeps
<1>6. blocks[s] = <<>> => p = Nothing
  <2>1. blocks[s] = <<>> => x = Kept /\ promised[s] = Nothing
    BY SessionHas
  <2> QED
    BY <1>1, <2>1 DEF Nothing
<1>7. /\ begun' \in [Sessions -> BOOLEAN] /\ broken' \in [Sessions -> BOOLEAN]
      /\ blocks' = blocks /\ blocks \in [Sessions -> Seq(BOOLEAN)]
      /\ table' \in [Ids -> Values \cup {Gone}] /\ misled' = {}
  BY DEF Calls, RepositoriesInv, RepositoriesTypeOK
<1> QED
  BY <1>2, <1>3, <1>4, <1>5, <1>6, <1>7, SessionGoesOn

LEMMA CreateKeeps ==
  ASSUME RepositoriesInv, NEW s \in Sessions, NEW i \in Ids, NEW v \in Values,
         Create(s, i, v)
  PROVE  RepositoriesInv'
<1>1. CASE Fails(s)
  BY <1>1, FailsKeeps DEF Create
<1>2. CASE ~Fails(s)
  <2>1. PICK w, in : /\ w = [writes[s] EXCEPT ![i] = v]
                     /\ in = [instance[s] EXCEPT ![i] = Fresh(v)]
    OBVIOUS
  <2>2. Calls(s) /\ Flush(s, w, in) /\ Says(s, i, v, FALSE)
    BY <1>2, <2>1 DEF Create
  <2>3. /\ w \in Written /\ w[i] = v
        /\ in \in IdentityMap /\ in[i] = Fresh(v)
        /\ \A j \in Ids \ {i} : w[j] = writes[s][j] /\ in[j] = instance[s][j]
    BY <2>1, SessionHas DEF Written, IdentityMap, Fresh, Instance
  <2>4. Flushed(w, in)[i] = v
    BY <2>3, FlushedAt DEF Fresh
  <2>5. Over(table, Flushed(w, in))[i] = v
    BY <2>4, RepositoriesAssumption DEF Over
  <2> QED
    BY <2>2, <2>3, <2>5, FlushSays
<1> QED
  BY <1>1, <1>2

\* Over, at one row.
LEMMA OverIs ==
  ASSUME NEW w \in Written, NEW in \in IdentityMap, NEW i \in Ids
  PROVE  Over(table, Flushed(w, in))[i] =
           IF Flushed(w, in)[i] = Kept THEN table[i] ELSE Flushed(w, in)[i]
BY DEF Over

LEMMA UpdateKeeps ==
  ASSUME RepositoriesInv, NEW s \in Sessions, NEW i \in Ids, NEW v \in Values,
         Update(s, i, v)
  PROVE  RepositoriesInv'
<1>1. CASE Fails(s)
  BY <1>1, FailsKeeps DEF Update
<1>2. CASE ~Fails(s)
  <2>1. PICK r \in Instance : r = Found(s, i)
    BY SessionHas DEF Update
  <2>2. PICK n : n = [r EXCEPT !.value = v]
    OBVIOUS
  <2>3. n \in Instance /\ n.value = v /\ n.loaded = r.loaded
    BY <2>1, <2>2 DEF Instance
  <2>4. PICK w, in : w = writes[s] /\ in = [instance[s] EXCEPT ![i] = n]
    OBVIOUS
  <2>5. Calls(s) /\ Flush(s, w, in) /\ Says(s, i, v, OutOfDate(s, i, v))
    BY <1>2, <2>1, <2>2, <2>4 DEF Update
  <2>6. /\ w \in Written /\ in \in IdentityMap /\ in[i] = n
        /\ \A j \in Ids \ {i} : w[j] = writes[s][j] /\ in[j] = instance[s][j]
    BY <2>3, <2>4, SessionHas DEF Written, IdentityMap
  <2>7. OutOfDate(s, i, v) \/ Over(table, Flushed(w, in))[i] = v
    <3>1. Flushed(w, in)[i] = IF r.loaded # v THEN v ELSE w[i]
      BY <2>3, <2>6, FlushedAt, RepositoriesAssumption
    <3>2. r.loaded # v \/ OutOfDate(s, i, v) \/ Row(s, i) = v
      BY <2>1, RepositoriesAssumption DEF OutOfDate, Found, Fresh
    <3>3. Row(s, i) = IF w[i] = Kept THEN table[i] ELSE w[i]
      BY <2>4, SessionHas
    <3> QED
      BY <2>6, <3>1, <3>2, <3>3, OverIs, RepositoriesAssumption
  <2> QED
    BY <2>5, <2>6, <2>7, FlushSays
<1> QED
  BY <1>1, <1>2

LEMMA DeleteKeeps ==
  ASSUME RepositoriesInv, NEW s \in Sessions, NEW i \in Ids, Delete(s, i)
  PROVE  RepositoriesInv'
<1>1. CASE Fails(s)
  BY <1>1, FailsKeeps DEF Delete
<1>2. CASE ~Fails(s)
  <2>1. PICK w, in :
          /\ w = [writes[s] EXCEPT ![i] = IF Row(s, i) = Gone THEN writes[s][i] ELSE Gone]
          /\ in = [instance[s] EXCEPT ![i] = Kept]
    OBVIOUS
  <2>2. Calls(s) /\ Flush(s, w, in) /\ Says(s, i, Gone, FALSE)
    BY <1>2, <2>1 DEF Delete
  <2>3. /\ w \in Written /\ w[i] = IF Row(s, i) = Gone THEN writes[s][i] ELSE Gone
        /\ in \in IdentityMap /\ in[i] = Kept
        /\ \A j \in Ids \ {i} : w[j] = writes[s][j] /\ in[j] = instance[s][j]
    BY <2>1, SessionHas DEF Written, IdentityMap
  <2>4. Over(table, Flushed(w, in))[i] = Gone
    <3>1. Flushed(w, in)[i] = w[i]
      BY <2>3, FlushedAt
    <3> QED
      BY <2>3, <3>1, OverIs, SessionHas, RepositoriesAssumption
  <2> QED
    BY <2>2, <2>3, <2>4, FlushSays
<1> QED
  BY <1>1, <1>2

LEMMA UpsertKeeps ==
  ASSUME RepositoriesInv, NEW s \in Sessions, NEW i \in Ids, NEW v \in Values,
         Upsert(s, i, v)
  PROVE  RepositoriesInv'
<1>1. CASE Fails(s)
  BY <1>1, FailsKeeps DEF Upsert
<1>2. CASE ~Fails(s)
  <2>1. PICK w, in :
          /\ w = [writes[s] EXCEPT ![i] = v]
          /\ in = [instance[s] EXCEPT ![i] = IF instance[s][i] = Kept THEN Fresh(v)
                                             ELSE instance[s][i]]
    OBVIOUS
  <2>2. Calls(s) /\ Flush(s, w, in) /\ Says(s, i, v, Differs(s, i, v))
    BY <1>2, <2>1 DEF Upsert
  <2>3. /\ w \in Written /\ w[i] = v /\ in \in IdentityMap
        /\ in[i] = IF instance[s][i] = Kept THEN Fresh(v) ELSE instance[s][i]
        /\ \A j \in Ids \ {i} : w[j] = writes[s][j] /\ in[j] = instance[s][j]
    BY <2>1, SessionHas DEF Written, IdentityMap, Fresh, Instance
  <2>4. Differs(s, i, v) \/ Flushed(w, in)[i] = v
    BY <2>3, FlushedAt DEF Differs, Holds, Fresh
  <2>5. Differs(s, i, v) \/ Over(table, Flushed(w, in))[i] = v
    BY <2>3, <2>4, OverIs, RepositoriesAssumption
  <2> QED
    BY <2>2, <2>3, <2>5, FlushSays
<1> QED
  BY <1>1, <1>2

LEMMA BulkUpdateKeeps ==
  ASSUME RepositoriesInv, NEW s \in Sessions, NEW i \in Ids, NEW v \in Values,
         BulkUpdate(s, i, v)
  PROVE  RepositoriesInv'
<1>1. CASE Fails(s)
  BY <1>1, FailsKeeps DEF BulkUpdate
<1>2. CASE ~Fails(s)
  <2> DEFINE excused == Dirty(s, i) /\ Differs(s, i, v)
  <2>1. PICK w, in : w = [writes[s] EXCEPT ![i] = v] /\ in = instance[s]
    OBVIOUS
  <2>2. Calls(s) /\ Flush(s, w, in) /\ Says(s, i, v, excused)
    BY <1>2, <2>1 DEF BulkUpdate
  <2>3. /\ w \in Written /\ w[i] = v /\ in \in IdentityMap
        /\ \A j \in Ids \ {i} : w[j] = writes[s][j] /\ in[j] = instance[s][j]
    BY <2>1, SessionHas DEF Written
  <2>4. excused \/ Flushed(w, in)[i] = v
    <3>1. Flushed(w, in)[i] = IF in[i] # Kept /\ in[i].value # in[i].loaded
                              THEN in[i].value ELSE v
      BY <2>3, FlushedAt
    <3>2. in[i] # Kept /\ in[i].value # in[i].loaded /\ in[i].value # v => excused
      BY <2>1 DEF Differs, Holds, Dirty, Changed
    <3> QED
      BY <3>1, <3>2
  <2>5. excused \/ Over(table, Flushed(w, in))[i] = v
    BY <2>3, <2>4, OverIs, RepositoriesAssumption
  <2> HIDE DEF excused
  <2> QED
    BY <2>2, <2>3, <2>5, FlushSays
<1> QED
  BY <1>1, <1>2

LEMMA DeleteByKeeps ==
  ASSUME RepositoriesInv, NEW s \in Sessions, NEW i \in Ids, NEW v \in Values,
         DeleteBy(s, i, v)
  PROVE  RepositoriesInv'
<1>1. CASE Fails(s)
  BY <1>1, FailsKeeps DEF DeleteBy
<1>2. CASE ~Fails(s)
  <2>1. PICK w, in :
          /\ w = [writes[s] EXCEPT ![i] = IF Row(s, i) = v THEN Gone ELSE writes[s][i]]
          /\ in = [instance[s] EXCEPT ![i] = IF Differs(s, i, v) THEN instance[s][i] ELSE Kept]
    OBVIOUS
  <2>2. /\ Calls(s) /\ Flush(s, w, in) /\ ~FlushFails(w, in)
        /\ IF Row(s, i) = v THEN Says(s, i, Gone, FALSE)
           ELSE IF Differs(s, i, v) THEN SaysNothing
           ELSE Retracts(s, i)
    BY <1>2, <2>1 DEF DeleteBy
  <2>3. /\ w \in Written /\ w[i] = IF Row(s, i) = v THEN Gone ELSE writes[s][i]
        /\ in \in IdentityMap
        /\ in[i] = IF Differs(s, i, v) THEN instance[s][i] ELSE Kept
        /\ \A j \in Ids \ {i} : w[j] = writes[s][j] /\ in[j] = instance[s][j]
    BY <2>1, SessionHas DEF Written, IdentityMap
  <2>4. CASE Row(s, i) = v
    <3>1. i \notin Changed(in)
      <4>1. Rows(w)[i] = Gone
        BY <2>3, <2>4, RepositoriesAssumption DEF Rows, Over
      <4> QED
        BY <2>2, <4>1 DEF FlushFails
    <3>2. Flushed(w, in)[i] = Gone
      BY <2>3, <2>4, <3>1 DEF Flushed
    <3>3. Over(table, Flushed(w, in))[i] = Gone
      BY <2>3, <3>2, OverIs, RepositoriesAssumption
    <3> QED
      BY <2>2, <2>3, <2>4, <3>3, FlushSays
  <2>5. CASE Row(s, i) # v
    <3>1. w = writes[s]
      BY <2>1, <2>5, SessionHas DEF Written
    <3>2. PICK x : x = IF Differs(s, i, v) THEN promised[s][i] ELSE Kept
      OBVIOUS
    <3>3. PICK p : p = [promised[s] EXCEPT ![i] = x]
      OBVIOUS
    <3>4. /\ promised' = [promised EXCEPT ![s] = p]
          /\ UNCHANGED <<broken, blocks, misled>>
      <4>1. CASE Differs(s, i, v)
        <5>1. p = promised[s]
          BY <3>2, <3>3, <4>1, SessionHas DEF Written
        <5> QED
          BY <2>2, <2>5, <4>1, <5>1 DEF SaysNothing, RepositoriesInv, RepositoriesTypeOK
      <4>2. CASE ~Differs(s, i, v)
        BY <2>2, <2>5, <3>2, <3>3, <4>2 DEF Retracts
      <4> QED
        BY <4>1, <4>2
    <3>5. p \in Written /\ p[i] = x /\ \A j \in Ids \ {i} : p[j] = promised[s][j]
      BY <3>2, <3>3, SessionHas DEF Written
    <3>6. ASSUME NEW j \in Ids, p[j] # Kept PROVE Flushed(w, in)[j] = p[j]
      <4>1. p[j] = promised[s][j] /\ in[j] = instance[s][j]
        BY <2>3, <3>2, <3>5, <3>6
      <4>2. Flushed(writes[s], instance[s])[j] = p[j]
        BY <3>6, <4>1, SessionHas DEF Keeps
      <4>3. Flushed(writes[s], instance[s])[j] =
              IF instance[s][j] # Kept /\ instance[s][j].value # instance[s][j].loaded
              THEN instance[s][j].value ELSE writes[s][j]
        BY FlushedAt
      <4>4. Flushed(w, in)[j] = IF in[j] # Kept /\ in[j].value # in[j].loaded
                                THEN in[j].value ELSE w[j]
        BY <2>3, FlushedAt
      <4> QED
        BY <3>1, <4>1, <4>2, <4>3, <4>4
    <3>7. blocks[s] = <<>> => p = Nothing
      <4>1. blocks[s] = <<>> => x = Kept /\ promised[s] = Nothing
        BY <3>2, SessionHas, NothingType
      <4> QED
        BY <3>3, <4>1 DEF Nothing
    <3> QED
      BY <2>2, <2>3, <3>4, <3>5, <3>6, <3>7, FlushKeeps DEF Keeps
  <2> QED
    BY <2>4, <2>5
<1> QED
  BY <1>1, <1>2

LEMMA QuietCallsKeep ==
  ASSUME RepositoriesInv, NEW s \in Sessions, NEW i \in Ids,
         \/ Get(s, i)
         \/ Refresh(s, i)
         \/ \E v \in Values : UpdateWithObj(s, i, v)
  PROVE  RepositoriesInv'
<1>1. PICK r \in Instance \cup {Kept} : r = instance[s][i]
  BY SessionHas DEF IdentityMap
<1>2. Keeps(promised[s], writes[s], instance[s]) /\ promised[s] \in Written
      /\ instance[s] \in IdentityMap /\ writes[s] \in Written
  BY SessionHas
<1>3. PICK x \in Values \cup {Gone, Kept} : x = promised[s][i]
  BY <1>2 DEF Written
<1>4. /\ promised = [promised EXCEPT ![s][i] = x]
      /\ x # Kept => Flushed(writes[s], instance[s])[i] = x /\ blocks[s] # <<>>
  <2>1. promised = [promised EXCEPT ![s][i] = x]
    BY <1>2, <1>3 DEF RepositoriesInv, RepositoriesTypeOK, Written
  <2> QED
    BY <1>2, <1>3, <2>1, SessionHas, NothingType DEF Keeps
<1>5. ASSUME NEW n \in Instance \cup {Kept},
             n = r \/ ((r = Kept \/ ~Dirty(s, i)) /\ (n = Kept \/ n.value = n.loaded)),
             instance' = [instance EXCEPT ![s][i] = n], Calls(s),
             UNCHANGED <<table, writes>>, SaysNothing
      PROVE  RepositoriesInv'
  <2>1. PICK in : in = [instance[s] EXCEPT ![i] = n]
    OBVIOUS
  <2>2. in \in IdentityMap /\ in[i] = n /\ \A j \in Ids \ {i} : in[j] = instance[s][j]
    BY <1>2, <2>1 DEF IdentityMap
  <2>3. instance' = [instance EXCEPT ![s] = in]
    BY <1>5, <2>1
  <2>4. Flushed(writes[s], in)[i] = Flushed(writes[s], instance[s])[i]
    <3>1. Flushed(writes[s], in)[i] = IF n # Kept /\ n.value # n.loaded THEN n.value ELSE writes[s][i]
      BY <2>2, FlushedAt
    <3>2. Flushed(writes[s], instance[s])[i] =
            IF r # Kept /\ r.value # r.loaded THEN r.value ELSE writes[s][i]
      BY <1>1, FlushedAt
    <3> QED
      BY <1>1, <1>5, <3>1, <3>2 DEF Dirty, Changed
  <2>5. /\ promised' = [promised EXCEPT ![s][i] = x]
        /\ UNCHANGED <<table, writes, broken, blocks, misled>>
    BY <1>4, <1>5 DEF SaysNothing
  <2>6. x # Kept => Flushed(writes[s], in)[i] = x /\ blocks[s] # <<>>
    BY <1>4, <2>4
  <2> QED
    BY <1>5, <2>2, <2>3, <2>5, <2>6, CallKeeps
<1>6. ASSUME NEW n \in Instance, NEW y \in Values \cup {Kept}, Calls(s),
             instance' = [instance EXCEPT ![s][i] = n],
             y # Kept => n.value # n.loaded /\ n.value = y /\ blocks[s] # <<>>,
             promised' = [promised EXCEPT ![s][i] = y],
             UNCHANGED <<table, writes, broken, blocks, misled>>
      PROVE  RepositoriesInv'
  <2>1. PICK in : in = [instance[s] EXCEPT ![i] = n]
    OBVIOUS
  <2>2. in \in IdentityMap /\ in[i] = n /\ \A j \in Ids \ {i} : in[j] = instance[s][j]
    BY <1>2, <2>1 DEF IdentityMap
  <2>3. instance' = [instance EXCEPT ![s] = in]
    BY <1>6, <2>1
  <2>4. Flushed(writes[s], in)[i] = IF n # Kept /\ n.value # n.loaded THEN n.value ELSE writes[s][i]
    BY <2>2, FlushedAt
  <2>5. n # Kept
    BY RepositoriesAssumption
  <2> QED
    BY <1>6, <2>2, <2>3, <2>4, <2>5, CallKeeps
<1>7. CASE Get(s, i)
  <2>1. PICK n : n = Found(s, i)
    OBVIOUS
  <2>2. n \in Instance \cup {Kept} /\ (n = r \/ (r = Kept /\ (n = Kept \/ n.value = n.loaded)))
    BY <1>1, <2>1, SessionHas DEF Found, Holds, Fresh
  <2> QED
    BY <1>5, <1>7, <2>1, <2>2 DEF Get
<1>8. CASE Refresh(s, i)
  <2>1. PICK n : n = Fresh(Row(s, i))
    OBVIOUS
  <2>2. n \in Instance /\ n.value = n.loaded
    BY <1>8, <2>1, SessionHas DEF Refresh, Fresh, Instance
  <2>3. CASE Dirty(s, i)
    BY <1>6, <1>8, <2>1, <2>2, <2>3 DEF Refresh, Retracts
  <2>4. CASE ~Dirty(s, i)
    BY <1>5, <1>8, <2>1, <2>2, <2>4 DEF Refresh
  <2> QED
    BY <2>3, <2>4
<1>9. ASSUME NEW v \in Values, UpdateWithObj(s, i, v) PROVE RepositoriesInv'
  <2>1. r \in Instance
    BY <1>1, <1>9 DEF UpdateWithObj, Holds
  <2>2. PICK n : n = [r EXCEPT !.value = v]
    OBVIOUS
  <2>3. n \in Instance /\ n.value = v /\ n.loaded = r.loaded
    BY <2>1, <2>2 DEF Instance
  <2>4. instance' = [instance EXCEPT ![s][i] = n]
    BY <1>1, <1>9, <2>2 DEF UpdateWithObj
  <2>5. PICK y : y = IF blocks[s] # <<>> /\ r.loaded # v THEN v ELSE Kept
    OBVIOUS
  <2> QED
    BY <1>1, <1>6, <1>9, <2>3, <2>4, <2>5 DEF UpdateWithObj
<1> QED
  BY <1>7, <1>8, <1>9

\* Leaving a block, and the end of a transaction outside any.
LEMMA BlocksKeep ==
  ASSUME RepositoriesInv, NEW s \in Sessions,
         \/ Enter(s) \/ LeaveWell(s) \/ LeaveFailing(s) \/ LeaveRaising(s)
         \/ Commit(s) \/ Close(s)
  PROVE  RepositoriesInv'
<1>1. /\ writes[s] \in Written /\ instance[s] \in IdentityMap /\ promised[s] \in Written
      /\ Keeps(promised[s], writes[s], instance[s])
      /\ blocks[s] = <<>> => promised[s] = Nothing
  BY SessionHas
<1>2. /\ table \in [Ids -> Values \cup {Gone}] /\ misled = {}
      /\ begun \in [Sessions -> BOOLEAN] /\ broken \in [Sessions -> BOOLEAN]
      /\ blocks \in [Sessions -> Seq(BOOLEAN)]
  BY DEF RepositoriesInv, RepositoriesTypeOK
<1>3. /\ writes = [writes EXCEPT ![s] = writes[s]]
      /\ instance = [instance EXCEPT ![s] = instance[s]]
      /\ promised = [promised EXCEPT ![s] = promised[s]]
  BY DEF RepositoriesInv, RepositoriesTypeOK
<1>4. \A w, in : Keeps(Nothing, w, in)
  BY NothingType DEF Keeps
<1>5. Left(s) /\ blocks[s] # <<>> =>
        /\ blocks' \in [Sessions -> Seq(BOOLEAN)]
        /\ \A u \in Sessions \ {s} : blocks'[u] = blocks[u]
        /\ blocks'[s] = <<>> => Len(blocks[s]) = 1
  <2>1. SUFFICES ASSUME Left(s), blocks[s] # <<>>
                 PROVE  /\ blocks' \in [Sessions -> Seq(BOOLEAN)]
                        /\ \A u \in Sessions \ {s} : blocks'[u] = blocks[u]
                        /\ blocks'[s] = <<>> => Len(blocks[s]) = 1
    OBVIOUS
  <2>2. PICK b \in Seq(BOOLEAN) : b = blocks[s]
    BY <1>2
  <2>3. PICK c : c = SubSeq(b, 1, Len(b) - 1)
    OBVIOUS
  <2>4. Len(b) \in Nat /\ Len(b) > 0
    BY <2>1, <2>2
  <2>5. c \in Seq(BOOLEAN) /\ Len(c) = Len(b) - 1
    <3>1. 1 \in Int /\ Len(b) - 1 \in Int /\ \A i \in 1..(Len(b) - 1) : b[i] \in BOOLEAN
      BY <2>2, <2>4
    <3>2. /\ c \in Seq(BOOLEAN)
          /\ Len(c) = IF 1 <= Len(b) - 1 THEN Len(b) - 1 - 1 + 1 ELSE 0
      BY <2>3, <3>1, SubSeqProperties
    <3>3. PICK n, k : n \in Nat /\ n = Len(b) /\ k = Len(c)
      BY <2>4
    <3>4. n > 0 /\ k = IF 1 <= n - 1 THEN n - 1 - 1 + 1 ELSE 0
      BY <2>4, <3>2, <3>3
    <3>5. k = n - 1
      BY <3>3, <3>4
    <3> QED
      BY <3>2, <3>3, <3>5
  <2>6. blocks' = [blocks EXCEPT ![s] = c]
    BY <2>1, <2>2, <2>3 DEF Left
  <2> QED
    BY <1>2, <2>2, <2>4, <2>5, <2>6
<1>6. CASE Enter(s)
  <2>1. /\ blocks' \in [Sessions -> Seq(BOOLEAN)] /\ blocks'[s] # <<>>
        /\ \A u \in Sessions \ {s} : blocks'[u] = blocks[u]
        /\ UNCHANGED <<table, writes, instance, begun, broken, promised, misled>>
    <3>1. PICK b \in Seq(BOOLEAN) : b = blocks[s]
      BY <1>2
    <3>2. PICK m \in BOOLEAN : m = ~begun[s]
      OBVIOUS
    <3>3. PICK c : c = Append(b, m)
      OBVIOUS
    <3>4. c \in Seq(BOOLEAN) /\ c # <<>>
      BY <3>3
    <3>5. /\ blocks' = [blocks EXCEPT ![s] = c]
          /\ UNCHANGED <<table, writes, instance, begun, broken, promised, misled>>
      BY <1>6, <3>1, <3>2, <3>3 DEF Enter
    <3> QED
      BY <1>2, <3>4, <3>5
  <2> QED
    BY <1>1, <1>2, <1>3, <2>1, SessionGoesOn
<1>7. ASSUME RollsBack(s), promised' = [promised EXCEPT ![s] = Nothing], misled' = misled,
             blocks' \in [Sessions -> Seq(BOOLEAN)],
             \A u \in Sessions \ {s} : blocks'[u] = blocks[u]
      PROVE  RepositoriesInv'
  <2>1. /\ writes' = [writes EXCEPT ![s] = Nothing] /\ instance' = [instance EXCEPT ![s] = Nothing]
        /\ begun' \in [Sessions -> BOOLEAN] /\ broken' \in [Sessions -> BOOLEAN]
        /\ table' = table
    BY <1>2, <1>7 DEF RollsBack
  <2> QED
    BY <1>2, <1>4, <1>7, <2>1, NothingType, SessionGoesOn
<1>8. ASSUME UNCHANGED <<table, writes, instance, begun, broken, misled>>,
             promised' = [promised EXCEPT ![s] = Nothing],
             blocks' \in [Sessions -> Seq(BOOLEAN)],
             \A u \in Sessions \ {s} : blocks'[u] = blocks[u]
      PROVE  RepositoriesInv'
  BY <1>1, <1>2, <1>3, <1>4, <1>8, NothingType, SessionGoesOn
<1>9. ASSUME Commits(s), promised' = [promised EXCEPT ![s] = Nothing], misled' = {},
             blocks' \in [Sessions -> Seq(BOOLEAN)],
             \A u \in Sessions \ {s} : blocks'[u] = blocks[u]
      PROVE  RepositoriesInv'
  <2>1. PICK c \in IdentityMap : c = Clean(instance[s])
    BY <1>1, FlushedIs
  <2>2. table' \in [Ids -> Values \cup {Gone}]
    <3>1. Flushed(writes[s], instance[s]) \in Written
      BY <1>1, FlushedIs
    <3> QED
      BY <1>2, <1>9, <3>1 DEF Commits, Rows, Over, Written
  <2>3. /\ writes' = [writes EXCEPT ![s] = Nothing] /\ instance' = [instance EXCEPT ![s] = c]
        /\ begun' \in [Sessions -> BOOLEAN] /\ broken' \in [Sessions -> BOOLEAN]
    BY <1>2, <1>9, <2>1 DEF Commits
  <2> QED
    BY <1>4, <1>9, <2>2, <2>3, NothingType, SessionGoesOn
<1>10. CASE LeaveWell(s)
  <2>1. CASE Innermost(s)
    <3>1. \A i \in Ids : promised[s][i] \in {Kept, table'[i]}
      <4>1. \A i \in Ids : table'[i] = IF Flushed(writes[s], instance[s])[i] = Kept
                                     THEN table[i] ELSE Flushed(writes[s], instance[s])[i]
        BY <1>10, <2>1 DEF LeaveWell, Commits, Rows, Over
      <4> QED
        BY <1>1, <4>1 DEF Keeps
    <3> QED
      BY <1>2, <1>5, <1>9, <1>10, <2>1, <3>1 DEF LeaveWell
  <2>2. CASE ~Innermost(s)
    <3>1. CASE Len(blocks[s]) = 1
      BY <1>5, <1>8, <1>10, <2>2, <3>1 DEF LeaveWell
    <3>2. CASE Len(blocks[s]) # 1
      <4>1. /\ UNCHANGED <<table, writes, instance, begun, broken, misled>>
            /\ promised' = promised /\ Left(s) /\ blocks[s] # <<>>
        BY <1>3, <1>10, <2>2, <3>2 DEF LeaveWell
      <4> QED
        BY <1>1, <1>2, <1>3, <1>5, <3>2, <4>1, SessionGoesOn
    <3> QED
      BY <3>1, <3>2
  <2> QED
    BY <2>1, <2>2
<1>11. CASE LeaveFailing(s)
  BY <1>5, <1>7, <1>8, <1>11 DEF LeaveFailing
<1>12. CASE LeaveRaising(s)
  BY <1>5, <1>7, <1>8, <1>12 DEF LeaveRaising
<1>13. CASE Commit(s)
  BY <1>1, <1>2, <1>3, <1>9, <1>13 DEF Commit
<1>14. CASE Close(s)
  BY <1>1, <1>2, <1>3, <1>7, <1>14 DEF Close
<1> QED
  BY <1>6, <1>10, <1>11, <1>12, <1>13, <1>14

LEMMA RepositoriesStep ==
  RepositoriesInv /\ [RepositoriesNext]_repositories => RepositoriesInv'
<1> SUFFICES ASSUME RepositoriesInv, [RepositoriesNext]_repositories PROVE RepositoriesInv'
  OBVIOUS
<1>1. CASE UNCHANGED repositories
  BY <1>1 DEF repositories, session, RepositoriesInv, RepositoriesTypeOK, SessionKeeps,
              Keeps, Flushed, Changed, Nothing
<1> QED
  BY <1>1, BlocksKeep, QuietCallsKeep, DeleteKeeps, CreateKeeps, UpdateKeeps, DeleteByKeeps,
     UpsertKeeps, BulkUpdateKeeps DEF RepositoriesNext

\* What a call says of a row is so, and what a block's calls said is committed
\* when the block that manages the transaction ends well.
THEOREM CallsReportTruly == Spec => []ReportsAreTrue
<1>1. Init => RepositoriesInv
  BY RepositoriesStart DEF Init
<1>2. RepositoriesInv /\ [Next]_vars => RepositoriesInv'
  BY RepositoriesStep DEF Next, InMachine, vars
<1>3. RepositoriesInv => ReportsAreTrue
  BY DEF RepositoriesInv, ReportsAreTrue
<1> QED
  BY <1>1, <1>2, <1>3, PTL DEF Spec

-----------------------------------------------------------------------------
(* Forms.                                                                   *)

IsRequest(r) ==
  r = [at |-> r.at, kind |-> r.kind, locale |-> r.locale, asked |-> r.asked,
       field |-> r.field, labels |-> r.labels, shown |-> r.shown, outcome |-> r.outcome]

\* A text is in the language l when l shipped with it, and otherwise in l, in
\* the fallback's or no language at all.
Speaks(t, l) ==
  /\ t.key \in Shipped[l] => t.in = l
  /\ t.in \in {l, Fallback, Raw}

\* A request keeps the locale it was given, and its labels speak it.
RequestSpeaks(r) ==
  /\ IsRequest(r) /\ r.asked \in Locales /\ r.locale = r.asked
  /\ r.field \in Nat \ {0} /\ r.labels \in Seq(Text)
  /\ \A n \in 1..Len(r.labels) : Speaks(r.labels[n], r.asked)

\* What shipped stays: translations are only added.
FormsInv ==
  /\ translations = [l \in Locales |-> translations[l]]
  /\ \A l \in Locales : Shipped[l] \subseteq translations[l]
  /\ clients = [c \in Clients |-> clients[c]]
  /\ \A c \in Clients : RequestSpeaks(clients[c])

LEMMA NegotiateType ==
  ASSUME NEW q, NEW h PROVE Negotiate(<<q, h>>) \in Locales
<1> DEFINE asked == <<q, h>>
           fitting == {n \in 1..2 : asked[n] # NoTag /\ Base[asked[n]] \in Loaded}
<1>1. Negotiate(asked) =
        IF fitting = {} THEN Default
        ELSE Base[asked[CHOOSE n \in fitting : \A m \in fitting : n <= m]]
  BY Len(asked) = 2 DEF Negotiate
<1>2. CASE fitting = {}
  BY <1>1, <1>2, FormsAssumption
<1>3. CASE fitting # {}
  <2>1. \E n \in fitting : \A m \in fitting : n <= m
    <3>1. CASE 1 \in fitting
      BY <3>1
    <3>2. CASE 1 \notin fitting
      <4>1. fitting = {2}
        BY <1>3, <3>2
      <4> QED
        BY <4>1
    <3> QED
      BY <3>1, <3>2
  <2>2. (CHOOSE n \in fitting : \A m \in fitting : n <= m) \in fitting
    BY <2>1
  <2>3. \A n \in fitting : Base[asked[n]] \in Locales
    BY DEF Loaded
  <2>4. PICK n \in fitting : n = CHOOSE k \in fitting : \A m \in fitting : k <= m
    BY <2>2
  <2>5. Negotiate(<<q, h>>) = Base[asked[n]]
    BY <1>1, <1>3, <2>4
  <2> HIDE DEF fitting, asked
  <2> QED
    BY <2>3, <2>5
<1> QED
  BY <1>2, <1>3

\* What the translator answers for a key, wherever it is found.
LEMMA TranslationSpeaks ==
  ASSUME FormsInv, NEW l \in Locales, NEW k \in Keys,
         NEW t, t = Translated(l, [key |-> k, in |-> Raw])
  PROVE  t \in Text /\ Speaks(t, l)
<1>1. t = [key |-> k, in |-> Lookup(l, k)]
  BY DEF Translated
<1>2. Lookup(l, k) \in {l, Fallback, Raw} /\ Fallback \in Locales
  BY FormsAssumption DEF Lookup, Resolved
<1>3. k \in Shipped[l] => Lookup(l, k) = l
  BY DEF FormsInv, Lookup, Resolved, Loaded
<1> QED
  BY <1>1, <1>2, <1>3 DEF Text, Speaks

LEMMA FormsStart == FormsInit => FormsInv
<1> SUFFICES ASSUME FormsInit PROVE FormsInv
  OBVIOUS
<1>1. IsRequest(NoRequest) /\ NoRequest.asked = Default /\ NoRequest.locale = Default
      /\ NoRequest.field = 1 /\ NoRequest.labels = <<>>
  BY DEF NoRequest, IsRequest
<1>2. RequestSpeaks(NoRequest)
  BY <1>1, FormsAssumption DEF RequestSpeaks
<1>3. /\ translations = Shipped /\ Shipped = [l \in Locales |-> Shipped[l]]
      /\ clients = [c \in Clients |-> NoRequest]
  BY FormsAssumption DEF FormsInit
<1> QED
  BY <1>2, <1>3 DEF FormsInv

\* A request goes on: its new record speaks its language.
LEMMA RequestGoesOn ==
  ASSUME FormsInv, NEW c \in Clients, NEW r, RequestSpeaks(r),
         clients' = [clients EXCEPT ![c] = r], translations' = translations
  PROVE  FormsInv'
<1>1. /\ clients' = [x \in Clients |-> clients'[x]] /\ clients'[c] = r
      /\ \A x \in Clients \ {c} : clients'[x] = clients[x]
  BY DEF FormsInv
<1>2. \A x \in Clients : RequestSpeaks(clients'[x])
  BY <1>1 DEF FormsInv
<1> QED
  BY <1>1, <1>2 DEF FormsInv, RequestSpeaks, IsRequest, Speaks

LEMMA AnswersSpeak ==
  ASSUME FormsInv, NEW c \in Clients, NEW o, NEW r,
         \/ r = Answers(c, o)
         \/ r = Renders(c, o)
         \/ r = [clients[c] EXCEPT !.at = "working"]
         \/ r = [clients[c] EXCEPT !.at = "sent"]
  PROVE  RequestSpeaks(r)
<1>1. PICK q : q = clients[c] /\ RequestSpeaks(q)
  BY DEF FormsInv
<1>2. q = [at |-> q.at, kind |-> q.kind, locale |-> q.locale, asked |-> q.asked,
           field |-> q.field, labels |-> q.labels, shown |-> q.shown,
           outcome |-> q.outcome]
  BY <1>1 DEF RequestSpeaks, IsRequest
<1>3. CASE \/ r = Answers(c, o)
           \/ r = [clients[c] EXCEPT !.at = "working"]
           \/ r = [clients[c] EXCEPT !.at = "sent"]
  <2>1. /\ IsRequest(r) /\ r.asked = q.asked /\ r.locale = q.locale
        /\ r.field = q.field /\ r.labels = q.labels
    BY <1>1, <1>2, <1>3 DEF Answers, IsRequest
  <2> QED
    BY <1>1, <2>1 DEF RequestSpeaks
<1>4. CASE r = Renders(c, o)
  <2>1. /\ IsRequest(r) /\ r.asked = q.asked /\ r.locale = q.locale
        /\ r.field = 1 /\ r.labels = <<>>
    BY <1>1, <1>2, <1>4 DEF Renders, IsRequest
  <2> QED
    BY <1>1, <2>1 DEF RequestSpeaks
<1> QED
  BY <1>3, <1>4

LEMMA ArriveSpeaks ==
  ASSUME FormsInv, NEW c \in Clients, NEW kind, NEW q, NEW h, Arrive(c, kind, <<q, h>>)
  PROVE  FormsInv'
<1>1. PICK l \in Locales : l = Negotiate(<<q, h>>)
  BY NegotiateType
<1>2. PICK at : at = IF kind = "show" THEN "rendering" ELSE "asked"
  OBVIOUS
<1>3. PICK r : r = [NoRequest EXCEPT !.at = at, !.kind = kind, !.locale = l, !.asked = l]
  OBVIOUS
<1>4. RequestSpeaks(r)
  <2>1. /\ IsRequest(r) /\ r.asked = l /\ r.locale = l
        /\ r.field = 1 /\ r.labels = <<>>
    BY <1>3 DEF NoRequest, IsRequest
  <2> QED
    BY <2>1 DEF RequestSpeaks
<1>5. clients' = [clients EXCEPT ![c] = r] /\ translations' = translations
  BY <1>1, <1>2, <1>3 DEF Arrive
<1> QED
  BY <1>4, <1>5, RequestGoesOn

LEMMA RenderSpeaks ==
  ASSUME FormsInv, NEW c \in Clients, RenderField(c)
  PROVE  FormsInv'
<1>1. PICK q : q = clients[c] /\ RequestSpeaks(q)
  BY DEF FormsInv
<1>2. PICK n, l, label :
        /\ n = q.field /\ l = q.asked
        /\ label = Translated(l, [key |-> FormFields[n].label, in |-> Raw])
  OBVIOUS
<1>3. n \in 1..Len(FormFields) /\ l \in Locales /\ q.locale = l
  BY <1>1, <1>2, FormsAssumption DEF RenderField, RequestSpeaks
<1>4. label \in Text /\ Speaks(label, l)
  BY <1>2, <1>3, TranslationSpeaks, FormsAssumption
<1>5. PICK shown : shown = Append(q.shown, NewOptions(l, options[n]))
  OBVIOUS
<1>6. PICK r : r = [q EXCEPT !.field = q.field + 1, !.labels = Append(q.labels, label),
                             !.shown = shown]
  OBVIOUS
<1>7. clients' = [clients EXCEPT ![c] = RenderFails(c)] \/ clients' = [clients EXCEPT ![c] = r]
  <2> DEFINE n0 == clients[c].field
             l0 == clients[c].locale
             key == [key |-> FormFields[n0].label, in |-> Raw]
             fails == MissesTwice(l0, key)
                      \/ \E m \in 1..Len(options[n0]) : MissesTwice(l0, options[n0][m])
             next == [clients[c] EXCEPT !.field = n0 + 1,
                        !.labels = Append(@, Translated(l0, key)),
                        !.shown = Append(@, NewOptions(l0, options[n0]))]
  <2>1. clients' = [clients EXCEPT ![c] = IF fails THEN RenderFails(c) ELSE next]
    BY DEF RenderField
  <2>2. n0 = n /\ l0 = l
    BY <1>1, <1>2, <1>3
  <2>3. label = Translated(l0, key)
    BY <1>2, <2>2
  <2>4. next = r
    BY <1>1, <1>2, <1>5, <1>6, <2>2, <2>3
  <2> HIDE DEF fails, next
  <2> QED
    BY <2>1, <2>4
<1>8. CASE clients' = [clients EXCEPT ![c] = RenderFails(c)]
  <2>1. RequestSpeaks(RenderFails(c))
    BY AnswersSpeak DEF RenderFails
  <2> QED
    BY <1>8, <2>1, RequestGoesOn DEF RenderField
<1>9. CASE clients' = [clients EXCEPT ![c] = r]
  <2>1. q = [at |-> q.at, kind |-> q.kind, locale |-> q.locale, asked |-> q.asked,
             field |-> q.field, labels |-> q.labels, shown |-> q.shown,
             outcome |-> q.outcome]
    BY <1>1 DEF RequestSpeaks, IsRequest
  <2>2. /\ IsRequest(r) /\ r.asked = l /\ r.locale = l /\ r.field = n + 1
        /\ r.labels = Append(q.labels, label)
    BY <1>2, <1>3, <1>6, <2>1 DEF IsRequest
  <2>3. /\ r.labels \in Seq(Text)
        /\ \A m \in 1..Len(r.labels) : Speaks(r.labels[m], l)
    <3>1. q.labels \in Seq(Text) /\ \A m \in 1..Len(q.labels) : Speaks(q.labels[m], l)
      BY <1>1, <1>2 DEF RequestSpeaks
    <3>2. /\ r.labels \in Seq(Text) /\ Len(r.labels) = Len(q.labels) + 1
          /\ r.labels[Len(r.labels)] = label
          /\ \A m \in 1..Len(q.labels) : r.labels[m] = q.labels[m]
      BY <1>4, <2>2, <3>1
    <3> QED
      BY <1>4, <3>1, <3>2
  <2>4. RequestSpeaks(r)
    BY <1>2, <1>3, <2>2, <2>3 DEF RequestSpeaks
  <2> QED
    BY <1>9, <2>4, RequestGoesOn DEF RenderField
<1> QED
  BY <1>7, <1>8, <1>9

LEMMA SubmitSpeaks ==
  ASSUME FormsInv, NEW c \in Clients,
         ValidateField(c) \/ Submit(c) \/ Work(c) \/ WrapForm(c)
  PROVE  FormsInv'
<1>1. PICK r : /\ clients' = [clients EXCEPT ![c] = r]
               /\ \/ \E o \in {"none", "invalid", "500"} : r = Answers(c, o)
                  \/ \E o \in {"success", "invalid", "error"} : r = Renders(c, o)
                  \/ r = [clients[c] EXCEPT !.at = "working"]
                  \/ r = [clients[c] EXCEPT !.at = "sent"]
  BY DEF ValidateField, Submit, Work, WrapForm
<1>2. RequestSpeaks(r)
  BY <1>1, AnswersSpeak
<1>3. translations' = translations
  BY DEF ValidateField, Submit, Work, WrapForm
<1> QED
  BY <1>1, <1>2, <1>3, RequestGoesOn

LEMMA FormsStep == FormsInv /\ [FormsNext]_forms => FormsInv'
<1> SUFFICES ASSUME FormsInv, [FormsNext]_forms PROVE FormsInv'
  OBVIOUS
<1>1. CASE UNCHANGED forms
  BY <1>1 DEF FormsInv, RequestSpeaks, IsRequest, Speaks, forms
<1>2. ASSUME NEW l \in Locales, NEW k \in Keys, AddTranslations(l, k)
      PROVE  FormsInv'
  <2>1. /\ translations' = [x \in Locales |-> translations'[x]]
        /\ \A x \in Locales : translations[x] \subseteq translations'[x]
        /\ clients' = clients
    BY <1>2 DEF AddTranslations, FormsInv
  <2> QED
    BY <2>1 DEF FormsInv, RequestSpeaks, IsRequest, Speaks
<1> QED
  BY <1>1, <1>2, ArriveSpeaks, RenderSpeaks, SubmitSpeaks DEF FormsNext

\* Every label is in the language its own request negotiated, however the
\* rendering of others comes between two of its fields.
THEOREM LabelsSpeakTheirLanguage == Spec => []PagesSpeakTheirLanguage
<1>1. Init => FormsInv
  BY FormsStart DEF Init
<1>2. FormsInv /\ [Next]_vars => FormsInv'
  BY FormsStep DEF Next, InMachine, vars
<1>3. FormsInv => PagesSpeakTheirLanguage
  BY DEF FormsInv, RequestSpeaks, Speaks, PagesSpeakTheirLanguage
<1> QED
  BY <1>1, <1>2, <1>3, PTL DEF Spec

-----------------------------------------------------------------------------
(* Jobs of Celery.                                                          *)

Ended == {"done", "failed", "dropped", "lost"}
RunningType == [task : Tasks \cup {NoTask}, retries : Nat,
                step : {"free", "before", "performing"}]

\* A task waits on the broker or is run by one worker, and was performed as
\* often as it was retried at most.
TaskCounted(t) ==
  /\ fate[t] = "new" => performs[t] = 0
  /\ message[t].on => /\ fate[t] = "sent"
                      /\ performs[t] <= message[t].retries
                      /\ message[t].retries <= CeleryRetries
  /\ performs[t] <= CeleryRetries + 1

RunCounted(w, t) ==
  /\ running[w].step # "free"
  /\ fate[t] = "sent" /\ ~message[t].on
  /\ performs[t] <= running[w].retries
  /\ running[w].retries <= CeleryRetries
  /\ \A u \in CeleryWorkers \ {w} : running[u].task # t

WorkerCounted(w) ==
  /\ running[w].task = NoTask <=> running[w] = Resting
  /\ running[w].task # NoTask => RunCounted(w, running[w].task)

CeleryInv ==
  /\ CeleryTypeOK
  /\ \A t \in Tasks : TaskCounted(t)
  /\ \A w \in CeleryWorkers : WorkerCounted(w)

LEMMA RetriesType == CeleryRetries \in Nat
BY CeleryJobsAssumption DEF CeleryRetries

LEMMA CeleryStarts == CeleryInit => CeleryInv
BY RetriesType, CeleryJobsAssumption
   DEF CeleryInit, CeleryInv, CeleryTypeOK, TaskCounted, WorkerCounted, Message,
       NoMessage, Resting

LEMMA EnqueueCelery ==
  ASSUME CeleryInv, NEW t \in Tasks,
         (\E waits \in BOOLEAN : Enqueue(t, waits)) \/ TimePasses(t)
  PROVE  CeleryInv'
<1>1. message[t] \in [retries : Nat, waits : BOOLEAN, on : BOOLEAN]
  BY DEF CeleryInv, CeleryTypeOK, Message
<1>2. ASSUME NEW waits \in BOOLEAN, Enqueue(t, waits) PROVE CeleryInv'
  <2>1. \A u \in CeleryWorkers : running[u].task # t
    BY <1>2, CeleryJobsAssumption DEF CeleryInv, WorkerCounted, RunCounted, Enqueue
  <2>2. /\ message' = [message EXCEPT ![t] = [retries |-> 0, waits |-> waits, on |-> TRUE]]
        /\ fate' = [fate EXCEPT ![t] = "sent"] /\ fate[t] = "new"
        /\ UNCHANGED <<known, running, performs, worked, kills>>
    BY <1>2 DEF Enqueue, Sent
  <2>3. CeleryTypeOK'
    BY <2>2 DEF CeleryInv, CeleryTypeOK, Message
  <2>4. ASSUME NEW u \in Tasks PROVE TaskCounted(u)'
    BY <2>2, RetriesType DEF CeleryInv, CeleryTypeOK, TaskCounted
  <2>5. ASSUME NEW w \in CeleryWorkers PROVE WorkerCounted(w)'
    BY <2>1, <2>2 DEF CeleryInv, CeleryTypeOK, WorkerCounted, RunCounted
  <2> QED
    BY <2>3, <2>4, <2>5 DEF CeleryInv
<1>3. CASE TimePasses(t)
  <2>1. PICK m \in Message : m = message[t]
    BY <1>1 DEF Message
  <2>2. PICK n : n = [m EXCEPT !.waits = FALSE]
    OBVIOUS
  <2>3. n \in Message /\ n.retries = m.retries /\ n.on = m.on
    BY <2>2 DEF Message
  <2>4. /\ message' = [message EXCEPT ![t] = n]
        /\ UNCHANGED <<known, running, fate, performs, worked, kills>>
    BY <1>3, <2>1, <2>2 DEF TimePasses
  <2>5. /\ message' \in [Tasks -> Message]
        /\ \A u \in Tasks : /\ message'[u].retries = message[u].retries
                            /\ message'[u].on = message[u].on
    BY <2>1, <2>3, <2>4 DEF CeleryInv, CeleryTypeOK
  <2>6. CeleryTypeOK' /\ \A u \in Tasks : TaskCounted(u)'
    BY <2>4, <2>5 DEF CeleryInv, CeleryTypeOK, TaskCounted
  <2>7. ASSUME NEW w \in CeleryWorkers PROVE WorkerCounted(w)'
    BY <2>4, <2>5 DEF CeleryInv, CeleryTypeOK, WorkerCounted, RunCounted
  <2> QED
    BY <2>6, <2>7 DEF CeleryInv
<1> QED
  BY <1>2, <1>3

LEMMA ReceiveCelery ==
  ASSUME CeleryInv, NEW w \in CeleryWorkers, NEW t \in Tasks, Receive(w, t)
  PROVE  CeleryInv'
<1>1. message[t] \in Message /\ t # NoTask /\ message[t].on /\ running[w] = Resting
      /\ message[t].retries \in Nat
  BY CeleryJobsAssumption DEF CeleryInv, CeleryTypeOK, Message, Receive
<1>2. \A u \in CeleryWorkers : running[u].task # t
  BY <1>1 DEF CeleryInv, WorkerCounted, RunCounted
<1>3. /\ message' \in [Tasks -> Message] /\ ~message'[t].on
      /\ \A u \in Tasks \ {t} : message'[u] = message[u]
      /\ UNCHANGED <<known, performs, worked, kills>>
  BY DEF Receive, CeleryInv, CeleryTypeOK, NoMessage, Message
<1>4. CASE t \in known
  <2>1. /\ running' = [running EXCEPT ![w] = [task |-> t, retries |-> message[t].retries,
                                              step |-> "before"]]
        /\ fate' = fate
    BY <1>4 DEF Receive
  <2>2. CeleryTypeOK'
    BY <1>1, <1>3, <2>1 DEF CeleryInv, CeleryTypeOK
  <2>3. ASSUME NEW u \in Tasks PROVE TaskCounted(u)'
    BY <1>3, <2>1 DEF CeleryInv, CeleryTypeOK, TaskCounted
  <2>4. ASSUME NEW u \in CeleryWorkers PROVE WorkerCounted(u)'
    <3>1. CASE u = w
      BY <1>1, <1>2, <1>3, <2>1, <3>1
         DEF CeleryInv, CeleryTypeOK, TaskCounted, WorkerCounted, RunCounted, Resting
    <3>2. CASE u # w
      BY <1>1, <1>2, <1>3, <2>1, <3>2
         DEF CeleryInv, CeleryTypeOK, WorkerCounted, RunCounted, Resting
    <3> QED
      BY <3>1, <3>2
  <2> QED
    BY <2>2, <2>3, <2>4 DEF CeleryInv
<1>5. CASE t \notin known
  <2>1. fate' = [fate EXCEPT ![t] = "dropped"] /\ running' = running
    BY <1>5 DEF Receive
  <2>2. CeleryTypeOK'
    BY <1>3, <2>1 DEF CeleryInv, CeleryTypeOK
  <2>3. ASSUME NEW u \in Tasks PROVE TaskCounted(u)'
    BY <1>3, <2>1 DEF CeleryInv, CeleryTypeOK, TaskCounted
  <2>4. ASSUME NEW u \in CeleryWorkers PROVE WorkerCounted(u)'
    BY <1>2, <1>3, <2>1 DEF CeleryInv, CeleryTypeOK, WorkerCounted, RunCounted
  <2> QED
    BY <2>2, <2>3, <2>4 DEF CeleryInv
<1> QED
  BY <1>4, <1>5

\* A run that ends with an error, a result or its worker.
LEMMA RunEnds ==
  ASSUME CeleryInv, NEW w \in CeleryWorkers, running[w].task # NoTask,
         NEW t, t = running[w].task, Leaves(w), known' = known, kills' \in Nat,
         worked' \in [Tasks -> BOOLEAN],
         NEW p \in {performs[t], performs[t] + 1},
         performs' = [performs EXCEPT ![t] = p],
         \/ /\ message' = message
            /\ \E f \in Ended : fate' = [fate EXCEPT ![t] = f]
         \/ /\ running[w].retries < CeleryRetries
            /\ Sent(t, running[w].retries + 1, TRUE) /\ fate' = fate
  PROVE  CeleryInv'
<1>1. /\ t \in Tasks /\ running[w].retries \in Nat /\ performs[t] \in Nat
      /\ performs[t] <= running[w].retries /\ running[w].retries <= CeleryRetries
      /\ \A u \in CeleryWorkers \ {w} : running[u].task # t
      /\ fate[t] = "sent" /\ ~message[t].on
  BY DEF CeleryInv, CeleryTypeOK, WorkerCounted, RunCounted
<1>2. /\ Resting.task = NoTask /\ running'[w] = Resting
      /\ \A u \in CeleryWorkers \ {w} : running'[u] = running[u]
      /\ running' \in [CeleryWorkers -> RunningType]
  BY DEF Leaves, CeleryInv, CeleryTypeOK, Resting, RunningType
<1>3. p \in Nat /\ p <= running[w].retries + 1 /\ p <= CeleryRetries + 1
  BY <1>1, RetriesType
<1>4. /\ performs' \in [Tasks -> Nat] /\ performs'[t] = p
      /\ \A u \in Tasks \ {t} : performs'[u] = performs[u]
  BY <1>1, <1>3 DEF CeleryInv, CeleryTypeOK
<1>5. CASE message' = message /\ \E f \in Ended : fate' = [fate EXCEPT ![t] = f]
  <2>1. PICK f \in Ended : fate' = [fate EXCEPT ![t] = f]
    BY <1>5
  <2>2. CeleryTypeOK'
    BY <1>2, <1>4, <1>5, <2>1 DEF CeleryInv, CeleryTypeOK, Ended, RunningType
  <2>3. /\ fate'[t] = f /\ f \in Ended
        /\ \A u \in Tasks \ {t} : fate'[u] = fate[u]
    BY <1>1, <2>1 DEF CeleryInv, CeleryTypeOK
  <2>4. ASSUME NEW u \in Tasks PROVE TaskCounted(u)'
    BY <1>1, <1>3, <1>4, <1>5, <2>3 DEF CeleryInv, TaskCounted, Ended
  <2>5. ASSUME NEW u \in CeleryWorkers PROVE WorkerCounted(u)'
    BY <1>1, <1>2, <1>4, <1>5, <2>3
       DEF CeleryInv, CeleryTypeOK, WorkerCounted, RunCounted
  <2> QED
    BY <2>2, <2>4, <2>5 DEF CeleryInv
<1>6. CASE /\ running[w].retries < CeleryRetries
           /\ Sent(t, running[w].retries + 1, TRUE) /\ fate' = fate
  <2>1. /\ message' \in [Tasks -> Message] /\ message'[t].on
        /\ message'[t].retries = running[w].retries + 1
        /\ \A u \in Tasks \ {t} : message'[u] = message[u]
    BY <1>1, <1>6 DEF Sent, CeleryInv, CeleryTypeOK, Message
  <2>2. CeleryTypeOK'
    BY <1>2, <1>4, <1>6, <2>1 DEF CeleryInv, CeleryTypeOK, RunningType
  <2>3. ASSUME NEW u \in Tasks PROVE TaskCounted(u)'
    BY <1>1, <1>3, <1>4, <1>6, <2>1, RetriesType DEF CeleryInv, TaskCounted
  <2>4. ASSUME NEW u \in CeleryWorkers PROVE WorkerCounted(u)'
    BY <1>1, <1>2, <1>4, <1>6, <2>1
       DEF CeleryInv, CeleryTypeOK, WorkerCounted, RunCounted
  <2> QED
    BY <2>2, <2>3, <2>4 DEF CeleryInv
<1> QED
  BY <1>5, <1>6

LEMMA RaisedEffect ==
  ASSUME CeleryInv, NEW w \in CeleryWorkers, NEW e, Raised(w, e)
  PROVE  /\ Leaves(w)
         /\ \/ /\ message' = message
               /\ \E f \in Ended : fate' = [fate EXCEPT ![running[w].task] = f]
            \/ /\ running[w].retries < CeleryRetries
               /\ Sent(running[w].task, running[w].retries + 1, TRUE) /\ fate' = fate
BY DEF Raised, Ended

LEMMA RunCelery ==
  ASSUME CeleryInv, NEW w \in CeleryWorkers,
         BeforePerform(w) \/ Perform(w) \/ Kill(w)
  PROVE  CeleryInv'
<1>1. PICK t : t = running[w].task
  OBVIOUS
<1>2. t # NoTask /\ t \in Tasks /\ running[w].task # NoTask
  BY <1>1 DEF BeforePerform, Perform, Kill, Resting, CeleryInv, CeleryTypeOK, WorkerCounted
<1>3. performs = [performs EXCEPT ![t] = performs[t]] /\ performs[t] \in Nat
      /\ worked \in [Tasks -> BOOLEAN] /\ kills \in Nat
  BY <1>2 DEF CeleryInv, CeleryTypeOK
<1>4. CASE Kill(w)
  <2>1. /\ Leaves(w) /\ known' = known /\ kills' \in Nat /\ worked' = worked
        /\ message' = message /\ fate' = [fate EXCEPT ![t] = "lost"]
        /\ performs' = [performs EXCEPT ![t] = performs[t]]
    BY <1>1, <1>3, <1>4 DEF Kill
  <2>2. \E f \in Ended : fate' = [fate EXCEPT ![t] = f]
    BY <2>1 DEF Ended
  <2> QED
    BY <1>1, <1>2, <1>3, <2>1, <2>2, RunEnds
<1>5. CASE Perform(w)
  <2>1. performs' = [performs EXCEPT ![t] = performs[t] + 1] /\ known' = known
        /\ kills' \in Nat
    BY <1>1, <1>3, <1>5 DEF Perform
  <2>2. PICK done \in BOOLEAN :
          /\ worked' = [worked EXCEPT ![t] = @ \/ done]
          /\ \/ \E e \in Errors : Raised(w, e)
             \/ /\ fate' = [fate EXCEPT ![t] = "done"]
                /\ Leaves(w)
                /\ UNCHANGED message
    BY <1>1, <1>5 DEF Perform
  <2>3. worked' \in [Tasks -> BOOLEAN]
    BY <2>2, <1>3, Zenon
  <2>4. Leaves(w) /\ (\/ /\ message' = message
                         /\ \E f \in Ended : fate' = [fate EXCEPT ![t] = f]
                      \/ /\ running[w].retries < CeleryRetries
                         /\ Sent(t, running[w].retries + 1, TRUE) /\ fate' = fate)
    BY <1>1, <2>2, RaisedEffect DEF Ended
  <2> QED
    BY <1>1, <1>2, <2>1, <2>3, <2>4, RunEnds
<1>6. CASE BeforePerform(w)
  <2>1. CASE \E e \in Errors : Raised(w, e)
    <3>1. Leaves(w) /\ (\/ /\ message' = message
                           /\ \E f \in Ended : fate' = [fate EXCEPT ![t] = f]
                        \/ /\ running[w].retries < CeleryRetries
                           /\ Sent(t, running[w].retries + 1, TRUE) /\ fate' = fate)
      BY <1>1, <2>1, RaisedEffect
    <3>2. UNCHANGED <<known, performs, worked, kills>>
      BY <1>6 DEF BeforePerform
    <3> QED
      BY <1>1, <1>2, <1>3, <3>1, <3>2, RunEnds
  <2>2. CASE Steps(w, "performing") /\ UNCHANGED <<message, fate>>
    <3>1. running[w] \in [task : Tasks \cup {NoTask}, retries : Nat,
                          step : {"free", "before", "performing"}]
      BY DEF CeleryInv, CeleryTypeOK
    <3>0. [running[w] EXCEPT !.step = "performing"]
            = [task |-> t, retries |-> running[w].retries, step |-> "performing"]
      BY <1>1, <3>1
    <3>2. running' = [running EXCEPT ![w] = [task |-> t, retries |-> running[w].retries,
                                             step |-> "performing"]]
      BY <2>2, <3>0 DEF Steps
    <3>3. UNCHANGED <<known, message, fate, performs, worked, kills>>
      BY <1>6, <2>2 DEF BeforePerform
    <3>4. CeleryTypeOK' /\ \A u \in Tasks : TaskCounted(u)'
      BY <1>2, <3>1, <3>2, <3>3 DEF CeleryInv, CeleryTypeOK, TaskCounted
    <3>5. ASSUME NEW u \in CeleryWorkers PROVE WorkerCounted(u)'
      BY <1>1, <1>2, <3>2, <3>3
         DEF CeleryInv, CeleryTypeOK, WorkerCounted, RunCounted, Resting
    <3> QED
      BY <3>4, <3>5 DEF CeleryInv
  <2> QED
    BY <1>6, <2>1, <2>2 DEF BeforePerform
<1> QED
  BY <1>4, <1>5, <1>6

LEMMA CeleryKeeps ==
  ASSUME CeleryInv, CeleryNext \/ UNCHANGED celery PROVE CeleryInv'
<1>1. CASE UNCHANGED celery
  BY <1>1 DEF celery, CeleryInv, CeleryTypeOK, TaskCounted, WorkerCounted, RunCounted
<1> QED
  BY <1>1, EnqueueCelery, ReceiveCelery, RunCelery DEF CeleryNext

\* A job is performed max_attempts times at most, though Celery's own retries
\* are unbounded, and one that is over does not run again.
THEOREM CeleryWithinBudget == Spec => []CeleryBudget
<1>1. Init => CeleryInv
  BY CeleryStarts DEF Init
<1>2. CeleryInv /\ [Next]_vars => CeleryInv'
  BY CeleryKeeps DEF Next, InMachine, vars
<1>3. CeleryInv => CeleryBudget
  BY CeleryJobsAssumption
     DEF CeleryInv, CeleryTypeOK, TaskCounted, WorkerCounted, RunCounted,
         CeleryBudget, CeleryRetries
<1> QED
  BY <1>1, <1>2, <1>3, PTL DEF Spec

-----------------------------------------------------------------------------
(* Recurring jobs.                                                          *)

\* When a date trigger that lives since instant `since` is to run.
Due(since) == IF since > schedule.on THEN since ELSE schedule.on

SchedulesInv ==
  /\ schedule \in Declared /\ now \in Nat \ {0}
  /\ fired = [n \in 1..Len(Calendar) |-> fired[n]]
  /\ sent = [n \in 1..Len(Calendar) |-> sent[n]]
  /\ started \in [Servers -> Nat] /\ \A s \in Servers : started[s] <= now
  /\ beat \in Nat /\ beat <= now
  /\ schedule.kind = "once" =>
        \A s \in Servers : started[s] # 0 =>
          (s \in pending <=> \/ now <= Due(started[s])
                             \/ Due(started[s]) > schedule.on + Grace)
  /\ FiresWhenItShould

\* Both adapters translate an expression to what it means.
LEMMA PatternsMean ==
  ASSUME NEW s \in Declared, NEW i
  PROVE  /\ Fits(AsApscheduler(s), i) <=> Means(s, i)
         /\ WholeMinutes(s) => (Fits(AsCelery(s), i) <=> Means(s, i))
<1>1. CASE s.expr # <<>>
  <2>1. PICK f : f = [second |-> 0, minute |-> s.expr[1], hour |-> s.expr[2],
                      day |-> s.expr[3], month |-> s.expr[4]]
    OBVIOUS
  <2>2. AsApscheduler(s) = f /\ AsCelery(s) = f
    BY <1>1, <2>1 DEF AsApscheduler, AsCelery
  <2>3. /\ f["second"] = 0 /\ f["minute"] = s.expr[1] /\ f["hour"] = s.expr[2]
        /\ f["day"] = s.expr[3] /\ f["month"] = s.expr[4]
    BY <2>1
  <2>4. Fits(f, i) <=>
          /\ 0 \in {Star, i["second"]} /\ s.expr[1] \in {Star, i["minute"]}
          /\ s.expr[2] \in {Star, i["hour"]} /\ s.expr[3] \in {Star, i["day"]}
          /\ s.expr[4] \in {Star, i["month"]}
    BY <2>3 DEF Fits, CronFields
  <2>5. 0 \in {Star, i["second"]} <=> i.second = 0
    BY SchedulesAssumption
  <2>6. (\A n \in 1..4 : s.expr[n] \in {Star, i[<<"minute", "hour", "day", "month">>[n]]}) <=>
          /\ s.expr[1] \in {Star, i["minute"]} /\ s.expr[2] \in {Star, i["hour"]}
          /\ s.expr[3] \in {Star, i["day"]} /\ s.expr[4] \in {Star, i["month"]}
    <3>1. \A n \in 1..4 : n = 1 \/ n = 2 \/ n = 3 \/ n = 4
      OBVIOUS
    <3> QED
      BY <3>1
  <2> QED
    BY <1>1, <2>2, <2>4, <2>5, <2>6 DEF Means
<1>2. CASE s.expr = <<>>
  <2>1. AsApscheduler(s) = s.fields /\ AsCelery(s) = [s.fields EXCEPT !.second = 0]
    BY <1>2 DEF AsApscheduler, AsCelery
  <2>2. WholeMinutes(s) => (Fits([s.fields EXCEPT !.second = 0], i) <=> Fits(s.fields, i))
    <3>1. DOMAIN s.fields = CronFields /\ (WholeMinutes(s) => s.fields["second"] = 0)
      BY <1>2, SchedulesAssumption DEF WholeMinutes
    <3>2. ASSUME WholeMinutes(s)
          PROVE  \A f \in CronFields : [s.fields EXCEPT !.second = 0][f] = s.fields[f]
      BY <3>1, <3>2
    <3> QED
      BY <3>2 DEF Fits
  <2> QED
    BY <1>2, <2>1, <2>2 DEF Means
<1> QED
  BY <1>1, <1>2

LEMMA SchedulesStart == SchedulesInit => SchedulesInv
<1> SUFFICES ASSUME SchedulesInit PROVE SchedulesInv
  OBVIOUS
<1>1. /\ schedule \in Declared /\ now = 1 /\ started = [s \in Servers |-> 0] /\ beat = 0
      /\ fired = [n \in 1..Len(Calendar) |-> {}] /\ sent = [n \in 1..Len(Calendar) |-> FALSE]
  BY DEF SchedulesInit
<1>2. FiresWhenItShould
  BY <1>1 DEF FiresWhenItShould
<1> QED
  BY <1>1, <1>2 DEF SchedulesInv

\* The triggers that are due are those that owe the instant.
LEMMA TriggersAreDue ==
  ASSUME SchedulesInv
  PROVE  /\ \A s \in Servers : started[s] # 0 => (s \in DueServers <=> Owed(now, started[s]))
         /\ \A s \in DueServers : s \in Servers /\ started[s] # 0
         /\ beat # 0 /\ schedule.kind # "once" /\ WholeMinutes(schedule) =>
               (DueBeat <=> Owed(now, beat))
         /\ schedule.kind = "once" => ~DueBeat
<1>1. /\ schedule \in Declared /\ schedule.kind \in {"cron", "interval", "once"}
      /\ now \in Nat /\ schedule.on \in Nat /\ Grace \in Nat
  BY SchedulesAssumption DEF SchedulesInv
<1>2. ASSUME NEW s \in Servers, started[s] # 0
      PROVE  s \in DueServers <=> Owed(now, started[s])
  <2>1. CASE schedule.kind = "cron"
    BY <1>1, <1>2, <2>1, PatternsMean DEF DueServers, Owed
  <2>2. CASE schedule.kind = "interval"
    BY <1>2, <2>2 DEF DueServers, Owed
  <2>3. CASE schedule.kind = "once"
    <3>1. s \in DueServers <=> s \in pending /\ now >= schedule.on /\ now <= schedule.on + Grace
      BY <1>2, <2>3 DEF DueServers
    <3>2. s \in pending <=> now <= Due(started[s]) \/ Due(started[s]) > schedule.on + Grace
      BY <1>2, <2>3 DEF SchedulesInv
    <3>3. Owed(now, started[s]) <=> now = Due(started[s]) /\ now <= schedule.on + Grace
      BY <2>3 DEF Owed, Due
    <3>4. started[s] \in Nat /\ started[s] <= now
      BY DEF SchedulesInv
    <3> QED
      BY <1>1, <3>1, <3>2, <3>3, <3>4 DEF Due
  <2> QED
    BY <1>1, <2>1, <2>2, <2>3
<1>3. ASSUME beat # 0, schedule.kind # "once", WholeMinutes(schedule)
      PROVE  DueBeat <=> Owed(now, beat)
  <2>1. CASE schedule.kind = "cron"
    BY <1>1, <1>3, <2>1, PatternsMean DEF DueBeat, Owed
  <2>2. CASE schedule.kind = "interval"
    BY <1>3, <2>2 DEF DueBeat, Owed
  <2> QED
    BY <1>1, <1>3, <2>1, <2>2
<1> QED
  BY <1>2, <1>3 DEF DueServers, DueBeat

LEMMA TickFires ==
  ASSUME SchedulesInv, Tick
  PROVE  SchedulesInv'
<1>1. /\ now < Len(Calendar) /\ now \in Nat \ {0} /\ now' = now + 1
      /\ schedule \in Declared /\ schedule' = schedule
      /\ started' = started /\ beat' = beat /\ pending' = pending \ DueServers
      /\ started \in [Servers -> Nat] /\ beat \in Nat
      /\ \A s \in Servers : started[s] <= now
      /\ fired' = [fired EXCEPT ![now] = DueServers]
      /\ sent' = [sent EXCEPT ![now] = DueBeat]
  BY DEF Tick, SchedulesInv
<1>2. /\ schedule.on \in Nat /\ Grace \in Nat /\ Len(Calendar) \in Nat
      /\ \A s \in Servers : Due(started[s]) \in Nat /\ started[s] \in Nat
  BY <1>1, SchedulesAssumption DEF Due
<1>3. \A n \in 1..now : /\ fired'[n] = IF n = now THEN DueServers ELSE fired[n]
                        /\ sent'[n] = IF n = now THEN DueBeat ELSE sent[n]
                        /\ n # now => n \in 1..(now - 1)
  BY <1>1, <1>2 DEF SchedulesInv
<1>4. \A n, since : Owed(n, since)' <=> Owed(n, since)
  BY <1>1 DEF Owed, Means, Fits
<1>5. ASSUME NEW s \in Servers, started[s] # 0, NEW n \in started[s]..now
      PROVE  s \in fired'[n] <=> Owed(n, started[s])
  <2>1. n \in 1..now /\ (n # now => n \in started[s]..(now - 1))
    BY <1>1, <1>2, <1>5
  <2>2. CASE n = now
    BY <1>3, <1>5, <2>1, <2>2, TriggersAreDue
  <2>3. CASE n # now
    BY <1>3, <1>5, <2>1, <2>3 DEF SchedulesInv, FiresWhenItShould
  <2> QED
    BY <2>2, <2>3
<1>6. ASSUME beat # 0, schedule.kind # "once", WholeMinutes(schedule), NEW n \in beat..now
      PROVE  sent'[n] <=> Owed(n, beat)
  <2>1. n \in 1..now /\ (n # now => n \in beat..(now - 1))
    BY <1>1, <1>6
  <2>2. CASE n = now
    BY <1>3, <1>6, <2>1, <2>2, TriggersAreDue
  <2>3. CASE n # now
    BY <1>3, <1>6, <2>1, <2>3 DEF SchedulesInv, FiresWhenItShould
  <2> QED
    BY <2>2, <2>3
<1>7. ASSUME NEW n \in 1..now
      PROVE  /\ fired'[n] # {} /\ schedule.kind = "cron" => Means(schedule, Calendar[n])
             /\ fired'[n] # {} /\ schedule.kind = "once" =>
                   n \in schedule.on..(schedule.on + Grace)
             /\ schedule.kind = "once" => ~sent'[n]
  <2>1. CASE n = now
    <3>1. ASSUME NEW s \in DueServers, schedule.kind = "cron"
          PROVE  Means(schedule, Calendar[now])
      BY <1>1, <3>1, PatternsMean DEF DueServers
    <3>2. ASSUME NEW s \in DueServers, schedule.kind = "once"
          PROVE  now \in schedule.on..(schedule.on + Grace)
      BY <1>1, <1>2, <3>2 DEF DueServers
    <3>3. schedule.kind = "once" => ~DueBeat
      BY TriggersAreDue
    <3> QED
      BY <1>3, <2>1, <3>1, <3>2, <3>3
  <2>2. CASE n # now
    BY <1>3, <2>2 DEF SchedulesInv, FiresWhenItShould
  <2> QED
    BY <2>1, <2>2
<1>8. now' - 1 = now /\ now' \in Nat \ {0}
  BY <1>1
<1>9. \A n : Means(schedule, n)' <=> Means(schedule, n)
  BY <1>1 DEF Means, Fits
<1>10. FiresWhenItShould'
  <2>1. WholeMinutes(schedule)' <=> WholeMinutes(schedule)
    BY <1>1 DEF WholeMinutes
  <2>2. \A s \in Servers : started'[s] # 0 =>
          \A n \in started'[s]..(now' - 1) : s \in fired'[n] <=> Owed(n, started[s])'
    BY <1>1, <1>4, <1>5, <1>8
  <2>3. beat' # 0 /\ schedule'.kind # "once" /\ WholeMinutes(schedule)' =>
          \A n \in beat'..(now' - 1) : sent'[n] <=> Owed(n, beat)'
    BY <1>1, <1>4, <1>6, <1>8, <2>1
  <2>4. \A n \in 1..(now' - 1) :
          /\ fired'[n] # {} /\ schedule'.kind = "cron" => Means(schedule, Calendar[n])'
          /\ fired'[n] # {} /\ schedule'.kind = "once" =>
                n \in schedule'.on..(schedule'.on + Grace)
          /\ schedule'.kind = "once" => ~sent'[n]
    BY <1>1, <1>7, <1>8, <1>9
  <2> QED
    BY <2>2, <2>3, <2>4 DEF FiresWhenItShould
<1>11. ASSUME schedule.kind = "once", NEW s \in Servers, started[s] # 0
       PROVE  s \in pending' <=> \/ now + 1 <= Due(started[s])
                                 \/ Due(started[s]) > schedule.on + Grace
  <2>1. s \in pending <=> now <= Due(started[s]) \/ Due(started[s]) > schedule.on + Grace
    BY <1>11 DEF SchedulesInv
  <2>2. s \in DueServers <=> now = Due(started[s]) /\ now <= schedule.on + Grace
    BY <1>11, TriggersAreDue DEF Owed, Due
  <2> QED
    BY <1>1, <1>2, <2>1, <2>2
<1>12. \A s : Due(s)' = Due(s)
  BY <1>1 DEF Due
<1>13. /\ fired' = [n \in 1..Len(Calendar) |-> fired'[n]]
       /\ sent' = [n \in 1..Len(Calendar) |-> sent'[n]]
  BY <1>1 DEF SchedulesInv
<1>14. beat <= now /\ beat' <= now' /\ \A s \in Servers : started'[s] <= now'
  BY <1>1, <1>2 DEF SchedulesInv
<1>15. schedule'.kind = "once" =>
         \A s \in Servers : started'[s] # 0 =>
           (s \in pending' <=> \/ now' <= Due(started[s])'
                               \/ Due(started[s])' > schedule'.on + Grace)
  BY <1>1, <1>11, <1>12
<1> QED
  BY <1>1, <1>8, <1>10, <1>13, <1>14, <1>15 DEF SchedulesInv

\* A process that starts owes nothing yet.
LEMMA StartsKeep ==
  ASSUME SchedulesInv, NEW s \in Servers, StartServer(s) \/ StopServer(s)
  PROVE  SchedulesInv'
<1>1. /\ schedule' = schedule /\ now' = now /\ fired' = fired /\ sent' = sent /\ beat' = beat
      /\ now \in Nat \ {0} /\ schedule \in Declared
      /\ \E t \in {0, now} : /\ started' = [started EXCEPT ![s] = t]
                             /\ t = now /\ schedule.kind = "once" => pending' = pending \cup {s}
                             /\ t = 0 => pending' = pending \ {s}
  BY DEF StartServer, StopServer, SchedulesInv
<1>2. PICK t \in {0, now} : /\ started' = [started EXCEPT ![s] = t]
                            /\ t = now /\ schedule.kind = "once" => pending' = pending \cup {s}
                            /\ t = 0 => pending' = pending \ {s}
  BY <1>1
<1>3. /\ started' \in [Servers -> Nat] /\ started'[s] = t
      /\ \A r \in Servers : started'[r] <= now /\ (r # s => started'[r] = started[r])
  BY <1>1, <1>2 DEF SchedulesInv
<1>4. ASSUME schedule.kind = "once", NEW r \in Servers, started'[r] # 0
      PROVE  r \in pending' <=> \/ now <= Due(started'[r])
                                \/ Due(started'[r]) > schedule.on + Grace
  <2>1. CASE r = s
    <3>1. t = now /\ now <= Due(now)
      BY <1>1, <1>2, <1>3, <1>4, <2>1, SchedulesAssumption DEF Due
    <3> QED
      BY <1>2, <1>3, <1>4, <2>1, <3>1
  <2>2. CASE r # s
    <3>1. (r \in pending' <=> r \in pending) /\ started'[r] = started[r]
      BY <1>1, <1>2, <1>3, <1>4, <2>2
    <3> QED
      BY <1>4, <3>1 DEF SchedulesInv
  <2> QED
    BY <2>1, <2>2
<1>5. /\ \A n, since : Owed(n, since)' <=> Owed(n, since)
      /\ \A since : Due(since)' = Due(since)
      /\ \A n : Means(schedule, n)' <=> Means(schedule, n)
      /\ WholeMinutes(schedule)' <=> WholeMinutes(schedule)
  BY <1>1 DEF Owed, Due, Means, Fits, WholeMinutes
<1>6. ASSUME NEW r \in Servers, started'[r] # 0, NEW n \in started'[r]..(now - 1)
      PROVE  r \in fired[n] <=> Owed(n, started'[r])
  <2>1. CASE r = s
    BY <1>1, <1>2, <1>3, <1>6, <2>1
  <2>2. CASE r # s
    BY <1>3, <1>6, <2>2 DEF SchedulesInv, FiresWhenItShould
  <2> QED
    BY <2>1, <2>2
<1>7. FiresWhenItShould'
  <2>1. \A r \in Servers : started'[r] # 0 =>
          \A n \in started'[r]..(now' - 1) : r \in fired'[n] <=> Owed(n, started[r])'
    <3>1. \A r \in Servers : \A n : Owed(n, started[r])' <=> Owed(n, started'[r])
      BY <1>1 DEF Owed, Means, Fits
    <3> QED
      BY <1>1, <1>6, <3>1
  <2>2. \A n : Owed(n, beat)' <=> Owed(n, beat)
    BY <1>1 DEF Owed, Means, Fits
  <2> QED
    BY <1>1, <1>5, <2>1, <2>2 DEF SchedulesInv, FiresWhenItShould
<1>8. schedule'.kind = "once" =>
        \A r \in Servers : started'[r] # 0 =>
          (r \in pending' <=> \/ now' <= Due(started[r])'
                              \/ Due(started[r])' > schedule'.on + Grace)
  <2>1. \A r \in Servers : Due(started[r])' = Due(started'[r])
    BY <1>1 DEF Due
  <2> QED
    BY <1>1, <1>4, <2>1
<1> QED
  BY <1>1, <1>3, <1>7, <1>8 DEF SchedulesInv

LEMMA BeatKeeps ==
  ASSUME SchedulesInv, StartBeat
  PROVE  SchedulesInv'
<1>1. /\ schedule' = schedule /\ now' = now /\ fired' = fired /\ sent' = sent /\ beat' = now
      /\ started' = started /\ pending' = pending /\ now \in Nat \ {0}
  BY DEF StartBeat, SchedulesInv
<1>2. FiresWhenItShould'
  <2>1. \A n, since : Owed(n, since)' <=> Owed(n, since)
    BY <1>1 DEF Owed, Means, Fits
  <2>2. \A n : Means(schedule, n)' <=> Means(schedule, n)
    BY <1>1 DEF Means, Fits
  <2>3. \A s \in Servers : \A n : Owed(n, started[s])' <=> Owed(n, started[s])
    BY <1>1 DEF Owed, Means, Fits
  <2>4. ~\E n \in beat'..(now' - 1) : TRUE
    BY <1>1
  <2> QED
    BY <1>1, <2>2, <2>3, <2>4 DEF SchedulesInv, FiresWhenItShould
<1>3. \A s \in Servers : Due(started[s])' = Due(started[s])
  BY <1>1 DEF Due
<1> QED
  BY <1>1, <1>2, <1>3 DEF SchedulesInv

LEMMA SchedulesStep == SchedulesInv /\ [SchedulesNext]_schedules => SchedulesInv'
<1> SUFFICES ASSUME SchedulesInv, [SchedulesNext]_schedules PROVE SchedulesInv'
  OBVIOUS
<1>1. CASE UNCHANGED schedules
  <2>1. /\ schedule' = schedule /\ now' = now /\ fired' = fired /\ sent' = sent /\ beat' = beat
        /\ started' = started /\ pending' = pending
    BY <1>1 DEF schedules
  <2>2. /\ \A n : Means(schedule, n)' <=> Means(schedule, n)
        /\ WholeMinutes(schedule)' <=> WholeMinutes(schedule)
    BY <2>1 DEF Means, Fits, WholeMinutes
  <2>3. \A s \in Servers : \A n : Owed(n, started[s])' <=> Owed(n, started[s])
    BY <2>1 DEF Owed, Means, Fits
  <2>4. \A n : Owed(n, beat)' <=> Owed(n, beat)
    BY <2>1 DEF Owed, Means, Fits
  <2>5. FiresWhenItShould'
    BY <2>1, <2>2, <2>3, <2>4 DEF SchedulesInv, FiresWhenItShould
  <2>6. \A s \in Servers : Due(started[s])' = Due(started[s])
    BY <2>1 DEF Due
  <2> QED
    BY <2>1, <2>5, <2>6 DEF SchedulesInv
<1> QED
  BY <1>1, TickFires, StartsKeep, BeatKeeps DEF SchedulesNext

\* FiresWhenItShould: since its start, a server has enqueued a recurring job at
\* every instant its schedule means and at no other; so has beat, but for a
\* once_at or a schedule with seconds; whenever servers and beat start and stop.
THEOREM FiresOnTime == Spec => []FiresWhenItShould
<1>1. Init => SchedulesInv
  BY SchedulesStart DEF Init
<1>2. SchedulesInv /\ [Next]_vars => SchedulesInv'
  BY SchedulesStep DEF Next, InMachine, vars
<1>3. SchedulesInv => FiresWhenItShould
  BY DEF SchedulesInv
<1> QED
  BY <1>1, <1>2, <1>3, PTL DEF Spec

-----------------------------------------------------------------------------
(* Slugs.                                                                   *)

SlugShapes ==
    /\ posts = [p \in Posts |-> posts[p]]
    /\ drafts = [e \in Editors |-> drafts[e]] /\ unwritten = [e \in Editors |-> unwritten[e]]
    /\ slugless = [e \in Editors |-> slugless[e]] /\ arrived = [e \in Editors |-> arrived[e]]
    /\ resolved = [e \in Editors |-> resolved[e]]
    /\ \A e \in Editors :
          /\ drafts[e] = [p \in Posts |-> drafts[e][p]]
          /\ unwritten[e] = [p \in Posts |-> unwritten[e][p]]
          /\ resolved[e] = [p \in Posts |-> resolved[e][p]]

\* A row is drafted or flushed by one session.
RowsAreApart ==
    \A e, x \in Editors : e # x => \A p \in Posts :
        /\ drafts[e][p] # NoPost => drafts[x][p] = NoPost /\ unwritten[x][p] = NoPost
        /\ unwritten[e][p] # NoPost => unwritten[x][p] = NoPost

\* No transaction sees two rows of a slug, and no two of them hold one.
SlugsAreApart ==
    /\ Distinct(posts) /\ \A e \in Editors : Distinct(Sees(e))
    /\ \A e, x \in Editors : e # x => \A p, q \in Posts :
          unwritten[e][p] # NoPost /\ unwritten[x][q] # NoPost
              /\ unwritten[e][p].slug = unwritten[x][q].slug
          => unwritten[e][p].slug = NoSlug

\* before_flush gave p its slug.
Done(e, p) == p \in Targets(drafts[e]) /\ ~Skips(drafts[e][p]) /\ p \notin slugless[e]

\* An instance that was left alone has its slug, and another that no row had
\* when it was given.
SlugsAreFound(e) ==
    /\ slugless[e] \subseteq {p \in Targets(drafts[e]) : ~Skips(drafts[e][p])}
    /\ \A p \in Targets(drafts[e]) :
          /\ drafts[e][p].title \in Titles
          /\ drafts[e][p].new \/ drafts[e][p].slug = Sees(e)[p].slug
          /\ ~Done(e, p) => resolved[e][p] = drafts[e][p].slug
          /\ Done(e, p) =>
                /\ resolved[e][p] # NoSlug
                /\ \A q \in Posts \ {p} :
                      /\ Sees(e)[q].slug = resolved[e][p] => resolved[e][p] \in arrived[e]
                      /\ Done(e, q) => resolved[e][q] # resolved[e][p]

SlugsInv ==
    /\ SlugShapes /\ RowsAreApart /\ SlugsAreApart
    /\ \A e \in Editors : SlugsAreFound(e)
    /\ clashes = 0

LEMMA SlugsStart == SlugsInit => SlugsInv
<1> SUFFICES ASSUME SlugsInit PROVE SlugsInv
  OBVIOUS
<1>1. posts = [p \in Posts |-> posts[p]] /\ Distinct(posts)
  BY SlugsAssumption DEF SlugsInit
<1>2. \A e \in Editors : /\ drafts[e] = NoDrafts /\ unwritten[e] = NoDrafts /\ slugless[e] = {}
                         /\ resolved[e] = SlugsOfNone
  BY DEF SlugsInit
<1>3. \A p \in Posts : NoDrafts[p] = NoPost
  BY DEF NoDrafts
<1>4. SlugShapes
  BY <1>1, <1>2 DEF SlugsInit, SlugShapes, NoDrafts, SlugsOfNone
<1>5. RowsAreApart
  BY <1>2, <1>3 DEF RowsAreApart
<1>6. \A e \in Editors : Sees(e) = posts
  BY <1>1, <1>2, <1>3 DEF Sees
<1>7. SlugsAreApart
  BY <1>1, <1>2, <1>3, <1>6 DEF SlugsAreApart
<1>8. \A e \in Editors : Targets(drafts[e]) = {}
  BY <1>2, <1>3 DEF Targets
<1>9. \A e \in Editors : SlugsAreFound(e)
  BY <1>2, <1>8 DEF SlugsAreFound
<1> QED
  BY <1>4, <1>5, <1>7, <1>9 DEF SlugsInit, SlugsInv

LEMMA Emptied ==
  ASSUME NEW e
  PROVE  (drafts[e] = NoDrafts => Targets(drafts[e]) = {})
BY DEF NoDrafts, Targets

\* A session goes on while others change what it sees.
LEMMA FlushGoesOn ==
  ASSUME NEW x \in Editors, SlugsAreFound(x),
         drafts'[x] = drafts[x], slugless'[x] = slugless[x], resolved'[x] = resolved[x],
         updates' = updates,
         drafts[x] # NoDrafts => arrived[x] \subseteq arrived'[x],
         \A q \in Posts :
            \/ Sees(x)'[q] = Sees(x)[q]
            \/ /\ drafts[x][q] = NoPost
               /\ \/ Sees(x)'[q].slug = NoSlug
                  \/ drafts[x] # NoDrafts => Sees(x)'[q].slug \in arrived'[x]
  PROVE  SlugsAreFound(x)'
<1>1. Targets(drafts[x])' = Targets(drafts[x]) /\ \A p \in Targets(drafts[x]) : p \in Posts
  BY DEF Targets
<1>2. \A p : Skips(drafts[x][p])' <=> Skips(drafts[x][p])
  BY DEF Skips
<1>3. \A p : Done(x, p)' <=> Done(x, p)
  BY <1>1, <1>2 DEF Done
<1>4. slugless'[x] \subseteq {p \in Targets(drafts[x])' : ~Skips(drafts[x][p])'}
  BY <1>1, <1>2 DEF SlugsAreFound
<1>5. ASSUME NEW p \in Targets(drafts[x])
      PROVE  /\ drafts'[x][p].title \in Titles
             /\ drafts'[x][p].new \/ drafts'[x][p].slug = Sees(x)'[p].slug
             /\ ~Done(x, p) => resolved'[x][p] = drafts'[x][p].slug
             /\ Done(x, p) =>
                /\ resolved'[x][p] # NoSlug
                /\ \A q \in Posts \ {p} :
                      /\ Sees(x)'[q].slug = resolved'[x][p] => resolved'[x][p] \in arrived'[x]
                      /\ Done(x, q) => resolved'[x][q] # resolved'[x][p]
  <2>1. drafts[x][p] # NoPost /\ p \in Posts /\ drafts[x] # NoDrafts
    BY <1>5, Emptied DEF Targets
  <2>2. Sees(x)'[p] = Sees(x)[p]
    BY <2>1
  <2>3. /\ drafts[x][p].title \in Titles
        /\ drafts[x][p].new \/ drafts[x][p].slug = Sees(x)[p].slug
    BY <1>5 DEF SlugsAreFound
  <2>4. ~Done(x, p) => resolved[x][p] = drafts[x][p].slug
    BY <1>5 DEF SlugsAreFound
  <2>5. ASSUME Done(x, p)
        PROVE  /\ resolved[x][p] # NoSlug
               /\ \A q \in Posts \ {p} :
                     /\ Sees(x)[q].slug = resolved[x][p] => resolved[x][p] \in arrived[x]
                     /\ Done(x, q) => resolved[x][q] # resolved[x][p]
    BY <1>5, <2>5 DEF SlugsAreFound
  <2> QED
    BY <2>1, <2>2, <2>3, <2>4, <2>5
<1> QED
  BY <1>1, <1>2, <1>3, <1>4, <1>5 DEF SlugsAreFound

\* A session that has nothing to flush.
LEMMA NothingToFlush ==
  ASSUME NEW x, drafts'[x] = NoDrafts, slugless'[x] = {}
  PROVE  SlugsAreFound(x)'
<1>1. Targets(drafts[x])' = {}
  BY DEF NoDrafts, Targets
<1> QED
  BY <1>1 DEF SlugsAreFound

LEMMA FlushBegins ==
  ASSUME SlugsInv, NEW e \in Editors, BeforeFlush(e)
  PROVE  SlugsInv'
<1>1. SlugShapes /\ RowsAreApart /\ SlugsAreApart /\ (\A x \in Editors : SlugsAreFound(x)) /\ clashes = 0
  BY DEF SlugsInv
<1>2. PICK d \in [Posts -> UNION {Draft(e, p) : p \in Posts}] :
        /\ \A p \in Posts : d[p] \in Draft(e, p)
        /\ drafts' = [drafts EXCEPT ![e] = d]
        /\ slugless' = [slugless EXCEPT ![e] = {p \in Targets(d) : ~Skips(d[p])}]
        /\ resolved' = [resolved EXCEPT ![e] = [p \in Posts |-> d[p].slug]]
  BY DEF BeforeFlush
<1>3. /\ updates' = updates /\ posts' = posts /\ unwritten' = unwritten /\ arrived' = arrived
      /\ clashes' = clashes
  BY DEF BeforeFlush
<1>4. /\ drafts'[e] = d /\ slugless'[e] = {p \in Targets(d) : ~Skips(d[p])}
      /\ resolved'[e] = [p \in Posts |-> d[p].slug]
      /\ \A x \in Editors \ {e} : /\ drafts'[x] = drafts[x] /\ slugless'[x] = slugless[x]
                                  /\ resolved'[x] = resolved[x]
  BY <1>1, <1>2 DEF SlugShapes
<1>5. SlugShapes'
  BY <1>1, <1>2, <1>3, <1>4 DEF SlugShapes
<1>6. \A x : Sees(x)' = Sees(x)
  BY <1>3 DEF Sees
<1>7. ASSUME NEW p \in Posts, d[p] # NoPost
      PROVE  ~Elsewhere(e, p) /\ d[p].title \in Titles /\ (d[p].new \/ d[p].slug = Sees(e)[p].slug)
  <2>1. d[p] \in Draft(e, p)
    BY <1>2
  <2>2. ~Elsewhere(e, p)
    BY <1>7, <2>1 DEF Draft
  <2>3. CASE Sees(e)[p] # NoPost
    <3>1. \E t \in Titles : d[p] = [title |-> t, slug |-> Sees(e)[p].slug, new |-> FALSE]
      BY <1>7, <2>1, <2>2, <2>3 DEF Draft
    <3> QED
      BY <2>2, <3>1
  <2>4. CASE Sees(e)[p] = NoPost
    <3>1. d[p] \in [title : Titles, slug : {NoSlug, Given}, new : {TRUE}]
      BY <1>7, <2>1, <2>2, <2>4 DEF Draft
    <3>2. d[p].new = TRUE /\ d[p].title \in Titles
      BY <3>1
    <3> QED
      BY <2>2, <3>2
  <2> QED
    BY <2>3, <2>4
<1>8. RowsAreApart'
  BY <1>1, <1>3, <1>4, <1>7 DEF RowsAreApart, Elsewhere
<1>9. SlugsAreApart'
  BY <1>1, <1>3, <1>6 DEF SlugsAreApart, Distinct
<1>10. SlugsAreFound(e)'
  <2>1. Targets(drafts[e])' = Targets(d) /\ Targets(d) \subseteq Posts
    BY <1>4 DEF Targets
  <2>2. \A p : Skips(drafts[e][p])' <=> Skips(d[p])
    BY <1>3, <1>4 DEF Skips
  <2>3. \A p : ~Done(e, p)'
    BY <1>4, <2>1, <2>2 DEF Done
  <2>4. \A p \in Targets(d) : d[p] # NoPost /\ p \in Posts
    BY DEF Targets
  <2> QED
    BY <1>4, <1>6, <1>7, <2>1, <2>2, <2>3, <2>4 DEF SlugsAreFound
<1>11. ASSUME NEW x \in Editors \ {e} PROVE SlugsAreFound(x)'
  BY <1>1, <1>3, <1>4, <1>6, FlushGoesOn
<1> QED
  BY <1>1, <1>3, <1>5, <1>8, <1>9, <1>10, <1>11 DEF SlugsInv

LEMMA SlugGiven ==
  ASSUME SlugsInv, NEW e \in Editors, NEW p \in Posts, GiveSlug(e, p)
  PROVE  SlugsInv'
<1>1. SlugShapes /\ RowsAreApart /\ SlugsAreApart /\ (\A x \in Editors : SlugsAreFound(x)) /\ clashes = 0
  BY DEF SlugsInv
<1>2. PICK n \in 1..(Cardinality(Taken(e, p)) + 1) :
        /\ [of |-> drafts[e][p].title, n |-> n] \notin Taken(e, p)
        /\ resolved' = [resolved EXCEPT ![e] = [@ EXCEPT ![p] = [of |-> drafts[e][p].title, n |-> n]]]
        /\ arrived' = [arrived EXCEPT ![e] = @ \ {[of |-> drafts[e][p].title, n |-> n]}]
  BY DEF GiveSlug
<1>3. PICK s : s = [of |-> drafts[e][p].title, n |-> n]
  OBVIOUS
<1>4. /\ p \in slugless[e] /\ slugless' = [slugless EXCEPT ![e] = @ \ {p}]
      /\ updates' = updates /\ posts' = posts /\ drafts' = drafts /\ unwritten' = unwritten
      /\ clashes' = clashes
  BY DEF GiveSlug
<1>5. /\ s \notin Taken(e, p) /\ slugless'[e] = slugless[e] \ {p} /\ arrived'[e] = arrived[e] \ {s}
      /\ resolved'[e] = [resolved[e] EXCEPT ![p] = s]
      /\ resolved'[e][p] = s /\ \A q \in Posts \ {p} : resolved'[e][q] = resolved[e][q]
      /\ \A x \in Editors \ {e} : /\ resolved'[x] = resolved[x] /\ slugless'[x] = slugless[x]
                                  /\ arrived'[x] = arrived[x]
  BY <1>1, <1>2, <1>3, <1>4 DEF SlugShapes
<1>6. SlugShapes'
  <2>1. resolved'[e] = [q \in Posts |-> resolved'[e][q]]
    BY <1>1, <1>5 DEF SlugShapes
  <2> QED
    BY <1>1, <1>2, <1>4, <1>5, <2>1 DEF SlugShapes
<1>7. \A x : Sees(x)' = Sees(x)
  BY <1>4 DEF Sees
<1>8. RowsAreApart' /\ SlugsAreApart'
  BY <1>1, <1>4, <1>7 DEF RowsAreApart, SlugsAreApart, Distinct
<1>9. SlugsAreFound(e)'
  <2>1. p \in Targets(drafts[e]) /\ ~Skips(drafts[e][p]) /\ ~Done(e, p)
    BY <1>1, <1>4 DEF SlugsAreFound, Done
  <2>2. s # NoSlug
    BY <1>3, <2>1 DEF Skips, NoSlug
  <2>3. \A q : Skips(drafts[e][q])' <=> Skips(drafts[e][q])
    BY <1>4 DEF Skips
  <2>4. \A q : Done(e, q)' <=> Done(e, q) \/ q = p
    BY <1>4, <1>5, <2>1, <2>3 DEF Done
  <2>5. ASSUME NEW q, Done(e, q) PROVE resolved[e][q] # s /\ q # p
    <3>1. resolved[e][q] \in Claimed(e)
      BY <2>5 DEF Done, Claimed
    <3> QED
      BY <1>5, <2>1, <2>5, <3>1 DEF Taken
  <2>6. ASSUME NEW q \in Posts \ {p} PROVE Sees(e)[q].slug # s
    <3>1. Sees(e)[q].slug # NoSlug => Sees(e)[q].slug \in SlugsOf(Sees(e), Posts \ {p})
      BY <2>6 DEF SlugsOf
    <3> QED
      BY <1>5, <2>2, <3>1 DEF Taken
  <2>7. Targets(drafts[e])' = Targets(drafts[e]) /\ Targets(drafts[e]) \subseteq Posts
    BY <1>4 DEF Targets
  <2>8. slugless'[e] \subseteq {q \in Targets(drafts[e]) : ~Skips(drafts[e][q])'}
    BY <1>1, <1>5, <2>3 DEF SlugsAreFound
  <2>9. ASSUME NEW q \in Targets(drafts[e])
        PROVE  /\ drafts'[e][q].title \in Titles
               /\ drafts'[e][q].new \/ drafts'[e][q].slug = Sees(e)'[q].slug
               /\ ~Done(e, q)' => resolved'[e][q] = drafts'[e][q].slug
               /\ Done(e, q)' =>
                     /\ resolved'[e][q] # NoSlug
                     /\ \A r \in Posts \ {q} :
                           /\ Sees(e)'[r].slug = resolved'[e][q] => resolved'[e][q] \in arrived'[e]
                           /\ Done(e, r)' => resolved'[e][r] # resolved'[e][q]
    <3>1. /\ drafts[e][q].title \in Titles
          /\ drafts[e][q].new \/ drafts[e][q].slug = Sees(e)[q].slug
          /\ ~Done(e, q) => resolved[e][q] = drafts[e][q].slug
          /\ Done(e, q) =>
                /\ resolved[e][q] # NoSlug
                /\ \A r \in Posts \ {q} :
                      /\ Sees(e)[r].slug = resolved[e][q] => resolved[e][q] \in arrived[e]
                      /\ Done(e, r) => resolved[e][r] # resolved[e][q]
      BY <1>1, <2>9 DEF SlugsAreFound
    <3>2. CASE q = p
      BY <1>4, <1>5, <1>7, <2>2, <2>4, <2>5, <2>6, <3>1, <3>2
    <3>3. CASE q # p
      <4>1. q \in Posts /\ resolved'[e][q] = resolved[e][q] /\ (Done(e, q)' <=> Done(e, q))
        BY <1>5, <2>4, <2>7, <3>3
      <4>2. ASSUME Done(e, q), NEW r \in Posts \ {q}
            PROVE  /\ Sees(e)'[r].slug = resolved'[e][q] => resolved'[e][q] \in arrived'[e]
                   /\ Done(e, r)' => resolved'[e][r] # resolved'[e][q]
        BY <1>5, <1>7, <2>4, <2>5, <3>1, <4>1, <4>2
      <4> QED
        BY <1>4, <1>7, <3>1, <4>1, <4>2
    <3> QED
      BY <3>2, <3>3
  <2> QED
    BY <2>7, <2>8, <2>9 DEF SlugsAreFound
<1>10. ASSUME NEW x \in Editors \ {e} PROVE SlugsAreFound(x)'
  BY <1>1, <1>4, <1>5, <1>7, FlushGoesOn
<1> QED
  BY <1>1, <1>4, <1>6, <1>8, <1>9, <1>10 DEF SlugsInv

LEMMA FlushWritten ==
  ASSUME SlugsInv, NEW e \in Editors, Write(e)
  PROVE  SlugsInv'
<1>1. SlugShapes /\ RowsAreApart /\ SlugsAreApart /\ (\A x \in Editors : SlugsAreFound(x)) /\ clashes = 0
  BY DEF SlugsInv
<1>2. /\ slugless[e] = {} /\ ~MustWait(e) /\ Clashing(e) = {}
      /\ unwritten' = [unwritten EXCEPT ![e] =
            [p \in Posts |-> IF p \in Targets(drafts[e]) THEN Inserted(e)[p] ELSE @[p]]]
      /\ drafts' = [drafts EXCEPT ![e] = NoDrafts]
      /\ resolved' = [resolved EXCEPT ![e] = SlugsOfNone]
      /\ arrived' = [arrived EXCEPT ![e] = {}]
      /\ updates' = updates /\ posts' = posts /\ slugless' = slugless /\ clashes' = clashes
  BY DEF Write
<1>3. /\ drafts'[e] = NoDrafts /\ slugless'[e] = {} /\ resolved'[e] = SlugsOfNone
      /\ unwritten'[e] = [p \in Posts |-> IF p \in Targets(drafts[e]) THEN Inserted(e)[p]
                                                                     ELSE unwritten[e][p]]
      /\ \A x \in Editors \ {e} : /\ drafts'[x] = drafts[x] /\ resolved'[x] = resolved[x]
                                  /\ unwritten'[x] = unwritten[x] /\ arrived'[x] = arrived[x]
                                  /\ slugless'[x] = slugless[x]
  BY <1>1, <1>2 DEF SlugShapes
<1>4. SlugShapes'
  <2>1. NoDrafts = [p \in Posts |-> NoDrafts[p]] /\ SlugsOfNone = [p \in Posts |-> SlugsOfNone[p]]
    BY DEF NoDrafts, SlugsOfNone
  <2> QED
    BY <1>1, <1>2, <1>3, <2>1 DEF SlugShapes
<1>5. \A p \in Posts :
        /\ p \in Targets(drafts[e]) <=> drafts[e][p] # NoPost
        /\ p \in Targets(drafts[e]) => /\ unwritten'[e][p] = Inserted(e)[p]
                                       /\ Inserted(e)[p].slug = resolved[e][p]
        /\ p \notin Targets(drafts[e]) => /\ unwritten'[e][p] = unwritten[e][p]
                                          /\ Inserted(e)[p] = Sees(e)[p]
  BY <1>3 DEF Targets, Inserted
<1>6. \A p \in Posts : /\ Sees(e)'[p] = Inserted(e)[p]
                       /\ p \in Targets(drafts[e]) => unwritten'[e][p] # NoPost
  <2> SUFFICES ASSUME NEW p \in Posts
               PROVE  /\ Sees(e)'[p] = Inserted(e)[p]
                      /\ p \in Targets(drafts[e]) => unwritten'[e][p] # NoPost
    OBVIOUS
  <2>1. CASE p \in Targets(drafts[e])
    <3>1. Inserted(e)[p].title = drafts[e][p].title /\ drafts[e][p].title \in Titles
      BY <1>1, <2>1 DEF Inserted, SlugsAreFound
    <3>2. Inserted(e)[p] # NoPost
      BY <3>1, SlugsAssumption DEF NoPost
    <3> QED
      BY <1>5, <2>1, <3>2 DEF Sees
  <2>2. CASE p \notin Targets(drafts[e])
    BY <1>2, <1>5, <2>2 DEF Sees
  <2> QED
    BY <2>1, <2>2
<1>7. ASSUME NEW p \in Posts, NEW q \in Posts, p # q, Inserted(e)[p].slug = Inserted(e)[q].slug
      PROVE  Inserted(e)[p].slug = NoSlug
  <2>1. \A r \in Targets(drafts[e]) : \A u \in Posts \ {r} :
           Inserted(e)[r].slug = Inserted(e)[u].slug => Inserted(e)[r].slug = NoSlug
    BY <1>2 DEF Clashing
  <2>2. CASE p \in Targets(drafts[e]) \/ q \in Targets(drafts[e])
    BY <1>7, <2>1, <2>2
  <2>3. CASE p \notin Targets(drafts[e]) /\ q \notin Targets(drafts[e])
    BY <1>1, <1>5, <1>7, <2>3 DEF SlugsAreApart, Distinct
  <2> QED
    BY <2>2, <2>3
<1>8. \A x \in Editors \ {e} : Sees(x)' = Sees(x)
  BY <1>2, <1>3 DEF Sees
<1>9. ASSUME NEW x \in Editors \ {e}, NEW p \in Posts, NEW q \in Posts,
             unwritten'[e][p] # NoPost, unwritten[x][q] # NoPost,
             unwritten'[e][p].slug = unwritten[x][q].slug
      PROVE  unwritten'[e][p].slug = NoSlug
  <2>1. CASE p \in Targets(drafts[e])
    BY <1>2, <1>5, <1>9, <2>1 DEF MustWait
  <2>2. CASE p \notin Targets(drafts[e])
    BY <1>1, <1>5, <1>9, <2>2 DEF SlugsAreApart
  <2> QED
    BY <2>1, <2>2
<1>10. Distinct(posts)' /\ \A x \in Editors : Distinct(Sees(x))'
  <2>1. Distinct(posts)'
    BY <1>1, <1>2 DEF SlugsAreApart, Distinct
  <2>2. Distinct(Sees(e))'
    BY <1>6, <1>7 DEF Distinct
  <2>3. ASSUME NEW x \in Editors \ {e} PROVE Distinct(Sees(x))'
    BY <1>1, <1>8 DEF SlugsAreApart, Distinct
  <2> QED
    BY <2>1, <2>2, <2>3
<1>11. SlugsAreApart'
  <2> SUFFICES ASSUME NEW x \in Editors, NEW y \in Editors, x # y, NEW p \in Posts, NEW q \in Posts,
                      unwritten'[x][p] # NoPost, unwritten'[y][q] # NoPost,
                      unwritten'[x][p].slug = unwritten'[y][q].slug
               PROVE  unwritten'[x][p].slug = NoSlug
    BY <1>10 DEF SlugsAreApart
  <2>1. CASE x = e
    BY <1>3, <1>9, <2>1
  <2>2. CASE y = e
    BY <1>3, <1>9, <2>2
  <2>3. CASE x # e /\ y # e
    BY <1>1, <1>3, <2>3 DEF SlugsAreApart
  <2> QED
    BY <2>1, <2>2, <2>3
<1>12. RowsAreApart'
  <2>1. \A p : drafts'[e][p] # NoPost => p \notin Posts
    BY <1>3 DEF NoDrafts
  <2> QED
    BY <1>1, <1>3, <1>5, <2>1 DEF RowsAreApart
<1>13. SlugsAreFound(e)'
  BY <1>3, NothingToFlush
<1>14. ASSUME NEW x \in Editors \ {e} PROVE SlugsAreFound(x)'
  BY <1>1, <1>2, <1>3, <1>8, FlushGoesOn
<1> QED
  BY <1>1, <1>2, <1>4, <1>11, <1>12, <1>13, <1>14 DEF SlugsInv

\* Of the rows that clash, one is excused.
LEMMA ClashIsRace ==
  ASSUME SlugsInv, NEW e \in Editors, slugless[e] = {}, NEW p \in Clashing(e)
  PROVE  \E r \in Clashing(e) : \/ resolved[e][r] \in arrived[e]
                                \/ GivenByHand(e, resolved[e][r])
<1>1. SlugsAreFound(e) /\ Distinct(Sees(e))
  BY DEF SlugsInv, SlugsAreApart
<1>2. PICK q \in Posts \ {p} :
        Inserted(e)[p].slug \in {Inserted(e)[q].slug, Sees(e)[q].slug} \ {NoSlug}
  BY DEF Clashing
<1>3. PICK s : s = Inserted(e)[p].slug
  OBVIOUS
<1>4. /\ p \in Targets(drafts[e]) /\ p \in Posts /\ resolved[e][p] = s /\ s # NoSlug
      /\ \A r \in Posts : /\ r \in Targets(drafts[e]) => Inserted(e)[r].slug = resolved[e][r]
                          /\ r \notin Targets(drafts[e]) => Inserted(e)[r] = Sees(e)[r]
  BY <1>2, <1>3 DEF Clashing, Targets, Inserted
<1>5. ASSUME NEW r \in Targets(drafts[e]), ~Done(e, r), resolved[e][r] = s
      PROVE  Sees(e)[r].slug = s \/ GivenByHand(e, s)
  <2>1. drafts[e][r].slug = s
    BY <1>1, <1>5 DEF SlugsAreFound
  <2>2. CASE drafts[e][r].new
    BY <1>5, <2>1, <2>2 DEF GivenByHand
  <2>3. CASE ~drafts[e][r].new
    BY <1>1, <1>5, <2>1, <2>3 DEF SlugsAreFound
  <2> QED
    BY <2>2, <2>3
<1>6. CASE Sees(e)[q].slug = s
  <2>1. CASE Done(e, p)
    BY <1>1, <1>4, <1>6, <2>1 DEF SlugsAreFound
  <2>2. CASE ~Done(e, p)
    BY <1>1, <1>4, <1>5, <1>6, <2>2 DEF Distinct
  <2> QED
    BY <2>1, <2>2
<1>7. CASE Sees(e)[q].slug # s
  <2>1. q \in Targets(drafts[e]) /\ resolved[e][q] = s
    BY <1>2, <1>3, <1>4, <1>7
  <2>2. q \in Clashing(e)
    BY <1>2, <1>3, <1>4, <2>1 DEF Clashing
  <2>3. CASE ~Done(e, q)
    BY <1>4, <1>5, <1>7, <2>1, <2>3
  <2>4. CASE Done(e, q) /\ Done(e, p)
    BY <1>1, <1>4, <2>1, <2>4 DEF SlugsAreFound
  <2>5. CASE Done(e, q) /\ ~Done(e, p)
    <3>1. CASE GivenByHand(e, s)
      BY <1>4, <3>1
    <3>2. CASE ~GivenByHand(e, s)
      <4>1. Sees(e)[p].slug = s
        BY <1>4, <1>5, <2>5, <3>2
      <4>2. resolved[e][q] \in arrived[e]
        BY <1>1, <1>2, <1>4, <2>1, <2>5, <4>1 DEF SlugsAreFound
      <4> QED
        BY <2>2, <4>2
    <3> QED
      BY <3>1, <3>2
  <2> QED
    BY <2>3, <2>4, <2>5
<1> QED
  BY <1>6, <1>7

\* A transaction that ends without a commit leaves the committed rows.
LEMMA Undone ==
  ASSUME SlugsInv, NEW e \in Editors,
         unwritten' = [unwritten EXCEPT ![e] = NoDrafts],
         drafts' = drafts \/ drafts' = [drafts EXCEPT ![e] = NoDrafts],
         resolved' = resolved \/ resolved' = [resolved EXCEPT ![e] = SlugsOfNone],
         arrived' = arrived \/ arrived' = [arrived EXCEPT ![e] = {}],
         drafts'[e] = NoDrafts, slugless[e] = {},
         updates' = updates, posts' = posts, slugless' = slugless, clashes' = 0
  PROVE  SlugsInv'
<1>1. SlugShapes /\ RowsAreApart /\ SlugsAreApart /\ (\A x \in Editors : SlugsAreFound(x))
  BY DEF SlugsInv
<1>2. /\ unwritten'[e] = NoDrafts
      /\ \A x \in Editors \ {e} : /\ drafts'[x] = drafts[x] /\ resolved'[x] = resolved[x]
                                  /\ unwritten'[x] = unwritten[x] /\ arrived'[x] = arrived[x]
  BY <1>1 DEF SlugShapes
<1>3. \A p \in Posts : NoDrafts[p] = NoPost
  BY DEF NoDrafts
<1>4. SlugShapes'
  <2>1. NoDrafts = [p \in Posts |-> NoDrafts[p]] /\ SlugsOfNone = [p \in Posts |-> SlugsOfNone[p]]
    BY DEF NoDrafts, SlugsOfNone
  <2>2. resolved' = [x \in Editors |-> resolved'[x]] /\ resolved'[e] = [p \in Posts |-> resolved'[e][p]]
    BY <1>1, <2>1 DEF SlugShapes
  <2>3. /\ drafts' = [x \in Editors |-> drafts'[x]] /\ arrived' = [x \in Editors |-> arrived'[x]]
        /\ unwritten' = [x \in Editors |-> unwritten'[x]]
        /\ posts' = [p \in Posts |-> posts'[p]] /\ slugless' = [x \in Editors |-> slugless'[x]]
    BY <1>1 DEF SlugShapes
  <2>4. ASSUME NEW x \in Editors
        PROVE  /\ drafts'[x] = [p \in Posts |-> drafts'[x][p]]
               /\ unwritten'[x] = [p \in Posts |-> unwritten'[x][p]]
               /\ resolved'[x] = [p \in Posts |-> resolved'[x][p]]
    <3>1. CASE x = e
      BY <1>2, <2>1, <2>2, <3>1
    <3>2. CASE x # e
      <4>1. /\ drafts[x] = [p \in Posts |-> drafts[x][p]]
            /\ unwritten[x] = [p \in Posts |-> unwritten[x][p]]
            /\ resolved[x] = [p \in Posts |-> resolved[x][p]]
        BY <1>1 DEF SlugShapes
      <4>2. drafts'[x] = drafts[x] /\ unwritten'[x] = unwritten[x] /\ resolved'[x] = resolved[x]
        BY <1>2, <3>2
      <4> QED
        BY <4>1, <4>2
    <3> QED
      BY <3>1, <3>2
  <2> QED
    BY <2>2, <2>3, <2>4 DEF SlugShapes
<1>5. RowsAreApart'
  BY <1>1, <1>2, <1>3 DEF RowsAreApart
<1>6. Sees(e)' = posts /\ \A x \in Editors \ {e} : Sees(x)' = Sees(x)
  BY <1>1, <1>2, <1>3 DEF Sees, SlugShapes
<1>7. SlugsAreApart'
  <2>1. Distinct(posts)' /\ Distinct(Sees(e))'
    BY <1>1, <1>6 DEF SlugsAreApart, Distinct
  <2>2. ASSUME NEW x \in Editors \ {e} PROVE Distinct(Sees(x))'
    BY <1>1, <1>6 DEF SlugsAreApart, Distinct
  <2> QED
    BY <1>1, <1>2, <1>3, <2>1, <2>2 DEF SlugsAreApart
<1>8. SlugsAreFound(e)'
  BY NothingToFlush
<1>9. ASSUME NEW x \in Editors \ {e} PROVE SlugsAreFound(x)'
  BY <1>1, <1>2, <1>6, FlushGoesOn
<1> QED
  BY <1>4, <1>5, <1>7, <1>8, <1>9 DEF SlugsInv

LEMMA FlushClashes ==
  ASSUME SlugsInv, NEW e \in Editors, Clash(e)
  PROVE  SlugsInv'
<1>1. clashes' = 0
  <2>1. \E r \in Clashing(e) : resolved[e][r] \in arrived[e] \/ GivenByHand(e, resolved[e][r])
    BY ClashIsRace DEF Clash
  <2> QED
    BY <2>1 DEF Clash, SlugsInv
<1>2. drafts'[e] = NoDrafts
  BY DEF Clash, SlugsInv, SlugShapes
<1> QED
  BY <1>1, <1>2, Undone DEF Clash

LEMMA NotFlushing ==
  ASSUME SlugsInv, NEW e \in Editors, ~Flushes(e)
  PROVE  drafts[e] = NoDrafts /\ slugless[e] = {}
BY Emptied DEF Flushes, SlugsInv, SlugsAreFound

LEMMA PostsRolledBack ==
  ASSUME SlugsInv, NEW e \in Editors, RollBackPosts(e)
  PROVE  SlugsInv'
BY NotFlushing, Undone DEF RollBackPosts, SlugsInv

LEMMA Committed ==
  ASSUME SlugsInv, NEW e \in Editors, CommitPosts(e)
  PROVE  SlugsInv'
<1>1. SlugShapes /\ RowsAreApart /\ SlugsAreApart /\ (\A x \in Editors : SlugsAreFound(x)) /\ clashes = 0
  BY DEF SlugsInv
<1>2. /\ posts' = Sees(e) /\ drafts[e] = NoDrafts /\ slugless[e] = {}
      /\ arrived' = [x \in Editors |->
             IF ~Flushes(x) THEN {} ELSE arrived[x] \cup SlugsOf(unwritten[e], Posts)]
      /\ unwritten' = [unwritten EXCEPT ![e] = NoDrafts]
      /\ updates' = updates /\ drafts' = drafts /\ slugless' = slugless
      /\ resolved' = resolved /\ clashes' = clashes
  BY NotFlushing DEF CommitPosts
<1>3. /\ unwritten'[e] = NoDrafts
      /\ \A x \in Editors \ {e} : unwritten'[x] = unwritten[x]
  BY <1>1, <1>2 DEF SlugShapes
<1>4. \A p \in Posts : NoDrafts[p] = NoPost
  BY DEF NoDrafts
<1>5. SlugShapes'
  <2>1. NoDrafts = [p \in Posts |-> NoDrafts[p]]
    BY DEF NoDrafts
  <2>2. posts' = [p \in Posts |-> posts'[p]]
    BY <1>2 DEF Sees
  <2> QED
    BY <1>1, <1>2, <1>3, <2>1, <2>2 DEF SlugShapes
<1>6. RowsAreApart'
  BY <1>1, <1>2, <1>3, <1>4 DEF RowsAreApart
<1>7. \A p \in Posts : /\ Sees(e)'[p] = Sees(e)[p]
                       /\ \A x \in Editors \ {e} :
                             Sees(x)'[p] = IF unwritten[x][p] # NoPost THEN unwritten[x][p] ELSE Sees(e)[p]
  BY <1>2, <1>3, <1>4 DEF Sees
<1>8. \A x \in Editors, p \in Posts :
        Sees(x)[p] = IF unwritten[x][p] # NoPost THEN unwritten[x][p] ELSE posts[p]
  BY DEF Sees
<1>9. ASSUME NEW x \in Editors \ {e} PROVE Distinct(Sees(x))'
  <2> SUFFICES ASSUME NEW p \in Posts, NEW q \in Posts, p # q, Sees(x)'[p].slug = Sees(x)'[q].slug
               PROVE  Sees(x)'[p].slug = NoSlug
    BY DEF Distinct
  <2>1. Distinct(Sees(e)) /\ Distinct(Sees(x))
    BY <1>1 DEF SlugsAreApart
  <2>2. CASE unwritten[x][p] # NoPost /\ unwritten[e][q] # NoPost /\ unwritten[x][q] = NoPost
    BY <1>1, <1>7, <1>8, <2>2 DEF SlugsAreApart
  <2>3. CASE unwritten[x][q] # NoPost /\ unwritten[e][p] # NoPost /\ unwritten[x][p] = NoPost
    BY <1>1, <1>7, <1>8, <2>3 DEF SlugsAreApart
  <2>4. CASE (unwritten[x][p] # NoPost \/ unwritten[e][p] = NoPost)
             /\ (unwritten[x][q] # NoPost \/ unwritten[e][q] = NoPost)
    BY <1>7, <1>8, <2>1, <2>4 DEF Distinct
  <2>5. CASE unwritten[x][p] = NoPost /\ unwritten[x][q] = NoPost
    BY <1>7, <2>1, <2>5 DEF Distinct
  <2> QED
    BY <2>2, <2>3, <2>4, <2>5
<1>10. SlugsAreApart'
  <2>1. Distinct(posts)' /\ Distinct(Sees(e))'
    BY <1>1, <1>2, <1>7 DEF SlugsAreApart, Distinct
  <2> QED
    BY <1>1, <1>3, <1>4, <1>9, <2>1 DEF SlugsAreApart
<1>11. SlugsAreFound(e)'
  BY <1>2, NothingToFlush
<1>12. ASSUME NEW x \in Editors \ {e} PROVE SlugsAreFound(x)'
  <2>1. drafts[x] # NoDrafts => arrived'[x] = arrived[x] \cup SlugsOf(unwritten[e], Posts)
    BY <1>2 DEF Flushes
  <2>2. ASSUME NEW q \in Posts, Sees(x)'[q] # Sees(x)[q]
        PROVE  /\ drafts[x][q] = NoPost
               /\ \/ Sees(x)'[q].slug = NoSlug
                  \/ drafts[x] # NoDrafts => Sees(x)'[q].slug \in arrived'[x]
    <3>1. unwritten[e][q] # NoPost /\ Sees(x)'[q] = unwritten[e][q]
      BY <1>7, <1>8, <2>2
    <3>2. drafts[x][q] = NoPost
      BY <1>1, <3>1 DEF RowsAreApart
    <3>3. Sees(x)'[q].slug = NoSlug \/ Sees(x)'[q].slug \in SlugsOf(unwritten[e], Posts)
      BY <3>1 DEF SlugsOf
    <3> QED
      BY <2>1, <3>2, <3>3
  <2> QED
    BY <1>1, <1>2, <2>1, <2>2, FlushGoesOn
<1> QED
  BY <1>1, <1>2, <1>5, <1>6, <1>10, <1>11, <1>12 DEF SlugsInv

LEMMA Removed ==
  ASSUME SlugsInv, NEW p \in Posts, RemovePost(p)
  PROVE  SlugsInv'
<1>1. SlugShapes /\ RowsAreApart /\ SlugsAreApart /\ (\A x \in Editors : SlugsAreFound(x)) /\ clashes = 0
  BY DEF SlugsInv
<1>2. /\ \A x \in Editors : drafts[x][p] = NoPost /\ unwritten[x][p] = NoPost
      /\ posts' = [posts EXCEPT ![p] = NoPost]
      /\ updates' = updates /\ drafts' = drafts /\ slugless' = slugless /\ resolved' = resolved
      /\ unwritten' = unwritten /\ arrived' = arrived /\ clashes' = clashes
  BY DEF RemovePost
<1>3. NoPost.slug = NoSlug
  BY DEF NoPost
<1>4. \A q \in Posts : posts'[q] = IF q = p THEN NoPost ELSE posts[q]
  BY <1>1, <1>2 DEF SlugShapes
<1>5. \A x \in Editors, q \in Posts : Sees(x)'[q] = IF q = p THEN NoPost ELSE Sees(x)[q]
  BY <1>2, <1>4 DEF Sees
<1>6. SlugShapes' /\ RowsAreApart'
  BY <1>1, <1>2 DEF SlugShapes, RowsAreApart
<1>7. SlugsAreApart'
  BY <1>1, <1>2, <1>3, <1>4, <1>5 DEF SlugsAreApart, Distinct
<1>8. ASSUME NEW x \in Editors PROVE SlugsAreFound(x)'
  BY <1>1, <1>2, <1>3, <1>5, FlushGoesOn
<1> QED
  BY <1>1, <1>2, <1>6, <1>7, <1>8 DEF SlugsInv

LEMMA SlugsStep == SlugsInv /\ [SlugsNext]_slugs => SlugsInv'
<1> SUFFICES ASSUME SlugsInv, [SlugsNext]_slugs PROVE SlugsInv'
  OBVIOUS
<1>1. CASE UNCHANGED slugs
  <2>1. /\ updates' = updates /\ posts' = posts /\ drafts' = drafts /\ slugless' = slugless
        /\ resolved' = resolved /\ unwritten' = unwritten /\ arrived' = arrived /\ clashes' = clashes
    BY <1>1 DEF slugs
  <2>2. \A x : Sees(x)' = Sees(x)
    BY <2>1 DEF Sees
  <2>3. SlugShapes' /\ RowsAreApart' /\ SlugsAreApart'
    BY <2>1, <2>2 DEF SlugsInv, SlugShapes, RowsAreApart, SlugsAreApart, Distinct
  <2>4. ASSUME NEW x \in Editors PROVE SlugsAreFound(x)'
    BY <2>1, <2>2, FlushGoesOn DEF SlugsInv
  <2> QED
    BY <2>1, <2>3, <2>4 DEF SlugsInv
<1> QED
  BY <1>1, FlushBegins, SlugGiven, FlushWritten, FlushClashes, Committed, PostsRolledBack, Removed
     DEF SlugsNext

\* ClashesAreRaces: a flush fails on the unique slug only because another session
\* committed that slug after it looked, or because it was given by hand.
\* (_on_before_flush and make_unique_slug.)
THEOREM SlugsClashOnlyInRaces == Spec => []ClashesAreRaces
<1>1. Init => SlugsInv
  BY SlugsStart DEF Init
<1>2. SlugsInv /\ [Next]_vars => SlugsInv'
  BY SlugsStep DEF Next, InMachine, vars
<1>3. SlugsInv => ClashesAreRaces
  BY DEF SlugsInv, ClashesAreRaces
<1> QED
  BY <1>1, <1>2, <1>3, PTL DEF Spec

-----------------------------------------------------------------------------
(* Pagination.                                                              *)

\* The least-number principle: what holds of some numbers holds of a least one.
LEMMA LeastNatural ==
  ASSUME NEW T, T \subseteq Nat, T # {}
  PROVE  \E n \in T : \A m \in T : n <= m
<1>1. PICK n \in T : \A m \in T : <<m, n>> \notin OpToRel(<, Nat)
  BY NatLessThanWellFounded, WFMin
<1>2. \A m \in T : ~(m < n)
  BY <1>1 DEF OpToRel
<1>3. n \in Nat /\ \A m \in T : m \in Nat
  OBVIOUS
<1>4. \A m \in T : n <= m
  BY <1>2, <1>3
<1> QED
  BY <1>4

\* The columns of a listing name the id.
HasId(columns) ==
    columns \in Seq(Column) /\ \E n \in 1..Len(columns) : columns[n].name = "id"

Numbers(p, columns) == \A n \in 1..Len(columns) : p[n] \in Nat

\* Entries that come before copy c of row i.
Listed == Entries(Stands, listing.joins)
Sooners(i, c) ==
    {f \in Listed :
        \/ Before(PlaceOf(f[1], listing.sort), PlaceOf(i, listing.sort), listing.sort)
        \/ f[1] = i /\ f[2] < c}
Shown(i, n) == {c \in Hits : <<i, c>> \in Listed /\ Cardinality(Sooners(i, c)) < n}

\* A cursor has shown the rows up to its own.
CursorSaw ==
    /\ place = <<>> \/ Numbers(place, listing.sort)
    /\ \A i \in Stands \ touched :
          IF Copies(i, listing.joins) = 0 \/ (~ended /\ i \in AfterCursor) THEN seen[i] = 0
          ELSE seen[i] \in 1..Copies(i, listing.joins)

\* An offset has shown the entries before it.
OffsetSaw ==
    /\ place = <<>> \/ \E n \in Nat : place = <<n>>
    /\ touched = {} => /\ \A i \in Stands : seen[i] = Cardinality(Shown(i, Start))
                       /\ ended => Cardinality(Listed) <= Start

PagingInv ==
    /\ items \in [Items -> Item \cup {NoItem}]
    /\ seen \in [Items -> Nat]
    /\ listing = Unasked =>
          place = <<>> /\ touched = {} /\ ~ended /\ \A i \in Items : seen[i] = 0
    /\ Ordered =>
          /\ HasId(listing.sort) /\ listing.by \in {"cursor", "offset"}
          /\ listing.by = "cursor" => CursorSaw
          /\ listing.by = "offset" => OffsetSaw

-----------------------------------------------------------------------------
(* The order of a listing.                                                  *)

LEMMA ItemTypes ==
  ASSUME items \in [Items -> Item \cup {NoItem}], NEW i \in Items
  PROVE  i \in Nat /\ items[i].key \in 0..2 /\ items[i].hits \in Hits /\ \A j : Copies(i, j) \in Hits
<1>1. items[i] \in Item \cup {NoItem}
  OBVIOUS
<1>2. items[i].key \in 0..2 /\ items[i].hits \in 0..2
  BY <1>1 DEF Item, NoItem, Hits
<1> QED
  BY <1>2, PagingAssumption DEF Copies, Hits

LEMMA Places ==
  ASSUME items \in [Items -> Item \cup {NoItem}], NEW i \in Items, NEW columns, HasId(columns)
  PROVE  /\ Len(columns) \in Nat \ {0} /\ Numbers(PlaceOf(i, columns), columns)
         /\ PlaceOf(i, columns) # <<>>
         /\ \A n \in 1..Len(columns) :
               PlaceOf(i, columns)[n] = IF columns[n].name = "id" THEN i ELSE items[i].key
<1>1. Len(columns) \in Nat \ {0}
  BY DEF HasId
<1>2. \A n \in 1..Len(columns) :
         PlaceOf(i, columns)[n] = IF columns[n].name = "id" THEN i ELSE items[i].key
  BY DEF PlaceOf, ColumnOf
<1>3. Numbers(PlaceOf(i, columns), columns)
  BY <1>2, ItemTypes DEF Numbers
<1>4. 1 \in DOMAIN PlaceOf(i, columns)
  BY <1>1 DEF PlaceOf
<1> QED
  BY <1>1, <1>2, <1>3, <1>4

LEMMA FirstDifference ==
  ASSUME NEW N \in Nat, NEW p, NEW q, NEW k \in 1..N, p[k] # q[k]
  PROVE  \E n \in 1..N : p[n] # q[n] /\ \A m \in 1..(n - 1) : p[m] = q[m]
<1>1. PICK T : T = {n \in 1..N : p[n] # q[n]}
  OBVIOUS
<1>2. T \subseteq Nat /\ T # {}
  BY <1>1
<1>3. PICK n \in T : \A m \in T : n <= m
  BY <1>2, LeastNatural
<1>4. n \in 1..N /\ p[n] # q[n]
  BY <1>1
<1>5. \A m \in 1..(n - 1) : m \in 1..N /\ m \notin T
  BY <1>1, <1>2, <1>3, <1>4
<1> QED
  BY <1>1, <1>4, <1>5

\* Rows never compare equal.
LEMMA BeforeIsTotal ==
  ASSUME items \in [Items -> Item \cup {NoItem}], NEW columns, HasId(columns),
         NEW i \in Items, NEW j \in Items, i # j
  PROVE  \/ Before(PlaceOf(i, columns), PlaceOf(j, columns), columns)
         \/ Before(PlaceOf(j, columns), PlaceOf(i, columns), columns)
<1>1. PICK p, q : p = PlaceOf(i, columns) /\ q = PlaceOf(j, columns)
  OBVIOUS
<1>2. Numbers(p, columns) /\ Numbers(q, columns) /\ Len(columns) \in Nat
  BY <1>1, Places
<1>3. PICK k \in 1..Len(columns) : columns[k].name = "id"
  BY DEF HasId
<1>4. p[k] = i /\ q[k] = j
  BY <1>1, <1>3, Places
<1>5. PICK n \in 1..Len(columns) : p[n] # q[n] /\ \A m \in 1..(n - 1) : p[m] = q[m]
  <2>1. p[k] # q[k]
    BY <1>4
  <2>2. PICK N \in Nat : N = Len(columns)
    BY <1>2
  <2>3. k \in 1..N
    BY <1>3, <2>2
  <2>4. \E n \in 1..N : p[n] # q[n] /\ \A m \in 1..(n - 1) : p[m] = q[m]
    BY <2>1, <2>3, FirstDifference
  <2> QED
    BY <2>2, <2>4
<1>6. p[n] \in Nat /\ q[n] \in Nat
  BY <1>2 DEF Numbers
<1>7. p[n] < q[n] \/ q[n] < p[n]
  BY <1>5, <1>6
<1> QED
  BY <1>1, <1>5, <1>6, <1>7 DEF Before

LEMMA BeforeIsTransitive ==
  ASSUME NEW columns, Len(columns) \in Nat, NEW p, NEW q, NEW r,
         Numbers(p, columns), Numbers(q, columns), Numbers(r, columns),
         Before(p, q, columns), Before(q, r, columns)
  PROVE  Before(p, r, columns)
<1>1. PICK m \in 1..Len(columns) :
        /\ \A k \in 1..(m - 1) : p[k] = q[k]
        /\ IF columns[m].desc THEN p[m] > q[m] ELSE p[m] < q[m]
  BY DEF Before
<1>2. PICK n \in 1..Len(columns) :
        /\ \A k \in 1..(n - 1) : q[k] = r[k]
        /\ IF columns[n].desc THEN q[n] > r[n] ELSE q[n] < r[n]
  BY DEF Before
<1>3. /\ p[m] \in Nat /\ q[m] \in Nat /\ r[m] \in Nat
      /\ p[n] \in Nat /\ q[n] \in Nat /\ r[n] \in Nat
  BY DEF Numbers
<1>4. CASE m < n
  <2>1. q[m] = r[m] /\ \A k \in 1..(m - 1) : p[k] = r[k]
    BY <1>1, <1>2, <1>4
  <2> QED
    BY <1>1, <2>1 DEF Before
<1>5. CASE n < m
  <2>1. p[n] = q[n] /\ \A k \in 1..(n - 1) : p[k] = r[k]
    BY <1>1, <1>2, <1>5
  <2> QED
    BY <1>2, <2>1 DEF Before
<1>6. CASE m = n
  <2>1. \A k \in 1..(m - 1) : p[k] = r[k]
    BY <1>1, <1>2, <1>6
  <2>2. IF columns[m].desc THEN p[m] > r[m] ELSE p[m] < r[m]
    BY <1>1, <1>2, <1>3, <1>6
  <2> QED
    BY <2>1, <2>2 DEF Before
<1> QED
  BY <1>4, <1>5, <1>6

LEMMA NotBeforeItself ==
  ASSUME NEW columns, Len(columns) \in Nat, NEW p, Numbers(p, columns)
  PROVE  ~Before(p, p, columns)
BY DEF Before, Numbers

\* The one order of a listing.
LEMMA OrderIsBefore ==
  ASSUME items \in [Items -> Item \cup {NoItem}], NEW columns, HasId(columns),
         NEW S, S \subseteq Items, NEW o \in Orders(S, columns), NEW i \in S, NEW j \in S
  PROVE  /\ o[i] \in Nat /\ o[j] \in Nat
         /\ o[i] < o[j] <=> Before(PlaceOf(i, columns), PlaceOf(j, columns), columns)
<1>1. IsFiniteSet(S) /\ Cardinality(S) \in Nat
  BY PagingAssumption, FS_Subset, FS_CardinalityType
<1>2. /\ o[i] \in 1..Cardinality(S) /\ o[j] \in 1..Cardinality(S) /\ (i # j => o[i] # o[j])
      /\ Before(PlaceOf(i, columns), PlaceOf(j, columns), columns) => o[i] < o[j]
      /\ Before(PlaceOf(j, columns), PlaceOf(i, columns), columns) => o[j] < o[i]
  BY DEF Orders
<1>3. CASE i = j
  BY <1>1, <1>2, <1>3, Places, NotBeforeItself
<1>4. CASE i # j
  <2>1. \/ Before(PlaceOf(i, columns), PlaceOf(j, columns), columns)
        \/ Before(PlaceOf(j, columns), PlaceOf(i, columns), columns)
    BY <1>4, BeforeIsTotal
  <2> QED
    BY <1>1, <1>2, <2>1
<1> QED
  BY <1>3, <1>4

-----------------------------------------------------------------------------
(* The entries of a listing.                                                *)

LEMMA HitsAreFinite == IsFiniteSet(Hits)
<1>1. 0 \in Int /\ 2 \in Int
  OBVIOUS
<1>2. IsFiniteSet(0..2)
  BY <1>1, FS_Interval
<1> QED
  BY <1>2 DEF Hits

LEMMA EntriesOf ==
  ASSUME items \in [Items -> Item \cup {NoItem}], NEW S, S \subseteq Items, NEW joins
  PROVE  /\ IsFiniteSet(Entries(S, joins)) /\ Cardinality(Entries(S, joins)) \in Nat
         /\ \A e \in Entries(S, joins) : e = <<e[1], e[2]>> /\ e[1] \in S /\ e[2] \in Nat
         /\ \A i, c : <<i, c>> \in Entries(S, joins) <=> i \in S /\ c \in 1..Copies(i, joins)
<1>1. IsFiniteSet(Items \X Hits)
  BY PagingAssumption, HitsAreFinite, FS_Product
<1>2. Entries(S, joins) \subseteq Items \X Hits
  BY DEF Entries
<1>3. IsFiniteSet(Entries(S, joins))
  BY <1>1, <1>2, FS_Subset
<1>4. \A e \in Entries(S, joins) : e = <<e[1], e[2]>> /\ e[1] \in S /\ e[2] \in Nat
  BY DEF Entries, Hits
<1>5. ASSUME NEW i, NEW c PROVE <<i, c>> \in Entries(S, joins) <=> i \in S /\ c \in 1..Copies(i, joins)
  <2>1. i \in S => \A d \in 1..Copies(i, joins) : d \in Hits
    BY ItemTypes DEF Hits
  <2> QED
    BY <2>1 DEF Entries
<1> QED
  BY <1>3, <1>4, <1>5, FS_CardinalityType

\* A row's copies in a set of entries.
LEMMA CopiesOf ==
  ASSUME items \in [Items -> Item \cup {NoItem}], NEW i \in Items, NEW joins, NEW page,
         \A c : <<i, c>> \in page => c \in 1..Copies(i, joins)
  PROVE  LET N == Cardinality({c \in Hits : <<i, c>> \in page}) IN
         /\ N \in 0..Copies(i, joins)
         /\ (\E c : <<i, c>> \in page) => N # 0
         /\ (\A c : <<i, c>> \notin page) => N = 0
         /\ (\A c \in 1..Copies(i, joins) : <<i, c>> \in page) => N = Copies(i, joins)
<1>1. PICK C : C = Copies(i, joins)
  OBVIOUS
<1>2. C \in 0..2
  BY <1>1, ItemTypes DEF Hits
<1>3. PICK T : T = {c \in Hits : <<i, c>> \in page}
  OBVIOUS
<1>4. /\ T \subseteq 1..C /\ \A c : <<i, c>> \in page <=> c \in T
  BY <1>1, <1>2, <1>3 DEF Hits
<1>5. IsFiniteSet(1..C) /\ Cardinality(1..C) = C
  <2>1. C \in Int /\ 1 \in Int
    BY <1>2
  <2>2. IsFiniteSet(1..C) /\ Cardinality(1..C) = IF 1 > C THEN 0 ELSE C - 1 + 1
    BY <2>1, FS_Interval
  <2> QED
    BY <1>2, <2>2
<1>6. IsFiniteSet(T) /\ Cardinality(T) \in Nat /\ Cardinality(T) <= C
  BY <1>4, <1>5, FS_Subset, FS_CardinalityType
<1>7. Cardinality(T) = 0 <=> T = {}
  BY <1>6, FS_EmptySet
<1>8. (\A c \in 1..C : c \in T) => Cardinality(T) = C
  <2>1. (\A c \in 1..C : c \in T) => T = 1..C
    BY <1>4
  <2> QED
    BY <1>5, <2>1
<1>9. /\ Cardinality(T) \in 0..C
      /\ (\E c : <<i, c>> \in page) => Cardinality(T) # 0
      /\ (\A c : <<i, c>> \notin page) => Cardinality(T) = 0
      /\ (\A c \in 1..C : <<i, c>> \in page) => Cardinality(T) = C
  <2>1. Cardinality(T) \in 0..C
    BY <1>2, <1>6
  <2>2. (\E c : <<i, c>> \in page) => Cardinality(T) # 0
    BY <1>4, <1>7
  <2>3. (\A c : <<i, c>> \notin page) => Cardinality(T) = 0
    BY <1>3, <1>7
  <2>4. (\A c \in 1..C : <<i, c>> \in page) => Cardinality(T) = C
    BY <1>4, <1>8
  <2> QED
    BY <2>1, <2>2, <2>3, <2>4
<1> QED
  BY <1>1, <1>3, <1>9

LEMMA AheadIs ==
  ASSUME items \in [Items -> Item \cup {NoItem}], NEW S, S \subseteq Items, NEW joins,
         NEW columns, HasId(columns), NEW o \in Orders(S, columns),
         NEW e \in Entries(S, joins)
  PROVE  /\ Ahead(e, Entries(S, joins), o) \in Nat
         /\ Ahead(e, Entries(S, joins), o) < Cardinality(Entries(S, joins))
         /\ \A f \in Entries(S, joins) : o[e[1]] < o[f[1]] =>
               Ahead(e, Entries(S, joins), o) <= Ahead(f, Entries(S, joins), o)
<1>1. PICK L : L = Entries(S, joins)
  OBVIOUS
<1>2. /\ IsFiniteSet(L) /\ Cardinality(L) \in Nat
      /\ \A f \in L : f[1] \in S /\ f[2] \in Nat /\ o[f[1]] \in Nat
  <2>1. \A f \in L : f[1] \in S /\ f[2] \in Nat
    BY <1>1, EntriesOf
  <2>2. \A i \in S : o[i] \in Nat
    BY OrderIsBefore
  <2> QED
    BY <1>1, <2>1, <2>2, EntriesOf
<1>3. PICK A : A = {f \in L : o[f[1]] < o[e[1]] \/ (f[1] = e[1] /\ f[2] < e[2])}
  OBVIOUS
<1>4. A \subseteq L \ {e} /\ Ahead(e, L, o) = Cardinality(A)
  BY <1>1, <1>2, <1>3 DEF Ahead
<1>5. IsFiniteSet(L \ {e}) /\ Cardinality(L \ {e}) = Cardinality(L) - 1
  BY <1>1, <1>2, FS_RemoveElement
<1>6. Cardinality(A) \in Nat /\ Cardinality(A) <= Cardinality(L) - 1
  BY <1>4, <1>5, FS_Subset, FS_CardinalityType
<1>7. ASSUME NEW f \in L, o[e[1]] < o[f[1]] PROVE Ahead(e, L, o) <= Ahead(f, L, o)
  <2>1. PICK B : B = {g \in L : o[g[1]] < o[f[1]] \/ (g[1] = f[1] /\ g[2] < f[2])}
    OBVIOUS
  <2>2. A \subseteq B
    <3>1. o[e[1]] \in Nat /\ o[f[1]] \in Nat
      BY <1>1, <1>2
    <3>2. \A g \in A : g \in L /\ o[g[1]] \in Nat /\ (o[g[1]] < o[e[1]] \/ g[1] = e[1])
      BY <1>2, <1>3
    <3>3. \A g \in A : o[g[1]] < o[f[1]]
      BY <1>7, <3>1, <3>2
    <3> QED
      BY <2>1, <3>2, <3>3
  <2>3. IsFiniteSet(B) /\ Ahead(f, L, o) = Cardinality(B)
    BY <1>2, <2>1, FS_Subset DEF Ahead
  <2> QED
    BY <1>4, <2>2, <2>3, FS_Subset
<1> QED
  BY <1>1, <1>2, <1>4, <1>6, <1>7

-----------------------------------------------------------------------------
(* A page.                                                                  *)

\* A listing without an order only counts what it shows.
LEMMA DisorderReads ==
  ASSUME PagingInv, ReadPage, ~Ordered
  PROVE  PagingInv'
<1>1. PICK page : Delivers(page)
  BY DEF ReadPage, CursorPage, OffsetPage
<1>2. \A i \in Items : Cardinality({c \in Hits : <<i, c>> \in page}) \in Nat
  BY HitsAreFinite, FS_Subset, FS_CardinalityType
<1>3. seen' \in [Items -> Nat]
  BY <1>1, <1>2 DEF PagingInv, Delivers
<1>4. ~Ordered' /\ listing' # Unasked /\ items' = items
  BY DEF ReadPage, Ordered
<1> QED
  BY <1>3, <1>4 DEF PagingInv

LEMMA CursorReads ==
  ASSUME PagingInv, ReadPage, Ordered, CursorPage
  PROVE  PagingInv'
<1> DEFINE S == AfterCursor
           L == Entries(S, listing.joins)
<1>1. /\ items \in [Items -> Item \cup {NoItem}] /\ seen \in [Items -> Nat]
      /\ listing # Unasked /\ ~ended /\ HasId(listing.sort) /\ listing.by = "cursor" /\ CursorSaw
      /\ items' = items /\ listing' = listing /\ touched' = touched
  BY DEF PagingInv, ReadPage, CursorPage
<1>2. S \subseteq Items /\ S \subseteq Stands /\ Stands \subseteq Items
  BY DEF AfterCursor, Stands
<1>3. PICK o \in Orders(S, listing.sort) :
        LET page == Page(L, o, 0) IN
        /\ Delivers(page) /\ ended' = (Cardinality(L) <= Size)
        /\ \/ page = {} /\ place' = place
           \/ \E last \in page : /\ \A e \in page : o[e[1]] <= o[last[1]]
                                 /\ place' = PlaceOf(last[1], listing.sort)
  BY DEF CursorPage
<1>4. PICK page : page = Page(L, o, 0)
  OBVIOUS
<1>5. /\ \A i \in Items : seen'[i] = seen[i] + Cardinality({c \in Hits : <<i, c>> \in page})
      /\ ended' = (Cardinality(L) <= Size)
      /\ \/ page = {} /\ place' = place
         \/ \E last \in page : /\ \A e \in page : o[e[1]] <= o[last[1]]
                               /\ place' = PlaceOf(last[1], listing.sort)
  BY <1>3, <1>4 DEF Delivers
<1>6. /\ Cardinality(L) \in Nat
      /\ \A e \in L : e = <<e[1], e[2]>> /\ e[1] \in S
      /\ \A i, c : <<i, c>> \in L <=> i \in S /\ c \in 1..Copies(i, listing.joins)
  BY <1>1, <1>2, EntriesOf
<1>7. /\ page \subseteq L /\ Size \in Nat
      /\ \A e \in L : /\ Ahead(e, L, o) \in Nat /\ Ahead(e, L, o) < Cardinality(L)
                      /\ e \in page <=> Ahead(e, L, o) < Size
                      /\ \A f \in L : o[e[1]] < o[f[1]] => Ahead(e, L, o) <= Ahead(f, L, o)
  <2>1. \A e \in L : /\ Ahead(e, L, o) \in Nat /\ Ahead(e, L, o) < Cardinality(L)
                     /\ \A f \in L : o[e[1]] < o[f[1]] => Ahead(e, L, o) <= Ahead(f, L, o)
    BY <1>1, <1>2, AheadIs
  <2> QED
    BY <1>4, <2>1, PagingAssumption DEF Page
<1>8. \A i \in S, j \in S :
        /\ o[i] \in Nat /\ o[j] \in Nat
        /\ o[i] < o[j] <=> Before(PlaceOf(i, listing.sort), PlaceOf(j, listing.sort), listing.sort)
  BY <1>1, <1>2, OrderIsBefore
<1>9. \A i \in Items : /\ Numbers(PlaceOf(i, listing.sort), listing.sort)
                       /\ PlaceOf(i, listing.sort) # <<>> /\ Len(listing.sort) \in Nat
  BY <1>1, Places
<1>10. \A i \in Stands : i \in AfterCursor' <=>
          place' = <<>> \/ Before(place', PlaceOf(i, listing.sort), listing.sort)
  <2>1. Stands' = Stands /\ \A i : PlaceOf(i, listing.sort)' = PlaceOf(i, listing.sort)
    BY <1>1 DEF Stands, PlaceOf, ColumnOf
  <2>2. \A i : Before(place, PlaceOf(i, listing.sort), listing.sort)'
               <=> Before(place', PlaceOf(i, listing.sort), listing.sort)
    BY <1>1, <2>1 DEF Before
  <2> QED
    BY <2>1, <2>2 DEF AfterCursor
<1>11. ASSUME NEW i \in Stands \ touched
       PROVE  IF Copies(i, listing.joins) = 0 \/ (~ended' /\ i \in AfterCursor') THEN seen'[i] = 0
              ELSE seen'[i] \in 1..Copies(i, listing.joins)
  <2>1. PICK C : C = Copies(i, listing.joins)
    OBVIOUS
  <2>2. PICK N : N = Cardinality({c \in Hits : <<i, c>> \in page})
    OBVIOUS
  <2>3. C \in 0..2 /\ i \in Items /\ seen[i] \in Nat /\ seen'[i] = seen[i] + N
    BY <1>1, <1>2, <1>5, <2>1, <2>2, ItemTypes DEF Hits
  <2>4. \A c : <<i, c>> \in page => i \in S /\ c \in 1..C
    BY <1>6, <1>7, <2>1
  <2>5. /\ N \in 0..C /\ ((\E c : <<i, c>> \in page) => N # 0)
        /\ (\A c : <<i, c>> \notin page) => N = 0
        /\ (\A c \in 1..C : <<i, c>> \in page) => N = C
    <3>1. \A c : <<i, c>> \in page => c \in 1..Copies(i, listing.joins)
      BY <2>1, <2>4
    <3> QED
      BY <1>1, <2>1, <2>2, <2>3, <3>1, CopiesOf
  <2>6. CASE C = 0
    <3>1. seen[i] = 0
      BY <1>1, <2>1, <2>6 DEF CursorSaw
    <3> QED
      BY <2>1, <2>3, <2>5, <2>6, <3>1
  <2>7. CASE C # 0 /\ i \notin S
    <3>1. seen[i] \in 1..C /\ N = 0
      BY <1>1, <2>1, <2>4, <2>5, <2>7 DEF CursorSaw
    <3>2. i \notin AfterCursor'
      <4>1. place # <<>> /\ ~Before(place, PlaceOf(i, listing.sort), listing.sort)
        BY <2>7 DEF AfterCursor
      <4>2. CASE place' = place
        BY <1>10, <4>1, <4>2
      <4>3. CASE place' # place
        <5>1. PICK k \in S : place' = PlaceOf(k, listing.sort)
          BY <1>5, <1>6, <1>7, <4>3
        <5>2. Before(place, PlaceOf(k, listing.sort), listing.sort)
          BY <4>1 DEF AfterCursor
        <5>3. Numbers(place, listing.sort)
          BY <1>1, <4>1 DEF CursorSaw
        <5>4. ~Before(PlaceOf(k, listing.sort), PlaceOf(i, listing.sort), listing.sort)
          BY <1>2, <1>9, <2>3, <4>1, <5>2, <5>3, BeforeIsTransitive
        <5> QED
          BY <1>2, <1>9, <1>10, <5>1, <5>4
      <4> QED
        BY <4>2, <4>3
    <3> QED
      BY <2>1, <2>3, <3>1, <3>2
  <2>8. CASE C # 0 /\ i \in S
    <3>1. seen[i] = 0
      BY <1>1, <2>1, <2>8 DEF CursorSaw
    <3>2. \A c \in 1..C : <<i, c>> \in L
      BY <1>6, <2>1, <2>8
    <3>3. CASE ended'
      <4>1. ASSUME NEW c \in 1..C PROVE <<i, c>> \in page
        <5>1. <<i, c>> \in L /\ Cardinality(L) <= Size
          BY <1>5, <3>2, <3>3
        <5>2. /\ Ahead(<<i, c>>, L, o) \in Nat /\ Ahead(<<i, c>>, L, o) < Cardinality(L)
              /\ <<i, c>> \in page <=> Ahead(<<i, c>>, L, o) < Size
          BY <1>7, <5>1
        <5> QED
          BY <1>6, <1>7, <5>1, <5>2
      <4> QED
        BY <2>1, <2>3, <2>5, <2>8, <3>1, <3>3, <4>1
    <3>4. CASE ~ended' /\ page = {}
      <4>1. place' = place /\ N = 0
        BY <1>5, <2>5, <3>4
      <4>2. i \in AfterCursor'
        BY <1>10, <2>8, <4>1 DEF AfterCursor
      <4> QED
        BY <2>1, <2>3, <3>1, <3>4, <4>1, <4>2
    <3>5. CASE ~ended' /\ page # {}
      <4>1. PICK last \in page : /\ \A e \in page : o[e[1]] <= o[last[1]]
                                 /\ place' = PlaceOf(last[1], listing.sort)
        BY <1>5, <3>5
      <4>2. PICK k \in S : k = last[1] /\ last \in L /\ last = <<k, last[2]>>
        BY <1>6, <1>7
      <4>3. i \in AfterCursor' <=> o[k] < o[i]
        BY <1>2, <1>8, <1>9, <1>10, <2>8, <4>1, <4>2
      <4>4. CASE o[k] < o[i]
        <5>1. \A c : <<i, c>> \notin page
          BY <1>8, <2>8, <4>1, <4>2, <4>4
        <5> QED
          BY <2>1, <2>3, <2>5, <3>1, <3>5, <4>3, <4>4, <5>1
      <4>5. CASE i = k
        <5>1. N # 0
          BY <2>5, <4>2, <4>5
        <5>2. i \notin AfterCursor'
          BY <1>8, <4>3, <4>5
        <5> QED
          BY <2>1, <2>3, <2>5, <2>8, <3>1, <5>1, <5>2
      <4>6. CASE o[i] < o[k]
        <5>1. ASSUME NEW c \in 1..C PROVE <<i, c>> \in page
          <6>1. <<i, c>> \in L /\ <<i, c>>[1] = i
            BY <3>2
          <6>2. Ahead(<<i, c>>, L, o) <= Ahead(last, L, o)
            BY <1>7, <4>2, <4>6, <6>1
          <6>3. Ahead(last, L, o) < Size
            BY <1>7, <4>2
          <6> QED
            BY <1>7, <4>2, <6>1, <6>2, <6>3
        <5>2. i \notin AfterCursor'
          BY <1>8, <2>8, <4>2, <4>3, <4>6
        <5> QED
          BY <2>1, <2>3, <2>5, <2>8, <3>1, <5>1, <5>2
      <4>7. i = k \/ o[k] < o[i] \/ o[i] < o[k]
        <5>1. i # k => o[i] # o[k]
          BY <2>8 DEF Orders
        <5> QED
          BY <1>8, <2>8, <5>1
      <4> QED
        BY <4>4, <4>5, <4>6, <4>7
    <3> QED
      BY <3>3, <3>4, <3>5
  <2> QED
    BY <2>6, <2>7, <2>8
<1>12. seen' \in [Items -> Nat]
  <2>1. \A i \in Items : Cardinality({c \in Hits : <<i, c>> \in page}) \in Nat
    BY HitsAreFinite, FS_Subset, FS_CardinalityType
  <2> QED
    BY <1>1, <1>3, <1>4, <2>1 DEF Delivers
<1>13. place' = <<>> \/ Numbers(place', listing.sort)
  BY <1>1, <1>2, <1>5, <1>6, <1>7, <1>9 DEF CursorSaw
<1>14. CursorSaw'
  <2>1. \A i, j : Copies(i, j)' = Copies(i, j)
    BY <1>1 DEF Copies
  <2>2. Stands' = Stands
    BY <1>1 DEF Stands
  <2> QED
    BY <1>1, <1>11, <1>13, <2>1, <2>2 DEF CursorSaw, Numbers
<1> QED
  BY <1>1, <1>12, <1>14 DEF PagingInv

\* The order of a listing puts just the entries ahead that come sooner.
LEMMA AheadAreSooner ==
  ASSUME items \in [Items -> Item \cup {NoItem}], HasId(listing.sort),
         NEW o \in Orders(Stands, listing.sort), NEW i, NEW c, <<i, c>> \in Listed
  PROVE  /\ Ahead(<<i, c>>, Listed, o) = Cardinality(Sooners(i, c))
         /\ Cardinality(Sooners(i, c)) \in Nat
<1>1. Stands \subseteq Items
  BY DEF Stands
<1>2. /\ IsFiniteSet(Listed) /\ \A f \in Listed : f[1] \in Stands
      /\ i \in Stands
  BY <1>1, EntriesOf DEF Listed
<1>3. \A f \in Listed :
        o[f[1]] < o[i] <=> Before(PlaceOf(f[1], listing.sort), PlaceOf(i, listing.sort), listing.sort)
  BY <1>1, <1>2, OrderIsBefore
<1>4. {f \in Listed : o[f[1]] < o[i] \/ (f[1] = i /\ f[2] < c)} = Sooners(i, c)
  BY <1>3 DEF Sooners
<1>5. Ahead(<<i, c>>, Listed, o) = Cardinality(Sooners(i, c))
  BY <1>4 DEF Ahead
<1>6. Sooners(i, c) \subseteq Listed
  BY DEF Sooners
<1> QED
  BY <1>2, <1>5, <1>6, FS_Subset, FS_CardinalityType

LEMMA SoonersAreFewer ==
  ASSUME items \in [Items -> Item \cup {NoItem}], HasId(listing.sort),
         NEW i, NEW c, <<i, c>> \in Listed
  PROVE  /\ Cardinality(Sooners(i, c)) \in Nat /\ Cardinality(Listed) \in Nat
         /\ Cardinality(Sooners(i, c)) < Cardinality(Listed)
<1>1. Stands \subseteq Items
  BY DEF Stands
<1>2. /\ IsFiniteSet(Listed) /\ Cardinality(Listed) \in Nat /\ i \in Items
      /\ c \in Nat
  <2>1. IsFiniteSet(Listed) /\ Cardinality(Listed) \in Nat
    BY <1>1, EntriesOf DEF Listed
  <2>2. i \in Stands /\ c \in Nat
    <3>1. \A e \in Listed : e[1] \in Stands /\ e[2] \in Nat
      BY <1>1, EntriesOf DEF Listed
    <3>2. <<i, c>>[1] \in Stands /\ <<i, c>>[2] \in Nat
      BY <3>1
    <3> QED
      BY <3>2
  <2> QED
    BY <1>1, <2>1, <2>2
<1>3. <<i, c>> \notin Sooners(i, c)
  BY <1>2, Places, NotBeforeItself DEF Sooners
<1>4. Sooners(i, c) \subseteq Listed \ {<<i, c>>}
  BY <1>3 DEF Sooners
<1>5. /\ IsFiniteSet(Listed \ {<<i, c>>})
      /\ Cardinality(Listed \ {<<i, c>>}) = Cardinality(Listed) - 1
  BY <1>2, FS_RemoveElement
<1> QED
  BY <1>2, <1>4, <1>5, FS_Subset, FS_CardinalityType

LEMMA OffsetReads ==
  ASSUME PagingInv, ReadPage, Ordered, OffsetPage
  PROVE  PagingInv'
<1> DEFINE sort == listing.sort
<1>1. /\ items \in [Items -> Item \cup {NoItem}] /\ seen \in [Items -> Nat]
      /\ listing # Unasked /\ ~ended /\ HasId(sort) /\ listing.by = "offset" /\ OffsetSaw
      /\ items' = items /\ listing' = listing /\ touched' = touched
  BY DEF PagingInv, ReadPage, OffsetPage
<1>2. Start \in Nat /\ Size \in Nat
  BY <1>1, PagingAssumption DEF OffsetSaw, Start
<1>3. PICK n \in Nat : n = Start + Size
  BY <1>2
<1>4. place' = <<n>> /\ Start' = n
  BY <1>3 DEF OffsetPage, Start
<1>5. PICK o \in Orders(Stands, sort) : Delivers(Page(Listed, o, Start))
  BY DEF OffsetPage, Listed
<1>6. PICK page : page = Page(Listed, o, Start)
  OBVIOUS
<1>7. seen' = [i \in Items |-> seen[i] + Cardinality({c \in Hits : <<i, c>> \in page})]
  BY <1>5, <1>6 DEF Delivers
<1>8. seen' \in [Items -> Nat]
  <2>1. \A i \in Items : Cardinality({c \in Hits : <<i, c>> \in page}) \in Nat
    BY HitsAreFinite, FS_Subset, FS_CardinalityType
  <2> QED
    BY <1>1, <1>7, <2>1
<1>9. Listed' = Listed /\ Stands' = Stands /\ \A i, c : Sooners(i, c)' = Sooners(i, c)
  <2>1. Stands' = Stands /\ \A i, j : Copies(i, j)' = Copies(i, j)
    BY <1>1 DEF Stands, Copies
  <2>2. Listed' = Listed
    BY <1>1, <2>1 DEF Listed, Entries
  <2>3. \A i : PlaceOf(i, sort)' = PlaceOf(i, sort)
    BY <1>1 DEF PlaceOf, ColumnOf
  <2>4. \A i, j : Before(PlaceOf(i, sort), PlaceOf(j, sort), sort)'
                  <=> Before(PlaceOf(i, sort), PlaceOf(j, sort), sort)
    BY <1>1, <2>3 DEF Before
  <2> QED
    BY <1>1, <2>1, <2>2, <2>4 DEF Sooners
<1>10. ASSUME NEW i \in Stands, seen[i] = Cardinality(Shown(i, Start))
       PROVE  seen'[i] = Cardinality(Shown(i, n))
  <2>1. {c \in Hits : <<i, c>> \in page} = Shown(i, n) \ Shown(i, Start)
    <3>1. \A c : <<i, c>> \in Listed =>
            /\ Cardinality(Sooners(i, c)) \in Nat
            /\ Ahead(<<i, c>>, Listed, o) = Cardinality(Sooners(i, c))
      BY <1>1, AheadAreSooner
    <3>2. ASSUME NEW c
          PROVE  <<i, c>> \in page <=> /\ <<i, c>> \in Listed /\ Cardinality(Sooners(i, c)) < n
                                       /\ ~(Cardinality(Sooners(i, c)) < Start)
      <4>1. <<i, c>> \in page <=>
              <<i, c>> \in Listed /\ Ahead(<<i, c>>, Listed, o) \in Start..(Start + Size - 1)
        BY <1>6 DEF Page
      <4>2. CASE <<i, c>> \in Listed
        <5>1. PICK k \in Nat : k = Cardinality(Sooners(i, c)) /\ k = Ahead(<<i, c>>, Listed, o)
          BY <3>1, <4>2
        <5> QED
          BY <1>2, <1>3, <4>1, <4>2, <5>1
      <4> QED
        BY <4>1, <4>2
    <3> QED
      BY <3>2 DEF Shown
  <2>2. Shown(i, Start) \subseteq Shown(i, n)
    <3>1. \A c : <<i, c>> \in Listed => Cardinality(Sooners(i, c)) \in Nat
      BY <1>1, AheadAreSooner
    <3> QED
      BY <1>2, <1>3, <3>1 DEF Shown
  <2>3. PICK T : T = Shown(i, n)
    OBVIOUS
  <2>4. PICK U : U = Shown(i, Start)
    OBVIOUS
  <2>5. T \subseteq Hits /\ U \subseteq Hits
    BY <2>3, <2>4 DEF Shown
  <2>6. IsFiniteSet(T) /\ Cardinality(T) \in Nat /\ Cardinality(U) \in Nat
    BY <2>5, HitsAreFinite, FS_Subset, FS_CardinalityType
  <2>7. Cardinality(T \ U) = Cardinality(T) - Cardinality(U)
    <3>1. T \cap U = U
      BY <2>2, <2>3, <2>4
    <3>2. Cardinality(T \ U) = Cardinality(T) - Cardinality(T \cap U)
      BY <2>6, FS_Difference
    <3> QED
      BY <3>1, <3>2
  <2>8. seen'[i] = seen[i] + Cardinality(T \ U)
    <3>1. i \in Items
      BY DEF Stands
    <3> QED
      BY <1>7, <2>1, <2>3, <2>4, <3>1
  <2> QED
    BY <1>10, <2>3, <2>4, <2>6, <2>7, <2>8
<1>11. \A i : Shown(i, Start)' = Shown(i, n)
  BY <1>4, <1>9 DEF Shown
<1>12. ended' => Cardinality(Listed) <= n
  BY <1>3 DEF OffsetPage, Listed
<1>13. OffsetSaw'
  <2>1. touched' = {} => \A i \in Stands' : seen'[i] = Cardinality(Shown(i, Start)')
    BY <1>1, <1>9, <1>10, <1>11 DEF OffsetSaw
  <2>2. ended' => Cardinality(Listed') <= Start'
    BY <1>4, <1>9, <1>12
  <2> QED
    BY <1>4, <2>1, <2>2 DEF OffsetSaw
<1> QED
  BY <1>1, <1>8, <1>13 DEF PagingInv

LEMMA AskKeeps ==
  ASSUME PagingInv, NEW asked \in Sorts, NEW by \in {"cursor", "offset"}, NEW joins,
         NEW keyed \in BOOLEAN, Ask(asked, by, joins, keyed)
  PROVE  PagingInv'
<1>1. PICK columns : columns = SortColumns(asked, keyed)
  OBVIOUS
<1>2. ASSUME keyed, columns # <<>> PROVE HasId(columns)
  <2>1. asked \in Seq(Column) /\ asked # <<>> /\ Len(asked) \in Nat
    BY <1>1, <1>2, PagingAssumption DEF SortColumns
  <2>2. CASE \E n \in 1..Len(asked) : asked[n].name = "id"
    BY <1>1, <2>1, <2>2 DEF SortColumns, NamesId, HasId
  <2>3. CASE ~\E n \in 1..Len(asked) : asked[n].name = "id"
    <3>1. PICK c : c = [name |-> "id", desc |-> Last(asked).desc]
      OBVIOUS
    <3>2. Len(asked) > 0 /\ asked[Len(asked)] \in Column
      BY <2>1
    <3>3. c \in Column
      BY <3>1, <3>2 DEF Last, Column
    <3>4. columns = Append(asked, c)
      BY <1>1, <1>2, <2>1, <2>3, <3>1 DEF SortColumns, NamesId
    <3>5. /\ columns \in Seq(Column) /\ Len(columns) = Len(asked) + 1
          /\ columns[Len(asked) + 1] = c
      BY <2>1, <3>3, <3>4
    <3> QED
      BY <2>1, <3>1, <3>5 DEF HasId
  <2> QED
    BY <2>2, <2>3
<1>3. /\ items' \in [Items -> Item \cup {NoItem}] /\ seen' \in [Items -> Nat]
      /\ place' = <<>> /\ touched' = {} /\ ~ended' /\ \A i \in Items : seen'[i] = 0
  BY DEF PagingInv, Ask
<1>4. listing'.sort = columns /\ listing'.by = by /\ listing'.keyed = keyed
  BY <1>1 DEF Ask
<1>5. CursorSaw'
  <2>1. \A i \in Stands' : i \in AfterCursor' /\ seen'[i] = 0
    BY <1>3 DEF AfterCursor, Stands
  <2> QED
    BY <1>3, <2>1 DEF CursorSaw
<1>6. OffsetSaw'
  <2>1. ASSUME NEW i \in Stands' PROVE Shown(i, Start)' = {}
    <3>1. ASSUME NEW c, (<<i, c>> \in Listed)' PROVE Cardinality(Sooners(i, c)') \in Nat
      <4>1. IsFiniteSet(Listed')
        <5>1. Stands' \subseteq Items
          BY DEF Stands
        <5>2. Listed' \subseteq Items \X Hits
          BY <5>1 DEF Listed, Entries
        <5>3. IsFiniteSet(Items \X Hits)
          BY PagingAssumption, HitsAreFinite, FS_Product
        <5> QED
          BY <5>2, <5>3, FS_Subset
      <4>2. Sooners(i, c)' \subseteq Listed'
        BY DEF Sooners
      <4> QED
        BY <4>1, <4>2, FS_Subset, FS_CardinalityType
    <3>2. Start' = 0
      BY <1>3 DEF Start
    <3> QED
      BY <3>1, <3>2 DEF Shown
  <2>2. Cardinality({}) = 0
    BY FS_EmptySet
  <2>3. \A i \in Stands' : seen'[i] = Cardinality(Shown(i, Start)')
    <3>1. Stands' \subseteq Items
      BY DEF Stands
    <3> QED
      BY <1>3, <2>1, <2>2, <3>1
  <2> QED
    BY <1>3, <2>3 DEF OffsetSaw
<1>7. Ordered' => HasId(columns)
  BY <1>2, <1>4 DEF Ordered
<1> QED
  BY <1>3, <1>4, <1>5, <1>6, <1>7 DEF PagingInv

LEMMA ChangeItemKeeps ==
  ASSUME PagingInv, listing # Unasked, ~ended,
         NEW k \in Items, NEW item \in Item \cup {NoItem}, ChangeItem(k, item)
  PROVE  PagingInv'
<1>1. /\ items' \in [Items -> Item \cup {NoItem}] /\ seen' \in [Items -> Nat]
      /\ \A i \in Items \ {k} : items'[i] = items[i]
      /\ listing' = listing /\ place' = place /\ seen' = seen /\ ended' = ended
      /\ touched' = touched \cup {k}
  BY DEF PagingInv, ChangeItem
<1>2. ASSUME CursorSaw PROVE CursorSaw'
  <2>1. ASSUME NEW i \in Stands' \ touched'
        PROVE  /\ i \in Stands \ touched
               /\ Copies(i, listing.joins)' = Copies(i, listing.joins)
               /\ i \in AfterCursor' => i \in AfterCursor
               /\ i \in AfterCursor => i \in AfterCursor'
    <3>1. i \in Items \ {k} /\ i \in Stands /\ i \notin touched
      BY <1>1, <2>1 DEF Stands
    <3>2. items'[i] = items[i]
      BY <1>1, <3>1
    <3>3. PlaceOf(i, listing.sort)' = PlaceOf(i, listing.sort)
      BY <1>1, <3>2 DEF PlaceOf, ColumnOf
    <3>4. Before(place, PlaceOf(i, listing.sort), listing.sort)'
          <=> Before(place, PlaceOf(i, listing.sort), listing.sort)
      BY <1>1, <3>3 DEF Before
    <3> QED
      BY <1>1, <2>1, <3>1, <3>2, <3>4 DEF Copies, AfterCursor
  <2>2. place' = <<>> \/ Numbers(place, listing.sort)'
    BY <1>1, <1>2 DEF CursorSaw, Numbers
  <2> QED
    BY <1>1, <1>2, <2>1, <2>2 DEF CursorSaw
<1>3. ASSUME OffsetSaw PROVE OffsetSaw'
  BY <1>1, <1>3 DEF OffsetSaw
<1>4. Ordered' = Ordered
  BY <1>1 DEF Ordered
<1> QED
  BY <1>1, <1>2, <1>3, <1>4 DEF PagingInv

LEMMA PagingStart == PagingInit => PagingInv
<1> SUFFICES ASSUME PagingInit PROVE PagingInv
  OBVIOUS
<1>1. items \in [Items -> Item \cup {NoItem}] /\ seen \in [Items -> Nat]
  BY DEF PagingInit, StartItems
<1> QED
  BY <1>1 DEF PagingInit, PagingInv, Ordered, Unasked

LEMMA PagingStands ==
  ASSUME PagingInv, UNCHANGED paging
  PROVE  PagingInv'
<1>1. /\ items' = items /\ listing' = listing /\ place' = place /\ seen' = seen
      /\ ended' = ended /\ touched' = touched
  BY DEF paging
<1>2. Stands' = Stands /\ \A i, j : Copies(i, j)' = Copies(i, j)
  BY <1>1 DEF Stands, Copies
<1>3. \A i, s : PlaceOf(i, s)' = PlaceOf(i, s)
  BY <1>1 DEF PlaceOf, ColumnOf
<1>4. AfterCursor' = AfterCursor
  <2>1. \A i : Before(place, PlaceOf(i, listing.sort), listing.sort)'
               <=> Before(place, PlaceOf(i, listing.sort), listing.sort)
    BY <1>1, <1>3 DEF Before
  <2> QED
    BY <1>1, <1>2, <2>1 DEF AfterCursor
<1>5. CursorSaw => CursorSaw'
  BY <1>1, <1>2, <1>4 DEF CursorSaw, Numbers
<1>6. Listed' = Listed
  BY <1>1, <1>2 DEF Listed, Entries
<1>7. \A i, c : Sooners(i, c)' = Sooners(i, c)
  <2>1. \A i, j : Before(PlaceOf(i, listing.sort), PlaceOf(j, listing.sort), listing.sort)'
                  <=> Before(PlaceOf(i, listing.sort), PlaceOf(j, listing.sort), listing.sort)
    BY <1>1, <1>3 DEF Before
  <2> QED
    BY <1>1, <1>6, <2>1 DEF Sooners
<1>8. Start' = Start /\ \A i : Shown(i, Start)' = Shown(i, Start)
  <2>1. Start' = Start
    BY <1>1 DEF Start
  <2> QED
    BY <1>6, <1>7, <2>1 DEF Shown
<1>9. OffsetSaw => OffsetSaw'
  BY <1>1, <1>2, <1>6, <1>8 DEF OffsetSaw
<1>10. Ordered' = Ordered
  BY <1>1 DEF Ordered
<1> QED
  BY <1>1, <1>5, <1>9, <1>10 DEF PagingInv

LEMMA PagingStep == PagingInv /\ [PagingNext]_paging => PagingInv'
<1> SUFFICES ASSUME PagingInv, [PagingNext]_paging PROVE PagingInv'
  OBVIOUS
<1>1. CASE ReadPage
  BY <1>1, CursorReads, OffsetReads, DisorderReads DEF ReadPage
<1>2. CASE UNCHANGED paging
  BY <1>2, PagingStands
<1> QED
  BY <1>1, <1>2, AskKeeps, ChangeItemKeeps DEF PagingNext

LEMMA ReadToTheEnd == PagingInv => PagesMissNothing
<1> SUFFICES ASSUME PagingInv, ended, Ordered, listing.by = "cursor" \/ touched = {},
                    NEW i \in Stands \ touched
             PROVE  IF items[i].hits = 0 THEN seen[i] = 0
                    ELSE seen[i] \in 1..Copies(i, listing.joins)
  BY DEF PagesMissNothing
<1>1. /\ HasId(listing.sort)
      /\ items \in [Items -> Item \cup {NoItem}] /\ i \in Items
      /\ CursorSaw \/ (OffsetSaw /\ touched = {})
  BY DEF PagingInv, Stands
<1>2. PICK C : C = Copies(i, listing.joins)
  OBVIOUS
<1>3. C \in 0..2 /\ (C = 0 <=> items[i].hits = 0)
  <2>1. items[i].hits \in 0..2 /\ C \in 0..2
    BY <1>1, <1>2, ItemTypes DEF Hits
  <2> QED
    BY <1>2, <2>1 DEF Copies
<1>4. CASE CursorSaw
  BY <1>2, <1>3, <1>4 DEF CursorSaw
<1>5. CASE OffsetSaw /\ touched = {}
  <2>1. seen[i] = Cardinality(Shown(i, Start)) /\ Cardinality(Listed) <= Start /\ Start \in Nat
    BY <1>5 DEF OffsetSaw, Start
  <2>2. Shown(i, Start) = {c \in Hits : <<i, c>> \in Listed}
    <3>1. \A c : <<i, c>> \in Listed => Cardinality(Sooners(i, c)) < Start
      BY <1>1, <2>1, SoonersAreFewer
    <3> QED
      BY <3>1 DEF Shown
  <2>3. \A c : <<i, c>> \in Listed <=> c \in 1..C
    <3>1. Stands \subseteq Items
      BY DEF Stands
    <3> QED
      BY <1>1, <1>2, <3>1, EntriesOf DEF Listed
  <2>4. Cardinality({c \in Hits : <<i, c>> \in Listed}) = C
    <3>1. \A c : <<i, c>> \in Listed => c \in 1..Copies(i, listing.joins)
      BY <1>2, <2>3
    <3> QED
      BY <1>1, <1>2, <2>3, <3>1, CopiesOf
  <2> QED
    BY <1>2, <1>3, <2>1, <2>2, <2>4
<1> QED
  BY <1>1, <1>4, <1>5

\* PagesMissNothing: a client that reads a sorted listing of a model with an id
\* to its end gets every row that matches and that nobody wrote meanwhile.
\* (sort's id column, and the cursor over the columns sorted by.)
THEOREM PagesAreComplete == Spec => []PagesMissNothing
<1>1. Init => PagingInv
  BY PagingStart DEF Init
<1>2. PagingInv /\ [Next]_vars => PagingInv'
  BY PagingStep DEF Next, InMachine, vars
<1>3. PagingInv => PagesMissNothing
  BY ReadToTheEnd
<1> QED
  BY <1>1, <1>2, <1>3, PTL DEF Spec

-----------------------------------------------------------------------------
(* Controllers.                                                             *)

\* A class is defined once.
DefinedOnce == \A n, m \in 1..Len(defined) : defined[n] = defined[m] => n = m

\* A definition has the hooks of the last class that shares it.
LastGivesHooks ==
    \A n \in 1..Len(defined) : \A d \in DefinitionsOf(defined[n]) :
        (\A m \in (n + 1)..Len(defined) : d \notin DefinitionsOf(defined[m]))
            => before[d] = Applicable(defined[n], d[2])

\* The hooks of the last class that shares its definition, when it was built.
Guarded(h, hooks) ==
    /\ ~Redefined(h) => hooks = Applicable(h.of, h.name)
    /\ \E k \in Sharers(h) :
          /\ \A n \in Sharers(h) : n <= k
          /\ hooks = Applicable(h.when[k], h.name)

\* What a handler was built with.
BuiltWithHooks ==
    \A h \in handlers : h.router \in 0..(included - 1) /\ Guarded(h, h.before)

ControllersInv ==
    /\ defined \in Seq(Controllers) /\ included \in Nat
    /\ before = [d \in Definitions |-> before[d]]
    /\ DefinedOnce /\ LastGivesHooks /\ BuiltWithHooks
    /\ answer.done => answer.by \in handlers
    /\ HooksGuardRoutes /\ StaticRoutesFirst

LEMMA ControllersStart == ControllersInit => ControllersInv
BY DEF ControllersInit, ControllersInv, DefinedOnce, LastGivesHooks, BuiltWithHooks,
       HooksGuardRoutes, StaticRoutesFirst, NoAnswer

LEMMA DefineKeeps ==
  ASSUME ControllersInv, NEW c \in Controllers, Define(c)
  PROVE  ControllersInv'
<1>1. /\ defined \in Seq(Controllers) /\ included \in Nat
      /\ before = [d \in Definitions |-> before[d]]
      /\ DefinedOnce /\ LastGivesHooks /\ BuiltWithHooks
  BY DEF ControllersInv
<1>2. /\ defined' = Append(defined, c) /\ \A n \in 1..Len(defined) : defined[n] # c
      /\ before' = [d \in Definitions |->
            IF d \in DefinitionsOf(c) THEN Applicable(c, d[2]) ELSE before[d]]
      /\ handlers' = handlers /\ included' = included /\ answer' = answer
  BY DEF Define, Contains
<1>3. /\ defined' \in Seq(Controllers) /\ Len(defined) \in Nat /\ Len(defined') = Len(defined) + 1
      /\ defined'[Len(defined')] = c
      /\ \A n \in 1..Len(defined) : defined'[n] = defined[n] /\ defined[n] \in Controllers
  BY <1>1, <1>2
<1>4. DefinedOnce'
  BY <1>1, <1>2, <1>3 DEF DefinedOnce
<1>5. LastGivesHooks'
  <2> SUFFICES ASSUME NEW n \in 1..Len(defined'), NEW d \in DefinitionsOf(defined'[n]),
                      \A m \in (n + 1)..Len(defined') : d \notin DefinitionsOf(defined'[m])
               PROVE  before'[d] = Applicable(defined'[n], d[2])
    BY DEF LastGivesHooks, DefinitionsOf
  <2>1. d \in Definitions
    BY <1>3 DEF Definitions
  <2>2. CASE n = Len(defined')
    BY <1>2, <1>3, <2>1, <2>2
  <2>3. CASE n # Len(defined')
    <3>1. n \in 1..Len(defined) /\ defined'[n] = defined[n]
      BY <1>3, <2>3
    <3>2. d \notin DefinitionsOf(c)
      <4>1. Len(defined') \in (n + 1)..Len(defined')
        BY <1>3, <2>3
      <4> QED
        BY <1>3, <4>1
    <3>3. \A m \in (n + 1)..Len(defined) : d \notin DefinitionsOf(defined[m])
      <4> SUFFICES ASSUME NEW m \in (n + 1)..Len(defined) PROVE d \notin DefinitionsOf(defined[m])
        OBVIOUS
      <4>1. m \in (n + 1)..Len(defined') /\ defined'[m] = defined[m]
        BY <1>3, <3>1
      <4> QED
        BY <4>1
    <3>4. before[d] = Applicable(defined[n], d[2])
      BY <1>1, <3>1, <3>3 DEF LastGivesHooks
    <3> QED
      BY <1>2, <2>1, <3>1, <3>2, <3>4
  <2> QED
    BY <2>2, <2>3
<1>6. BuiltWithHooks' /\ HooksGuardRoutes' /\ StaticRoutesFirst'
      /\ (answer'.done => answer'.by \in handlers')
  BY <1>1, <1>2 DEF ControllersInv, BuiltWithHooks, Guarded, HooksGuardRoutes,
                    StaticRoutesFirst, Redefined, Sharers
<1> QED
  BY <1>1, <1>2, <1>3, <1>4, <1>5, <1>6 DEF ControllersInv

LEMMA RegisterKeeps ==
  ASSUME ControllersInv, NEW c \in Controllers, NEW kept, Register(c, kept)
  PROVE  ControllersInv'
<1>1. /\ defined \in Seq(Controllers) /\ included \in Nat
      /\ before = [d \in Definitions |-> before[d]]
      /\ DefinedOnce /\ LastGivesHooks /\ BuiltWithHooks
      /\ (answer.done => answer.by \in handlers) /\ HooksGuardRoutes /\ StaticRoutesFirst
  BY DEF ControllersInv
<1>2. /\ defined' = defined /\ before' = before /\ answer' = answer /\ included' = included + 1
      /\ \E n \in 1..Len(defined) : defined[n] = c
      /\ \A h \in handlers' \ handlers :
            \E n \in 1..Len(RoutesOf[c]) : h = Handler(c, n)
      /\ handlers \subseteq handlers'
  BY DEF Register, Contains
<1>3. PICK i \in 1..Len(defined) : defined[i] = c
  BY <1>2
<1>4. ASSUME NEW h \in handlers' \ handlers
      PROVE  h.router = included /\ Guarded(h, h.before)
  <2>1. PICK n \in 1..Len(RoutesOf[c]) : h = Handler(c, n)
    BY <1>2
  <2>2. PICK d : d = RoutesOf[c][n].def
    OBVIOUS
  <2>3. /\ h.of = c /\ h.name = d[2] /\ h.def = d /\ h.before = before[d]
        /\ h.router = included /\ h.when = defined
    BY <2>1, <2>2 DEF Handler
  <2>4. d \in DefinitionsOf(c)
    BY <2>2 DEF DefinitionsOf
  <2>5. PICK k \in Sharers(h) : \A m \in Sharers(h) : m <= k
    <3>1. Len(defined) \in Nat /\ Sharers(h) \subseteq 1..Len(defined) /\ i \in Sharers(h)
      BY <1>1, <1>3, <2>3, <2>4 DEF Sharers
    <3>2. PICK T : T = {Len(defined) - m : m \in Sharers(h)}
      OBVIOUS
    <3>3. T \subseteq Nat /\ T # {}
      BY <3>1, <3>2
    <3>4. PICK t \in T : \A u \in T : t <= u
      BY <3>3, LeastNatural
    <3>5. PICK k \in Sharers(h) : t = Len(defined) - k
      BY <3>2
    <3>6. \A m \in Sharers(h) : m <= k
      <4> SUFFICES ASSUME NEW m \in Sharers(h) PROVE m <= k
        OBVIOUS
      <4>1. Len(defined) - k <= Len(defined) - m
        BY <3>2, <3>4, <3>5
      <4>2. m \in Nat /\ k \in Nat
        BY <3>1
      <4> QED
        BY <3>1, <4>1, <4>2
    <3> QED
      BY <3>6
  <2>6. k \in 1..Len(defined) /\ d \in DefinitionsOf(defined[k])
    BY <2>3 DEF Sharers
  <2>7. \A m \in (k + 1)..Len(defined) : d \notin DefinitionsOf(defined[m])
    <3> SUFFICES ASSUME NEW m \in (k + 1)..Len(defined), d \in DefinitionsOf(defined[m])
                 PROVE  FALSE
      OBVIOUS
    <3>1. m \in Sharers(h) /\ m > k /\ m \in Nat
      BY <1>1, <2>3, <2>6 DEF Sharers
    <3> QED
      BY <2>5, <2>6, <3>1
  <2>8. before[d] = Applicable(defined[k], d[2])
    BY <1>1, <2>6, <2>7 DEF LastGivesHooks
  <2>9. ASSUME ~Redefined(h) PROVE k = i
    <3>1. i \in Sharers(h)
      BY <1>3, <2>3, <2>4 DEF Sharers
    <3>2. i <= k
      BY <2>5, <3>1
    <3>3. ~(i < k)
      BY <1>3, <2>3, <2>6, <2>9 DEF Redefined
    <3> QED
      BY <1>1, <1>3, <2>6, <3>2, <3>3
  <2> QED
    BY <1>3, <2>3, <2>5, <2>8, <2>9 DEF Guarded
<1>5. BuiltWithHooks'
  <2> SUFFICES ASSUME NEW h \in handlers'
               PROVE  h.router \in 0..(included' - 1) /\ Guarded(h, h.before)
    BY DEF BuiltWithHooks, Guarded, Redefined, Sharers
  <2>1. CASE h \in handlers
    BY <1>1, <1>2, <2>1 DEF BuiltWithHooks
  <2>2. CASE h \notin handlers
    BY <1>1, <1>2, <1>4, <2>2
  <2> QED
    BY <2>1, <2>2
<1>6. StaticRoutesFirst'
  <2> SUFFICES ASSUME answer.done, Params(answer.by.path) > 0, NEW h \in handlers',
                      h.router = answer.by.router, h.verb = answer.verb, h.path = answer.path
               PROVE  FALSE
    BY <1>2 DEF StaticRoutesFirst, Params
  <2>1. answer.by.router \in 0..(included - 1)
    BY <1>1 DEF BuiltWithHooks
  <2>2. h \in handlers
    BY <1>1, <1>4, <2>1
  <2> QED
    BY <1>1, <2>2 DEF StaticRoutesFirst
<1>7. HooksGuardRoutes' /\ (answer'.done => answer'.by \in handlers')
  BY <1>1, <1>2 DEF HooksGuardRoutes, Redefined, Sharers
<1>8. DefinedOnce' /\ LastGivesHooks'
  BY <1>1, <1>2 DEF DefinedOnce, LastGivesHooks
<1>9. /\ defined' \in Seq(Controllers) /\ included' \in Nat
      /\ before' = [d \in Definitions |-> before'[d]]
  BY <1>1, <1>2
<1> QED
  BY <1>5, <1>6, <1>7, <1>8, <1>9 DEF ControllersInv

\* A path without parameters comes before one with.
LEMMA StaticFirst ==
  ASSUME NEW p, NEW q \in Seq(Segments), Params(p) > 0, Params(p) \in Nat
  PROVE  ~Sooner(SortKey(p), SortKey(q)) /\ SortKey(p) # SortKey(q)
<1>1. \A n \in 1..Len(q) : q[n] \in Segments
  OBVIOUS
<1>2. {n \in 1..Len(q) : q[n] \in Braced} = {}
  BY <1>1, ControllersAssumption
<1>3. Params(q) = 0
  BY <1>2, FS_EmptySet DEF Params
<1>4. SortKey(p)[1] = Params(p) /\ SortKey(q)[1] = Params(q)
  BY DEF SortKey
<1> QED
  BY <1>3, <1>4 DEF Sooner

LEMMA RequestKeeps ==
  ASSUME ControllersInv, NEW verb, NEW path \in Paths, Request(verb, path)
  PROVE  ControllersInv'
<1>1. /\ defined' = defined /\ before' = before /\ handlers' = handlers /\ included' = included
  BY DEF Request
<1>2. PICK h \in handlers :
        /\ h.verb = verb /\ Matches(h.path, path)
        /\ \A g \in handlers : g # h /\ g.verb = verb /\ Matches(g.path, path) => Tried(h, g)
        /\ answer'.done => answer'.by = h /\ answer'.ran = h.before
        /\ answer'.path = path /\ answer'.verb = verb
  BY DEF Request
<1>3. BuiltWithHooks
  BY DEF ControllersInv
<1>4. HooksGuardRoutes'
  BY <1>2, <1>3 DEF HooksGuardRoutes, BuiltWithHooks, Guarded, Redefined, Sharers
<1>5. StaticRoutesFirst'
  <2> SUFFICES ASSUME Params(h.path) > 0, NEW g \in handlers, g.router = h.router,
                      g.verb = verb, g.path = path
               PROVE  FALSE
    BY <1>1, <1>2 DEF StaticRoutesFirst, Params
  <2>1. path \in Seq(Segments)
    BY ControllersAssumption
  <2>2. Len(h.path) = Len(path) /\ Len(path) \in Nat
    BY <1>2, <2>1 DEF Matches
  <2>3. Params(h.path) \in Nat
    <3>1. IsFiniteSet(1..Len(path))
      BY <2>2, FS_Interval
    <3> QED
      BY <2>2, <3>1, FS_Subset, FS_CardinalityType DEF Params
  <2>4. Matches(g.path, path)
    BY DEF Matches
  <2>5. ~Sooner(SortKey(h.path), SortKey(g.path)) /\ SortKey(h.path) # SortKey(g.path)
    <3>1. ~Sooner(SortKey(h.path), SortKey(path)) /\ SortKey(h.path) # SortKey(path)
      BY <2>1, <2>3, StaticFirst
    <3> QED
      BY <3>1
  <2>6. g # h
    BY <2>5
  <2>7. Tried(h, g)
    BY <1>2, <2>4, <2>6
  <2>8. ~(h.router < g.router)
    BY <1>3 DEF BuiltWithHooks, ControllersInv
  <2> QED
    BY <2>5, <2>7, <2>8 DEF Tried
<1> QED
  BY <1>1, <1>2, <1>3, <1>4, <1>5
     DEF ControllersInv, DefinedOnce, LastGivesHooks, BuiltWithHooks, Guarded, Redefined,
         Sharers

LEMMA ControllersStep == ControllersInv /\ [ControllersNext]_controllers => ControllersInv'
<1> SUFFICES ASSUME ControllersInv, [ControllersNext]_controllers PROVE ControllersInv'
  OBVIOUS
<1>1. CASE UNCHANGED controllers
  BY <1>1 DEF controllers, ControllersInv, DefinedOnce, LastGivesHooks, BuiltWithHooks,
              Guarded, Redefined, Sharers, HooksGuardRoutes, StaticRoutesFirst, Params
<1> QED
  BY <1>1, DefineKeeps, RegisterKeeps, RequestKeeps DEF ControllersNext

\* HooksGuardRoutes: a route method runs only after every hook declared for it by
\* the last class that shares the route and was defined before it was registered;
\* that is its own class, unless one that inherits the route was defined between
\* the two.  (The metaclass and _build_handler.)
THEOREM HooksComeFirst == Spec => []HooksGuardRoutes
<1>1. Init => ControllersInv
  BY ControllersStart DEF Init
<1>2. ControllersInv /\ [Next]_vars => ControllersInv'
  BY ControllersStep DEF Next, InMachine, vars
<1>3. ControllersInv => HooksGuardRoutes
  BY DEF ControllersInv
<1> QED
  BY <1>1, <1>2, <1>3, PTL DEF Spec

\* StaticRoutesFirst: a path without parameters is answered by the route declared
\* for it, never by one with a "{...}" segment.  (as_router's sort key.)
THEOREM StaticBeforeParameters == Spec => []StaticRoutesFirst
<1>1. Init => ControllersInv
  BY ControllersStart DEF Init
<1>2. ControllersInv /\ [Next]_vars => ControllersInv'
  BY ControllersStep DEF Next, InMachine, vars
<1>3. ControllersInv => StaticRoutesFirst
  BY DEF ControllersInv
<1> QED
  BY <1>1, <1>2, <1>3, PTL DEF Spec

=============================================================================
