------------------------ MODULE RedisServicesSafety -------------------------
(***************************************************************************)
(* CacheTypeOK and ReadsAfterInvalidation for any number of keys, readers  *)
(* and versions, and the limits of the throttler for any amounts and       *)
(* windows.  What a reader may answer follows from what the cache may      *)
(* hold, and that from what an unfinished invalidate_pattern has passed;   *)
(* the limits follow from the counters agreeing with what was let in.      *)
(***************************************************************************)
EXTENDS RedisServices, FiniteSetTheorems, WellFoundedInduction, TLAPS

\* A row was never invalidated for a version it has not had.
CleanIsPast == \A k \in Keys : clean[k] <= truth[k]

\* What is in Redis is no older than the last invalidation.
CachedIsClean ==
    \A k \in Keys : cached[k].full /\ ~cached[k].raced => cached[k].value >= clean[k]

\* Behind the scan, the written row's key is empty or current.
PassedIsCurrent ==
    LET k == writer.key IN
    writer.at = "scan" /\ k \notin writer.left /\ cached[k].full /\ ~cached[k].raced
        => cached[k].value >= truth[k]

\* A call's floor was reached before it asked, and what it computed is later.
ReadersAreAhead ==
    \A r \in Readers :
        /\ reader[r].at \in {"look", "get", "compute"} => reader[r].floor <= clean[reader[r].key]
        /\ reader[r].at = "store" => reader[r].floor <= reader[r].value

CacheInv ==
    /\ CacheTypeOK /\ CleanIsPast /\ CachedIsClean
    /\ PassedIsCurrent /\ ReadersAreAhead /\ ReadsAfterInvalidation

-----------------------------------------------------------------------------
(* The records that NoCall, NoWrite and Empty stand for have their types.   *)

LEMMA Idle == NoCall \in ReaderType /\ NoWrite \in WriterType /\ Empty \in Entry
<1>1. AnyKey \in Keys
  BY CacheAssumption DEF AnyKey
<1> QED
  BY <1>1, CacheAssumption
     DEF NoCall, NoWrite, Empty, None, Versions, ReaderType, WriterType, Entry

LEMMA CacheInitially == CacheInit => CacheInv
<1> SUFFICES ASSUME CacheInit PROVE CacheInv
  OBVIOUS
<1>1. CacheTypeOK
  BY Idle, CacheAssumption DEF CacheInit, CacheTypeOK, Versions, None
<1>2. CleanIsPast /\ CachedIsClean /\ PassedIsCurrent /\ ReadersAreAhead /\ ReadsAfterInvalidation
  BY DEF CacheInit, CleanIsPast, CachedIsClean, PassedIsCurrent, ReadersAreAhead,
         ReadsAfterInvalidation, NoCall, NoWrite, Empty, None
<1> QED BY <1>1, <1>2 DEF CacheInv

LEMMA CacheStutter == CacheInv /\ UNCHANGED cache => CacheInv'
BY DEF cache, CacheInv, CacheTypeOK, CleanIsPast, CachedIsClean, PassedIsCurrent,
       ReadersAreAhead, ReadsAfterInvalidation
-----------------------------------------------------------------------------
(* The actions.                                                             *)

LEMMA CallKeepsCache ==
    ASSUME NEW r \in Readers, NEW k \in Keys, NEW stage \in {"look", "get"}, CacheInv,
           Call(r, k, stage)
    PROVE  CacheInv'
<1> USE CacheAssumption
   DEF CacheInv, CacheTypeOK, Versions, ReaderType, WriterType, Entry, Call, None
<1>1. CacheTypeOK'
  OBVIOUS
<1>2. CleanIsPast'
  BY DEF CleanIsPast
<1>3. CachedIsClean'
  BY DEF CachedIsClean
<1>4. PassedIsCurrent'
  BY DEF PassedIsCurrent
<1>5. ReadersAreAhead'
  BY DEF ReadersAreAhead
<1>6. ReadsAfterInvalidation'
  BY DEF ReadsAfterInvalidation
<1> QED BY <1>1, <1>2, <1>3, <1>4, <1>5, <1>6

LEMMA LookUpKeepsCache ==
    ASSUME NEW r \in Readers, CacheInv, LookUp(r)
    PROVE  CacheInv'
<1> USE CacheAssumption DEF CacheInv, CacheTypeOK, Versions, ReaderType, WriterType, Entry, LookUp, Hit,
    Found
<1>1. CacheTypeOK'
  <2>1. reader[r] \in ReaderType /\ cached[reader[r].key] \in Entry
    OBVIOUS
  <2>2. reader'[r] \in ReaderType
    BY <2>1, Idle
  <2>3. reader' \in [Readers -> ReaderType]
    BY <2>2
  <2> QED BY <2>3
<1>2. CleanIsPast'
  BY DEF CleanIsPast, NoCall
<1>3. CachedIsClean'
  BY DEF CachedIsClean
<1>4. PassedIsCurrent'
  BY DEF PassedIsCurrent
<1>5. ReadersAreAhead'
  BY DEF ReadersAreAhead, NoCall
<1>6. ReadsAfterInvalidation'
  BY DEF ReadsAfterInvalidation, NoCall, CachedIsClean, ReadersAreAhead
<1> QED BY <1>1, <1>2, <1>3, <1>4, <1>5, <1>6

LEMMA GetKeepsCache ==
    ASSUME NEW r \in Readers, CacheInv, Get(r)
    PROVE  CacheInv'
<1> USE CacheAssumption DEF CacheInv, CacheTypeOK, Versions, ReaderType, WriterType, Entry, Get, Hit,
    Found
<1>1. CacheTypeOK'
  <2>1. reader[r] \in ReaderType /\ cached[reader[r].key] \in Entry
    OBVIOUS
  <2>2. reader'[r] \in ReaderType
    BY <2>1
  <2>3. reader' \in [Readers -> ReaderType]
    BY <2>2
  <2> QED BY <2>3
<1>2. CleanIsPast'
  BY DEF CleanIsPast
<1>3. CachedIsClean'
  BY DEF CachedIsClean
<1>4. PassedIsCurrent'
  BY DEF PassedIsCurrent
<1>5. ReadersAreAhead'
  BY DEF ReadersAreAhead
<1>6. ReadsAfterInvalidation'
  BY DEF ReadsAfterInvalidation, CachedIsClean, ReadersAreAhead
<1> QED BY <1>1, <1>2, <1>3, <1>4, <1>5, <1>6

LEMMA ComputeKeepsCache ==
    ASSUME NEW r \in Readers, CacheInv, Compute(r)
    PROVE  CacheInv'
<1> USE CacheAssumption DEF CacheInv, CacheTypeOK, Versions, ReaderType, WriterType, Entry, Compute
<1>1. CacheTypeOK'
  <2>1. reader[r] \in ReaderType /\ truth[reader[r].key] \in Versions
    OBVIOUS
  <2>2. reader'[r] \in ReaderType
    BY <2>1
  <2>3. reader' \in [Readers -> ReaderType]
    BY <2>2
  <2> QED BY <2>3
<1>2. CleanIsPast'
  BY DEF CleanIsPast
<1>3. CachedIsClean'
  BY DEF CachedIsClean
<1>4. PassedIsCurrent'
  BY DEF PassedIsCurrent
<1>5. ReadersAreAhead'
  BY DEF ReadersAreAhead, CleanIsPast
<1>6. ReadsAfterInvalidation'
  BY DEF ReadsAfterInvalidation
<1> QED BY <1>1, <1>2, <1>3, <1>4, <1>5, <1>6

LEMMA FactoryFailsKeepsCache ==
    ASSUME NEW r \in Readers, CacheInv, FactoryFails(r)
    PROVE  CacheInv'
<1> USE CacheAssumption
   DEF CacheInv, CacheTypeOK, Versions, ReaderType, WriterType, Entry, FactoryFails
<1>1. CacheTypeOK'
  BY Idle
<1>2. CleanIsPast'
  BY DEF CleanIsPast, NoCall
<1>3. CachedIsClean'
  BY DEF CachedIsClean, NoCall
<1>4. PassedIsCurrent'
  BY DEF PassedIsCurrent, NoCall
<1>5. ReadersAreAhead'
  BY DEF ReadersAreAhead, NoCall
<1>6. ReadsAfterInvalidation'
  BY DEF ReadsAfterInvalidation, NoCall
<1> QED BY <1>1, <1>2, <1>3, <1>4, <1>5, <1>6

LEMMA StoreKeepsCache ==
    ASSUME NEW r \in Readers, CacheInv, Store(r)
    PROVE  CacheInv'
<1> USE CacheAssumption DEF CacheInv, CacheTypeOK, Versions, ReaderType, WriterType, Entry, Store
<1>1. CacheTypeOK'
  OBVIOUS
<1>2. CleanIsPast'
  BY DEF CleanIsPast
<1>3. CachedIsClean'
  BY DEF CachedIsClean, CleanIsPast
<1>4. PassedIsCurrent'
  <2> DEFINE k == reader[r].key
  <2>1. CASE up /\ k = writer.key
    <3>1. ~cached'[k].raced => cached'[k].value = truth[k]
      BY <2>1
    <3> QED BY <2>1, <3>1 DEF PassedIsCurrent
  <2>2. CASE ~(up /\ k = writer.key)
    <3>1. cached'[writer.key] = cached[writer.key]
      BY <2>2
    <3> QED BY <3>1 DEF PassedIsCurrent
  <2> QED BY <2>1, <2>2
<1>5. ReadersAreAhead'
  BY DEF ReadersAreAhead
<1>6. ReadsAfterInvalidation'
  BY DEF ReadsAfterInvalidation, ReadersAreAhead
<1> QED BY <1>1, <1>2, <1>3, <1>4, <1>5, <1>6

LEMMA AnswerKeepsCache ==
    ASSUME NEW r \in Readers, CacheInv, Answer(r)
    PROVE  CacheInv'
<1> USE CacheAssumption DEF CacheInv, CacheTypeOK, Versions, ReaderType, WriterType, Entry, Answer
<1>1. CacheTypeOK'
  BY Idle
<1>2. CleanIsPast'
  BY DEF CleanIsPast, NoCall
<1>3. CachedIsClean'
  BY DEF CachedIsClean, NoCall
<1>4. PassedIsCurrent'
  BY DEF PassedIsCurrent, NoCall
<1>5. ReadersAreAhead'
  BY DEF ReadersAreAhead, NoCall
<1>6. ReadsAfterInvalidation'
  BY DEF ReadsAfterInvalidation, NoCall
<1> QED BY <1>1, <1>2, <1>3, <1>4, <1>5, <1>6

LEMMA WriteKeepsCache ==
    ASSUME NEW k \in Keys, CacheInv, Write(k)
    PROVE  CacheInv'
<1> USE CacheAssumption DEF CacheInv, CacheTypeOK, Versions, ReaderType, WriterType, Entry, Write
<1>1. CacheTypeOK'
  OBVIOUS
<1>2. CleanIsPast'
  BY DEF CleanIsPast
<1>3. CachedIsClean'
  BY DEF CachedIsClean
<1>4. PassedIsCurrent'
  BY DEF PassedIsCurrent
<1>5. ReadersAreAhead'
  BY DEF ReadersAreAhead
<1>6. ReadsAfterInvalidation'
  BY DEF ReadsAfterInvalidation
<1> QED BY <1>1, <1>2, <1>3, <1>4, <1>5, <1>6

LEMMA SetThroughKeepsCache ==
    ASSUME CacheInv, SetThrough
    PROVE  CacheInv'
<1> USE CacheAssumption
   DEF CacheInv, CacheTypeOK, Versions, ReaderType, WriterType, Entry, SetThrough, Finished
<1>1. CacheTypeOK'
  BY Idle
<1>2. CleanIsPast'
  BY DEF CleanIsPast, NoWrite
<1>3. CachedIsClean'
  BY DEF CachedIsClean, NoWrite
<1>4. PassedIsCurrent'
  BY DEF PassedIsCurrent, NoWrite
<1>5. ReadersAreAhead'
  BY DEF ReadersAreAhead, CleanIsPast, NoWrite
<1>6. ReadsAfterInvalidation'
  BY DEF ReadsAfterInvalidation, NoWrite
<1> QED BY <1>1, <1>2, <1>3, <1>4, <1>5, <1>6

LEMMA DeleteKeepsCache ==
    ASSUME CacheInv, Delete
    PROVE  CacheInv'
<1> USE CacheAssumption
   DEF CacheInv, CacheTypeOK, Versions, ReaderType, WriterType, Entry, Delete, Finished
<1>1. CacheTypeOK'
  BY Idle
<1>2. CleanIsPast'
  BY DEF CleanIsPast, NoWrite, Empty
<1>3. CachedIsClean'
  BY DEF CachedIsClean, NoWrite, Empty
<1>4. PassedIsCurrent'
  BY DEF PassedIsCurrent, NoWrite, Empty
<1>5. ReadersAreAhead'
  BY DEF ReadersAreAhead, CleanIsPast, NoWrite, Empty
<1>6. ReadsAfterInvalidation'
  BY DEF ReadsAfterInvalidation, NoWrite, Empty
<1> QED BY <1>1, <1>2, <1>3, <1>4, <1>5, <1>6

LEMMA ScanStartKeepsCache ==
    ASSUME CacheInv, ScanStart
    PROVE  CacheInv'
<1> USE CacheAssumption
   DEF CacheInv, CacheTypeOK, Versions, ReaderType, WriterType, Entry, ScanStart
<1>1. CacheTypeOK'
  OBVIOUS
<1>2. CleanIsPast'
  BY DEF CleanIsPast
<1>3. CachedIsClean'
  BY DEF CachedIsClean
<1>4. PassedIsCurrent'
  BY DEF PassedIsCurrent
<1>5. ReadersAreAhead'
  BY DEF ReadersAreAhead
<1>6. ReadsAfterInvalidation'
  BY DEF ReadsAfterInvalidation
<1> QED BY <1>1, <1>2, <1>3, <1>4, <1>5, <1>6

LEMMA ScanDeleteKeepsCache ==
    ASSUME NEW k \in Keys, CacheInv, ScanDelete(k)
    PROVE  CacheInv'
<1> USE CacheAssumption
   DEF CacheInv, CacheTypeOK, Versions, ReaderType, WriterType, Entry, ScanDelete
<1>1. CacheTypeOK'
  BY Idle
<1>2. CleanIsPast'
  BY DEF CleanIsPast, Empty
<1>3. CachedIsClean'
  BY DEF CachedIsClean, Empty
<1>4. PassedIsCurrent'
  BY DEF PassedIsCurrent, Empty
<1>5. ReadersAreAhead'
  BY DEF ReadersAreAhead, Empty
<1>6. ReadsAfterInvalidation'
  BY DEF ReadsAfterInvalidation, Empty
<1> QED BY <1>1, <1>2, <1>3, <1>4, <1>5, <1>6

LEMMA ScanEndsKeepsCache ==
    ASSUME CacheInv, ScanEnds
    PROVE  CacheInv'
<1> USE CacheAssumption
   DEF CacheInv, CacheTypeOK, Versions, ReaderType, WriterType, Entry, ScanEnds, Finished
<1>1. CacheTypeOK'
  BY Idle
<1>2. CleanIsPast'
  BY DEF CleanIsPast, NoWrite
<1>3. CachedIsClean'
  BY DEF CachedIsClean, PassedIsCurrent, NoWrite
<1>4. PassedIsCurrent'
  BY DEF PassedIsCurrent, NoWrite
<1>5. ReadersAreAhead'
  BY DEF ReadersAreAhead, CleanIsPast, NoWrite
<1>6. ReadsAfterInvalidation'
  BY DEF ReadsAfterInvalidation, NoWrite
<1> QED BY <1>1, <1>2, <1>3, <1>4, <1>5, <1>6

LEMMA InvalidationFailsKeepsCache ==
    ASSUME CacheInv, InvalidationFails
    PROVE  CacheInv'
<1> USE CacheAssumption
   DEF CacheInv, CacheTypeOK, Versions, ReaderType, WriterType, Entry, InvalidationFails,
       Finished, Missed, Outdated
<1>1. CacheTypeOK'
  BY Idle
<1>2. CleanIsPast'
  BY DEF CleanIsPast, NoWrite
<1>3. CachedIsClean'
  BY DEF CachedIsClean, NoWrite
<1>4. PassedIsCurrent'
  BY DEF PassedIsCurrent, NoWrite
<1>5. ReadersAreAhead'
  BY DEF ReadersAreAhead, CleanIsPast, NoWrite
<1>6. ReadsAfterInvalidation'
  BY DEF ReadsAfterInvalidation, NoWrite
<1> QED BY <1>1, <1>2, <1>3, <1>4, <1>5, <1>6

LEMMA ExpireKeepsCache ==
    ASSUME NEW k \in Keys, CacheInv, Expire(k)
    PROVE  CacheInv'
<1> USE CacheAssumption DEF CacheInv, CacheTypeOK, Versions, ReaderType, WriterType, Entry, Expire
<1>1. CacheTypeOK'
  BY Idle
<1>2. CleanIsPast'
  BY DEF CleanIsPast, Empty
<1>3. CachedIsClean'
  BY DEF CachedIsClean, Empty
<1>4. PassedIsCurrent'
  BY DEF PassedIsCurrent, Empty
<1>5. ReadersAreAhead'
  BY DEF ReadersAreAhead, Empty
<1>6. ReadsAfterInvalidation'
  BY DEF ReadsAfterInvalidation, Empty
<1> QED BY <1>1, <1>2, <1>3, <1>4, <1>5, <1>6

-----------------------------------------------------------------------------
(* The server and the throttler leave the cache alone.                      *)

LEMMA CacheStep ==
    ASSUME CacheInv, [Next]_vars
    PROVE  CacheInv'
<1>1. CASE UNCHANGED cache
  BY <1>1, CacheStutter
<1>2. ASSUME NEW r \in Readers, Reads(r)
      PROVE  CacheInv'
  BY <1>2, LookUpKeepsCache, GetKeepsCache, ComputeKeepsCache, FactoryFailsKeepsCache,
     StoreKeepsCache, AnswerKeepsCache
     DEF Reads
<1>3. ASSUME NEW r \in Readers, NEW k \in Keys, NEW stage \in {"look", "get"}, Call(r, k, stage)
      PROVE  CacheInv'
  BY <1>3, CallKeepsCache
<1>4. ASSUME NEW k \in Keys, Write(k) \/ Expire(k)
      PROVE  CacheInv'
  BY <1>4, WriteKeepsCache, ExpireKeepsCache
<1>5. CASE Invalidates
  BY <1>5, SetThroughKeepsCache, DeleteKeepsCache, ScanStartKeepsCache, ScanEndsKeepsCache,
     InvalidationFailsKeepsCache, ScanDeleteKeepsCache DEF Invalidates
<1> QED
  BY <1>1, <1>2, <1>3, <1>4, <1>5 DEF Next, Server, Caches, Throttles, CacheNext, vars

LEMMA CacheAlways == Spec => []CacheInv
<1>1. Init => CacheInv
  BY CacheInitially DEF Init
<1>2. CacheInv /\ [Next]_vars => CacheInv'
  BY CacheStep
<1> QED BY <1>1, <1>2, PTL DEF Spec

(***************************************************************************)
(* However many readers, keys and writes: a call that begins after a row   *)
(* was invalidated or set anew answers with that version or a later one,   *)
(* unless the value was stored late or a delete was swallowed.             *)
(***************************************************************************)
THEOREM ReadsAreFresh == Spec => []ReadsAfterInvalidation
<1>1. CacheInv => ReadsAfterInvalidation
  BY DEF CacheInv
<1> QED BY <1>1, CacheAlways, PTL

-----------------------------------------------------------------------------
(* The throttler.  A log is the ages of hits, the newest first; what the    *)
(* storage counted is what was allowed and what an error let in, by age.    *)

IsLog(log) ==
    /\ log \in Seq(0..Window - 1)
    /\ \A i, j \in 1..Len(log) : i <= j => log[i] <= log[j]

Younger(log, a) == {i \in 1..Len(log) : log[i] < a}
Count(log, a) == Cardinality(Younger(log, a))

\* Refusals and clears keep the counter at what the histories say.
CountersAgree(l) ==
    /\ IsLog(entries[l]) /\ IsLog(passed[l]) /\ IsLog(opened[l])
    /\ \A a \in 0..Window :
          Count(entries[l], a) = Count(passed[l], a) + Count(opened[l], a)
    /\ Len(passed[l]) <= Amount[l]

ThrottleInv ==
    /\ asking \in AskingType
    /\ entries = [l \in Limits |-> entries[l]]
    /\ passed = [l \in Limits |-> passed[l]] /\ opened = [l \in Limits |-> opened[l]]
    /\ \A l \in Limits : CountersAgree(l)

LEMMA Ages ==
  ASSUME NEW log, IsLog(log)
  PROVE  /\ log \in Seq(0..Window - 1) /\ Len(log) \in Nat /\ DOMAIN log = 1..Len(log)
         /\ \A i \in 1..Len(log) : log[i] \in 0..Window - 1
         /\ \A i, j \in 1..Len(log) : i <= j => log[i] <= log[j]
<1>1. ASSUME NEW S, NEW s \in Seq(S)
      PROVE  Len(s) \in Nat /\ DOMAIN s = 1..Len(s) /\ \A i \in 1..Len(s) : s[i] \in S
  OBVIOUS
<1>2. log \in Seq(0..Window - 1) /\ \A i, j \in 1..Len(log) : i <= j => log[i] <= log[j]
  BY DEF IsLog
<1> QED
  BY <1>1, <1>2

\* The least-number principle: what holds of some numbers holds of a least one.
LEMMA LeastNatural ==
  ASSUME NEW T, T \subseteq Nat, T # {}
  PROVE  \E n \in T : \A m \in T : n <= m
<1>1. PICK n \in T : \A m \in T : <<m, n>> \notin OpToRel(<, Nat)
  BY NatLessThanWellFounded, WFMin
<1>2. \A m \in T : ~(m < n)
  BY <1>1 DEF OpToRel
<1>3. n \in Nat /\ \A m \in T : m \in Nat
  OBVIOUS
<1>4. \A m \in T : n <= m
  BY <1>2, <1>3
<1> QED
  BY <1>4

\* A set of places that has all places before its own is a front.
LEMMA Front ==
  ASSUME NEW n \in Nat, NEW S, S \subseteq 1..n,
         \A i \in S : \A j \in 1..n : j < i => j \in S
  PROVE  IsFiniteSet(S) /\ Cardinality(S) \in 0..n /\ S = 1..Cardinality(S)
<1> DEFINE T == (1..(n + 1)) \ S
<1>1. PICK m \in T : \A k \in T : m <= k
  <2>1. T \subseteq Nat /\ n + 1 \in T
    OBVIOUS
  <2> HIDE DEF T
  <2> QED
    BY <2>1, LeastNatural
<1>2. m \in 1..(n + 1) /\ m \notin S
  OBVIOUS
<1>3. \A i \in 1..(m - 1) : i \in S
  BY <1>1, <1>2
<1>4. \A i \in S : i \in 1..(m - 1)
  BY <1>2
<1>5. S = 1..(m - 1)
  BY <1>3, <1>4
<1>6. IsFiniteSet(1..(m - 1)) /\ Cardinality(1..(m - 1)) = m - 1
  BY <1>2, FS_Interval
<1> QED
  BY <1>2, <1>5, <1>6

LEMMA FrontCount ==
  ASSUME NEW k \in Nat
  PROVE  Cardinality(1..k) = k
BY FS_Interval

\* The younger hits are the front of a log.
LEMMA YoungerIsFront ==
  ASSUME NEW log, IsLog(log), NEW a \in 0..Window
  PROVE  Count(log, a) \in 0..Len(log) /\ Younger(log, a) = 1..Count(log, a)
<1>1. Len(log) \in Nat /\ \A i \in 1..Len(log) : log[i] \in 0..Window - 1
  BY Ages
<1>2. \A i \in Younger(log, a) : \A j \in 1..Len(log) : j < i => j \in Younger(log, a)
  BY <1>1, ThrottlerAssumption DEF IsLog, Younger
<1>3. Younger(log, a) \subseteq 1..Len(log)
  BY DEF Younger
<1> QED
  BY <1>1, <1>2, <1>3, Front DEF Count

LEMMA AllAreYounger ==
  ASSUME NEW log, IsLog(log)
  PROVE  Count(log, Window) = Len(log) /\ Count(log, 0) = 0
<1>1. Len(log) \in Nat /\ \A i \in 1..Len(log) : log[i] \in 0..Window - 1
  BY Ages
<1>2. Younger(log, Window) = 1..Len(log) /\ Younger(log, 0) = {}
  BY <1>1, ThrottlerAssumption DEF Younger
<1> QED
  BY <1>1, <1>2, FrontCount, FS_EmptySet DEF Count

LEMMA NoLog ==
  IsLog(<<>>) /\ Len(<<>>) = 0 /\ \A a \in 0..Window : Count(<<>>, a) = 0
<1>1. IsLog(<<>>) /\ Len(<<>>) = 0
  BY DEF IsLog
<1>2. \A a : Younger(<<>>, a) = {}
  BY DEF Younger
<1> QED
  BY <1>1, <1>2, FS_EmptySet DEF Count

\* A hit is noted.
LEMMA NotedCounts ==
  ASSUME NEW log, IsLog(log)
  PROVE  /\ IsLog(<<0>> \o log) /\ Len(<<0>> \o log) = Len(log) + 1
         /\ \A a \in 1..Window : Count(<<0>> \o log, a) = Count(log, a) + 1
<1> DEFINE new == <<0>> \o log
<1>1. /\ log \in Seq(0..Window - 1) /\ Len(log) \in Nat
      /\ \A i \in 1..Len(log) : log[i] \in 0..Window - 1
      /\ \A i, j \in 1..Len(log) : i <= j => log[i] <= log[j]
  BY Ages
<1>2. Len(new) = Len(log) + 1 /\ new[1] = 0 /\ \A i \in 2..Len(new) : new[i] = log[i - 1]
  BY <1>1
<1>3. new \in Seq(0..Window - 1)
  BY <1>1, ThrottlerAssumption
<1> HIDE DEF new
<1>4. \A i, j \in 1..Len(new) : i <= j => new[i] <= new[j]
  <2> SUFFICES ASSUME NEW i \in 1..Len(new), NEW j \in 1..Len(new), i <= j
               PROVE  new[i] <= new[j]
    OBVIOUS
  <2>1. CASE i = 1
    <3>1. CASE j = 1
      BY <1>2, <2>1, <3>1
    <3>2. CASE j # 1
      <4>1. new[j] = log[j - 1] /\ j - 1 \in 1..Len(log)
        BY <1>1, <1>2, <3>2
      <4> QED
        BY <1>1, <1>2, <2>1, <4>1, ThrottlerAssumption
    <3> QED
      BY <3>1, <3>2
  <2>2. CASE i # 1
    BY <1>1, <1>2, <2>2
  <2> QED
    BY <2>1, <2>2
<1>5. IsLog(new)
  BY <1>3, <1>4 DEF IsLog
<1>6. ASSUME NEW a \in 1..Window PROVE Count(new, a) = Count(log, a) + 1
  <2>1. a \in 0..Window /\ a > 0
    BY ThrottlerAssumption
  <2>2. PICK k \in Nat : k = Count(log, a) /\ Younger(log, a) = 1..k
    BY <1>1, <2>1, YoungerIsFront
  <2>3. Younger(new, a) = 1..(k + 1)
    <3>1. ASSUME NEW i \in 1..Len(new) PROVE new[i] < a <=> i \in 1..(k + 1)
      <4>1. CASE i = 1
        BY <1>2, <2>1, <2>2, <4>1
      <4>2. CASE i # 1
        <5>1. new[i] = log[i - 1] /\ i - 1 \in 1..Len(log)
          BY <1>1, <1>2, <4>2
        <5>2. log[i - 1] < a <=> i - 1 \in 1..k
          BY <2>2, <5>1 DEF Younger
        <5> QED
          BY <2>2, <5>1, <5>2
      <4> QED
        BY <4>1, <4>2
    <3>2. 1..(k + 1) \subseteq 1..Len(new)
      <4>1. k \in 0..Len(log)
        BY <2>1, <2>2, YoungerIsFront
      <4> QED
        BY <1>1, <1>2, <4>1
    <3> QED
      BY <3>1, <3>2 DEF Younger
  <2>4. Cardinality(1..k) = k /\ Cardinality(1..(k + 1)) = k + 1
    <3>1. k \in Nat /\ k + 1 \in Nat
      BY <2>2
    <3> QED
      BY <3>1, FrontCount
  <2> QED
    BY <2>2, <2>3, <2>4 DEF Count
<1> QED
  BY <1>2, <1>5, <1>6 DEF new

\* A tick later.
Later(log) ==
    LET older == [i \in DOMAIN log |-> log[i] + 1]
    IN  SubSeq(older, 1, Cardinality({i \in DOMAIN older : older[i] < Window}))

LEMMA LaterCounts ==
  ASSUME NEW log, IsLog(log)
  PROVE  /\ IsLog(Later(log)) /\ Len(Later(log)) <= Len(log)
         /\ \A a \in 1..Window : Count(Later(log), a) = Count(log, a - 1)
<1>1. /\ DOMAIN log = 1..Len(log) /\ Len(log) \in Nat
      /\ \A i \in 1..Len(log) : log[i] \in 0..Window - 1
      /\ \A i, j \in 1..Len(log) : i <= j => log[i] <= log[j]
  BY Ages
<1>2. Window - 1 \in 0..Window /\ Window \in Nat
  BY ThrottlerAssumption
<1>3. PICK k \in 0..Len(log) : k = Count(log, Window - 1) /\ Younger(log, Window - 1) = 1..k
  BY <1>2, YoungerIsFront
<1>4. PICK older : older = [i \in 1..Len(log) |-> log[i] + 1]
  OBVIOUS
<1>5. /\ older \in Seq(1..Window) /\ Len(older) = Len(log) /\ DOMAIN older = 1..Len(log)
      /\ \A i \in 1..Len(log) : older[i] = log[i] + 1
  BY <1>1, <1>2, <1>4
<1>6. {i \in DOMAIN older : older[i] < Window} = Younger(log, Window - 1)
  BY <1>1, <1>2, <1>5 DEF Younger
<1>7. Later(log) = SubSeq(older, 1, k)
  BY <1>1, <1>3, <1>4, <1>6 DEF Later, Count
<1>8. PICK new : new = Later(log)
  OBVIOUS
<1>9. Len(new) = k /\ DOMAIN new = 1..k /\ \A i \in 1..k : new[i] = log[i] + 1
  BY <1>3, <1>5, <1>7, <1>8
<1>10. \A i \in 1..k : i \in 1..Len(log) /\ log[i] < Window - 1
  BY <1>1, <1>3 DEF Younger
<1>11. IsLog(new)
  <2>1. \A i \in 1..k : new[i] \in 0..Window - 1
    BY <1>1, <1>2, <1>9, <1>10
  <2>2. new \in Seq(0..Window - 1)
    BY <1>3, <1>5, <1>7, <1>8, <1>9, <2>1
  <2>3. \A i, j \in 1..Len(new) : i <= j => new[i] <= new[j]
    BY <1>1, <1>9, <1>10
  <2> QED
    BY <2>2, <2>3 DEF IsLog
<1>12. ASSUME NEW a \in 1..Window PROVE Younger(new, a) = Younger(log, a - 1)
  <2>1. a \in Nat /\ a - 1 \in 0..Window - 1
    BY <1>2
  <2>2. \A i \in Younger(log, a - 1) : i \in 1..k
    BY <1>1, <1>2, <1>3, <2>1 DEF Younger
  <2>3. \A i \in 1..k : new[i] < a <=> log[i] < a - 1
    BY <1>1, <1>9, <1>10, <2>1
  <2> QED
    BY <1>9, <1>10, <2>2, <2>3 DEF Younger
<1> QED
  BY <1>1, <1>3, <1>8, <1>9, <1>11, <1>12 DEF Count

-----------------------------------------------------------------------------
LEMMA ThrottleStarts ==
  ASSUME ThrottleInit
  PROVE  ThrottleInv
BY NoLog, ThrottlerAssumption DEF ThrottleInit, ThrottleInv, CountersAgree, NotAsking, AskingType, Limits

LEMMA SameCounters ==
  ASSUME NEW l, CountersAgree(l),
         entries'[l] = entries[l], passed'[l] = passed[l], opened'[l] = opened[l]
  PROVE  CountersAgree(l)'
BY DEF CountersAgree, IsLog, Count, Younger

\* A request goes on and the counters stay.
LEMMA AskingMoves ==
  ASSUME ThrottleInv, asking' \in AskingType, UNCHANGED <<entries, passed, opened>>
  PROVE  ThrottleInv'
<1>1. \A l \in Limits : CountersAgree(l)'
  BY SameCounters DEF ThrottleInv
<1> QED
  BY <1>1 DEF ThrottleInv

\* A hit is counted, and noted as allowed or as let in.
LEMMA HitCounts ==
  ASSUME ThrottleInv, NEW l \in Limits, asking' \in AskingType, ~Full(l),
         entries' = Noted(entries, l),
         \/ passed' = Noted(passed, l) /\ opened' = opened
         \/ passed' = passed /\ opened' = Noted(opened, l)
  PROVE  ThrottleInv'
<1>1. /\ entries = [k \in Limits |-> entries[k]]
      /\ passed = [k \in Limits |-> passed[k]] /\ opened = [k \in Limits |-> opened[k]]
      /\ \A k \in Limits : CountersAgree(k)
  BY DEF ThrottleInv
<1>2. /\ entries' = [k \in Limits |-> entries'[k]] /\ passed' = [k \in Limits |-> passed'[k]]
      /\ opened' = [k \in Limits |-> opened'[k]] /\ entries'[l] = <<0>> \o entries[l]
      /\ \/ passed'[l] = <<0>> \o passed[l] /\ opened'[l] = opened[l]
         \/ passed'[l] = passed[l] /\ opened'[l] = <<0>> \o opened[l]
      /\ \A k \in Limits \ {l} :
            entries'[k] = entries[k] /\ passed'[k] = passed[k] /\ opened'[k] = opened[k]
  BY <1>1 DEF Noted
<1>3. ASSUME NEW k \in Limits \ {l} PROVE CountersAgree(k)'
  BY <1>1, <1>2, <1>3, SameCounters
<1>4. PICK E, P, O : E = entries[l] /\ P = passed[l] /\ O = opened[l]
  OBVIOUS
<1>5. PICK F, Q, R : F = entries'[l] /\ Q = passed'[l] /\ R = opened'[l]
  OBVIOUS
<1>6. /\ IsLog(E) /\ IsLog(P) /\ IsLog(O) /\ Len(P) <= Amount[l] /\ Len(E) < Amount[l]
      /\ \A a \in 0..Window : Count(E, a) = Count(P, a) + Count(O, a)
      /\ F = <<0>> \o E
      /\ \/ Q = <<0>> \o P /\ R = O
         \/ Q = P /\ R = <<0>> \o O
  <2>1. Len(E) \in Nat /\ Amount[l] \in Nat
    BY <1>1, <1>4, ThrottlerAssumption DEF CountersAgree, IsLog
  <2> QED
    BY <1>1, <1>2, <1>4, <1>5, <2>1 DEF CountersAgree, Full
<1>7. \A a \in 0..Window : Count(E, a) \in Nat /\ Count(P, a) \in Nat /\ Count(O, a) \in Nat
  <2>1. Len(E) \in Nat /\ Len(P) \in Nat /\ Len(O) \in Nat
    BY <1>6, Ages
  <2> QED
    BY <1>6, <2>1, YoungerIsFront
<1>8. /\ IsLog(<<0>> \o E) /\ IsLog(<<0>> \o P) /\ IsLog(<<0>> \o O)
      /\ Len(<<0>> \o P) = Len(P) + 1
      /\ \A a \in 1..Window : /\ Count(<<0>> \o E, a) = Count(E, a) + 1
                              /\ Count(<<0>> \o P, a) = Count(P, a) + 1
                              /\ Count(<<0>> \o O, a) = Count(O, a) + 1
  BY <1>6, NotedCounts
<1>9. IsLog(F) /\ IsLog(Q) /\ IsLog(R)
  BY <1>6, <1>8
<1>10. ASSUME NEW a \in 0..Window PROVE Count(F, a) = Count(Q, a) + Count(R, a)
  <2>1. CASE a = 0
    BY <1>9, <2>1, AllAreYounger
  <2>2. CASE a # 0
    <3>1. a \in 1..Window /\ a \in 0..Window
      BY <2>2, ThrottlerAssumption
    <3>2. /\ Count(<<0>> \o E, a) = Count(E, a) + 1 /\ Count(E, a) = Count(P, a) + Count(O, a)
          /\ Count(<<0>> \o P, a) = Count(P, a) + 1 /\ Count(<<0>> \o O, a) = Count(O, a) + 1
          /\ Count(P, a) \in Nat /\ Count(O, a) \in Nat
      BY <1>6, <1>7, <1>8, <3>1
    <3>3. CASE Q = <<0>> \o P /\ R = O
      BY <1>6, <3>2, <3>3
    <3>4. CASE Q = P /\ R = <<0>> \o O
      BY <1>6, <3>2, <3>4
    <3> QED
      BY <1>6, <3>3, <3>4
  <2> QED
    BY <2>1, <2>2
<1>11. Len(Q) <= Amount[l]
  <2>1. Len(P) <= Len(E) /\ Len(P) \in Nat /\ Len(E) \in Nat /\ Amount[l] \in Nat
    <3>1. Window \in 0..Window
      BY ThrottlerAssumption
    <3>2. Len(E) = Len(P) + Len(O)
      BY <1>6, <3>1, AllAreYounger
    <3> QED
      BY <1>6, <3>2, ThrottlerAssumption DEF IsLog
  <2> QED
    BY <1>6, <1>8, <2>1
<1>12. CountersAgree(l)'
  BY <1>5, <1>9, <1>10, <1>11 DEF CountersAgree, IsLog, Count, Younger
<1> QED
  BY <1>2, <1>3, <1>12 DEF ThrottleInv

\* clear empties a counter and both its histories.
LEMMA ClearKeepsThrottle ==
  ASSUME ThrottleInv, Clear
  PROVE  ThrottleInv'
<1>1. /\ entries = [k \in Limits |-> entries[k]]
      /\ passed = [k \in Limits |-> passed[k]] /\ opened = [k \in Limits |-> opened[k]]
      /\ asking' \in AskingType /\ \A k \in Limits : CountersAgree(k)
  BY DEF ThrottleInv, Clear
<1>2. /\ entries' = [k \in Limits |-> entries'[k]] /\ passed' = [k \in Limits |-> passed'[k]]
      /\ opened' = [k \in Limits |-> opened'[k]]
      /\ \A k \in Limits :
            \/ entries'[k] = <<>> /\ passed'[k] = <<>> /\ opened'[k] = <<>>
            \/ entries'[k] = entries[k] /\ passed'[k] = passed[k] /\ opened'[k] = opened[k]
  BY <1>1 DEF Clear, Cleared, Limits
<1>3. ASSUME NEW k \in Limits PROVE CountersAgree(k)'
  <2>1. CASE entries'[k] = <<>> /\ passed'[k] = <<>> /\ opened'[k] = <<>>
    <3>1. /\ IsLog(<<>>) /\ Len(<<>>) <= Amount[k]
          /\ \A a \in 0..Window : Count(<<>>, a) = Count(<<>>, a) + Count(<<>>, a)
      BY NoLog, ThrottlerAssumption
    <3> QED
      BY <2>1, <3>1 DEF CountersAgree, IsLog, Count, Younger
  <2>2. CASE entries'[k] = entries[k] /\ passed'[k] = passed[k] /\ opened'[k] = opened[k]
    BY <1>1, <2>2, SameCounters
  <2> QED
    BY <1>2, <2>1, <2>2
<1> QED
  BY <1>1, <1>2, <1>3 DEF ThrottleInv

\* A tick ages the counters and the histories alike.
LEMMA SlideKeepsThrottle ==
  ASSUME ThrottleInv, Slide
  PROVE  ThrottleInv'
<1>1. asking' \in AskingType /\ \A k \in Limits : CountersAgree(k)
  BY DEF ThrottleInv, Slide
<1>2. \A log : Aged(log) = [k \in Limits |-> Later(log[k])]
  BY DEF Aged, Later
<1>3. /\ entries' = [k \in Limits |-> Later(entries[k])]
      /\ passed' = [k \in Limits |-> Later(passed[k])]
      /\ opened' = [k \in Limits |-> Later(opened[k])]
  BY <1>2 DEF Slide
<1>4. ASSUME NEW k \in Limits PROVE CountersAgree(k)'
  <2>1. PICK E, P, O : E = entries[k] /\ P = passed[k] /\ O = opened[k]
    OBVIOUS
  <2>2. /\ IsLog(E) /\ IsLog(P) /\ IsLog(O) /\ Len(P) <= Amount[k]
        /\ \A a \in 0..Window : Count(E, a) = Count(P, a) + Count(O, a)
    BY <1>1, <2>1 DEF CountersAgree
  <2>3. PICK F, Q, R : F = Later(E) /\ Q = Later(P) /\ R = Later(O)
    OBVIOUS
  <2>4. F = entries'[k] /\ Q = passed'[k] /\ R = opened'[k]
    BY <1>3, <2>1, <2>3
  <2>5. /\ IsLog(F) /\ IsLog(Q) /\ IsLog(R) /\ Len(Q) <= Len(P)
        /\ \A a \in 1..Window : /\ Count(F, a) = Count(E, a - 1)
                                /\ Count(Q, a) = Count(P, a - 1)
                                /\ Count(R, a) = Count(O, a - 1)
    BY <2>2, <2>3, LaterCounts
  <2>6. ASSUME NEW a \in 0..Window PROVE Count(F, a) = Count(Q, a) + Count(R, a)
    <3>1. CASE a = 0
      BY <2>5, <3>1, AllAreYounger
    <3>2. CASE a # 0
      <4>1. a \in 1..Window /\ a - 1 \in 0..Window
        BY <3>2, ThrottlerAssumption
      <4> QED
        BY <2>2, <2>5, <4>1
    <3> QED
      BY <3>1, <3>2
  <2>7. Len(Q) <= Amount[k]
    <3>1. Len(Q) \in Nat /\ Len(P) \in Nat /\ Amount[k] \in Nat
      BY <2>2, <2>5, ThrottlerAssumption DEF IsLog
    <3> QED
      BY <2>2, <2>5, <3>1
  <2> QED
    BY <2>4, <2>5, <2>6, <2>7 DEF CountersAgree, IsLog, Count, Younger
<1>5. /\ entries' = [k \in Limits |-> entries'[k]] /\ passed' = [k \in Limits |-> passed'[k]]
      /\ opened' = [k \in Limits |-> opened'[k]]
  BY <1>3
<1> QED
  BY <1>1, <1>4, <1>5 DEF ThrottleInv

LEMMA ThrottleMoves ==
  ASSUME ThrottleInv, ThrottleNext
  PROVE  ThrottleInv'
<1>1. asking \in AskingType /\ NotAsking \in AskingType
  BY DEF ThrottleInv, NotAsking, AskingType
<1>2. /\ [asking EXCEPT !.at = "stats"] \in AskingType
      /\ [asking EXCEPT !.at = "stats", !.refused = TRUE] \in AskingType
  <2>1. PICK q \in AskingType : q = [asking EXCEPT !.at = "stats"]
    BY <1>1 DEF AskingType
  <2>2. [q EXCEPT !.refused = TRUE] \in AskingType
    BY DEF AskingType
  <2>3. [asking EXCEPT !.at = "stats", !.refused = TRUE] = [q EXCEPT !.refused = TRUE]
    BY <2>1
  <2> QED
    BY <2>1, <2>2, <2>3
<1>3. ASSUME NEW l \in Limits, NEW by \in {"dependency", "middleware"}, Ask(l, by)
      PROVE  ThrottleInv'
  <2>1. asking' \in AskingType
    BY <1>3 DEF Ask, AskingType
  <2> QED
    BY <1>3, <2>1, AskingMoves DEF Ask
<1>4. ASSUME NEW l \in Limits, HitAllowed(l) PROVE ThrottleInv'
  BY <1>1, <1>2, <1>4, HitCounts DEF HitAllowed
<1>5. ASSUME NEW l \in Limits, HitRefused(l) PROVE ThrottleInv'
  BY <1>2, <1>5, AskingMoves DEF HitRefused
<1>6. ASSUME NEW l \in Limits, HitDisabled(l) PROVE ThrottleInv'
  BY <1>1, <1>2, <1>6, AskingMoves DEF HitDisabled
<1>7. ASSUME NEW l \in Limits, Stats(l) PROVE ThrottleInv'
  BY <1>1, <1>7, AskingMoves DEF Stats
<1>8. ASSUME NEW l \in Limits, NEW counted \in BOOLEAN, FailOpen(l, counted)
      PROVE  ThrottleInv'
  <2>1. CASE counted
    BY <1>1, <1>8, <2>1, HitCounts DEF FailOpen
  <2>2. CASE ~counted
    BY <1>1, <1>8, <2>2, AskingMoves DEF FailOpen
  <2> QED
    BY <2>1, <2>2
<1>9. ASSUME NEW enabled \in BOOLEAN, Configure(enabled) PROVE ThrottleInv'
  BY <1>1, <1>9, AskingMoves DEF Configure
<1> QED
  BY <1>3, <1>4, <1>5, <1>6, <1>7, <1>8, <1>9, ClearKeepsThrottle, SlideKeepsThrottle
     DEF ThrottleNext

LEMMA ThrottleStays ==
  ASSUME ThrottleInv, UNCHANGED throttle
  PROVE  ThrottleInv'
BY AskingMoves DEF throttle, ThrottleInv

LEMMA ThrottleAlways == Spec => []ThrottleInv
<1>1. Init => ThrottleInv
  BY ThrottleStarts DEF Init
<1>2. ThrottleInv /\ [Next]_vars => ThrottleInv'
  <2>1. CASE Throttles
    BY <2>1, ThrottleMoves DEF Throttles
  <2>2. CASE UNCHANGED throttle
    BY <2>2, ThrottleStays
  <2>3. ASSUME [Next]_vars PROVE Throttles \/ UNCHANGED throttle
    BY <2>3 DEF Next, Server, Caches, vars
  <2> QED
    BY <2>1, <2>2, <2>3
<1> QED
  BY <1>1, <1>2, PTL DEF Spec

\* LimitHolds: in any window at most the configured number of requests are
\* allowed under a limit, whatever the window, the amounts and the outages.
\* (hit, clear and the fail-open branches of apply_rate_limit.)
THEOREM LimitNeverExceeded == Spec => []LimitHolds
<1>1. ThrottleInv => LimitHolds
  BY DEF ThrottleInv, CountersAgree, LimitHolds
<1> QED
  BY <1>1, ThrottleAlways, PTL

\* RefusedOnlyWhenUsedUp: hit refuses a request only when as many as the limit
\* allows were let in within the window, and since the last clear.
THEOREM RefusalsAreEarned == Spec => RefusedOnlyWhenUsedUp
<1>1. ASSUME ThrottleInv, [Next]_vars, ~UNCHANGED throttle, NEW l \in Limits,
             asking'.limit = l, asking'.refused, ~asking.refused
      PROVE  Len(passed[l]) + Len(opened[l]) >= Amount[l]
  <2>1. asking \in AskingType
    BY <1>1 DEF ThrottleInv
  <2>2. \E k \in Limits : HitRefused(k)
    <3>1. ThrottleNext
      BY <1>1 DEF Next, Server, Caches, Throttles, vars
    <3>2. asking' # asking /\ asking' # NotAsking /\ asking' # [asking EXCEPT !.at = "stats"]
      <4>1. [asking EXCEPT !.at = "stats"].refused = asking.refused
        BY <2>1 DEF AskingType
      <4>2. NotAsking.refused = FALSE
        BY DEF NotAsking
      <4> QED
        BY <1>1, <4>1, <4>2
    <3>3. ~(\E k \in Limits, by \in {"dependency", "middleware"} : Ask(k, by))
      BY <1>1 DEF Ask
    <3> QED
      BY <3>1, <3>2, <3>3 DEF ThrottleNext, HitAllowed, HitDisabled, Stats, FailOpen,
                              Configure, Clear, Slide
  <2>3. PICK k \in Limits : HitRefused(k)
    BY <2>2
  <2>4. k = l /\ Full(l)
    <3>1. [asking EXCEPT !.at = "stats", !.refused = TRUE].limit = asking.limit
      BY <2>1 DEF AskingType
    <3> QED
      BY <1>1, <2>3, <3>1 DEF HitRefused, Hits
  <2>5. Len(entries[l]) = Len(passed[l]) + Len(opened[l])
    <3>1. Window \in 0..Window /\ CountersAgree(l)
      BY <1>1, ThrottlerAssumption DEF ThrottleInv
    <3> QED
      BY <3>1, AllAreYounger DEF CountersAgree
  <2> QED
    BY <2>4, <2>5 DEF Full
<1>2. ThrottleInv /\ [Next]_vars =>
        [\A l \in Limits :
            asking'.limit = l /\ asking'.refused /\ ~asking.refused =>
                Len(passed[l]) + Len(opened[l]) >= Amount[l]]_throttle
  BY <1>1
<1> QED
  BY <1>2, ThrottleAlways, PTL DEF Spec, RefusedOnlyWhenUsedUp
=============================================================================
