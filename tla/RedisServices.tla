--------------------------- MODULE RedisServices ----------------------------
(***************************************************************************)
(* An application whose cache and rate limits live on one Redis server:    *)
(* an outage strikes both, and both go on without it.  They share nothing   *)
(* but the server, so a behaviour is about one of them.                     *)
(***************************************************************************)
EXTENDS Cache, Throttler

VARIABLE about

vars == <<redis, cache, throttle, about>>

Init == RedisInit /\ CacheInit /\ ThrottleInit /\ about \in {"cache", "limits"}

Server == (Outage \/ Recovery) /\ UNCHANGED <<cache, throttle, about>>
Caches == about = "cache" /\ CacheNext /\ UNCHANGED <<redis, throttle, about>>
Throttles == about = "limits" /\ ThrottleNext /\ UNCHANGED <<redis, cache, about>>

Next == Server \/ Caches \/ Throttles

Spec == Init /\ [][Next]_vars

-----------------------------------------------------------------------------
\* The server, the cache and the counters keep their types.
TypeOK ==
    /\ up \in BOOLEAN /\ outages \in 0..MaxOutages
    /\ CacheTypeOK /\ ThrottleTypeOK
=============================================================================
