------------------------------- MODULE Redis --------------------------------
(***************************************************************************)
(* The Redis server the cache and the throttler share: a call either is    *)
(* executed or raises.  An outage between two calls of a client is one     *)
(* that the client notices at its second call.                             *)
(***************************************************************************)
EXTENDS Naturals, Sequences

CONSTANTS MaxOutages        \* bound: outages

ASSUME RedisAssumption == MaxOutages \in Nat

VARIABLES
    up,         \* calls are executed
    outages     \* bound counter

redis == <<up, outages>>

RedisInit == up = TRUE /\ outages = 0

Outage ==
    /\ up /\ outages < MaxOutages
    /\ up' = FALSE /\ outages' = outages + 1

Recovery ==
    /\ ~up
    /\ up' = TRUE /\ UNCHANGED outages
=============================================================================
