-------------------------- MODULE MCRedisServices ---------------------------
(* Instances of RedisServices for TLC. *)
EXTENDS RedisServices, TLC

CONSTANTS k1, k2, r1, r2

\* One request per window under the namespace's limit, two under the custom one.
MCAmount == [l \in Limits |-> IF l = "namespace" THEN 1 ELSE 2]
\* Readers only call.
MCSymmetry == Permutations(Readers)
=============================================================================
