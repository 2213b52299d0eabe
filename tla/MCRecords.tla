----------------------------- MODULE MCRecords ------------------------------
(* Instances of Records for TLC. *)
EXTENDS Records, TLC

CONSTANTS s1, s2, v1, v2, f1, f2

MCScenes ==
    {[writers |-> {s1, s2}, owners |-> {}, direct |-> FALSE],
     [writers |-> {}, owners |-> {s1, s2}, direct |-> TRUE],
     [writers |-> {s1}, owners |-> {s1}, direct |-> FALSE],
     [writers |-> {s2}, owners |-> {s2}, direct |-> FALSE]}
\* Values and files are interchangeable.
MCSymmetry == Permutations(Sessions) \cup Permutations(Values) \cup Permutations(Files)
=============================================================================
