----------------------------- MODULE MCAuth -------------------------------
(* Instances of Auth for TLC. *)
EXTENDS Auth, TLC

CONSTANTS r1, r2, k1, s1, u1, u2, m1, m2, i1, f1, f2, g1, p1, p2
\* Where links cannot be used at all (aware datetimes), one kind shows it.
MCOffered == [tz \in BOOLEAN |->
                IF tz THEN {"magic_link"}
                ELSE {"magic_link", "account_recovery", "password_reset"}]
\* The processes of one deployment are given one state_secret, or each its own.
MCSecret == [p \in Processes |-> IF p = p1 THEN "one" ELSE "two"]
=============================================================================
