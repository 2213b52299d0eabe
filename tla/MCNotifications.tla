-------------------------- MODULE MCNotifications ---------------------------
(* Instances of Notifications for TLC. *)
EXTENDS Notifications, TLC

CONSTANTS s1, s2, s3, c1, c2, u1, u2, e1, d1, d2

MCCritical == {"database", "fcm", "web_push"}
\* The clients have nothing in common but the delivery: one kind at a time.
MCScenes ==
    {[transports |-> Names, configured |-> Names, clients |-> {}],
     [transports |-> Names, configured |-> {"fcm"}, clients |-> {}],
     [transports |-> {"database"}, configured |-> Names, clients |-> {"inbox"}],
     [transports |-> {"sse", "fcm"}, configured |-> Names, clients |-> {"streams"}],
     [transports |-> {"database", "web_push"}, configured |-> Names, clients |-> {"push"}]}
\* Streams, callers and devices are interchangeable.
MCSymmetry == Permutations(Streams) \cup Permutations(Callers) \cup Permutations(Devices)
=============================================================================
