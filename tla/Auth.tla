-------------------------------- MODULE Auth --------------------------------
(***************************************************************************)
(* The account routes: one user's links and sessions, or who a login is.   *)
(* A behaviour is about one of the two; they share no row, and the links   *)
(* do not ask where the accounts of a provider are.                        *)
(***************************************************************************)
EXTENDS Accounts, SignUps

VARIABLE about      \* "links" or "people"

vars == <<accounts, signups, about>>

Init ==
    /\ AccountsInit /\ SignUpsInit /\ about \in {"links", "people"}
    /\ about = "links" => provider = [i \in Identities |-> "google"]

InAccounts(A) == about = "links" /\ A /\ UNCHANGED <<signups, about>>

Next ==
    \/ InAccounts(AccountsNext)
    \/ about = "people" /\ SignUpsNext /\ UNCHANGED <<accounts, about>>

Spec == Init /\ [][Next]_vars

\* Time passes, requests are answered and the nightly sweep runs.
Fairness ==
    /\ WF_vars(InAccounts(Tick))
    /\ WF_vars(InAccounts(SweepRead)) /\ WF_vars(InAccounts(SweepCommit))
    /\ \A r \in Requests : WF_vars(InAccounts(Proceeds(r)))

FairSpec == Spec /\ Fairness

TypeOK == AccountsTypeOK /\ SignUpsTypeOK
=============================================================================
