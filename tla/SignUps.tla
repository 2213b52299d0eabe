------------------------------ MODULE SignUps -------------------------------
(***************************************************************************)
(* Who a login is: the users table, whose email column is unique, the      *)
(* table auth_oauth_accounts, which has no constraint beyond its key, the  *)
(* register route, the batches of create_users and the OAuth flow.  The    *)
(* engine is asynchronous, as in Accounts: the flush that should give a    *)
(* new user its id is a coroutine nobody awaits.                           *)
(***************************************************************************)
EXTENDS Providers

CONSTANTS
    People, NoPerson,
    Forms,              \* requests that create users
    MaxFlows, MaxMoves  \* bounds: flows started, addresses changed at the provider

ASSUME SignUpsAssumption ==
    /\ NoPerson \notin People /\ {"unborn", "deleted", NoMail, Refused} \cap Emails = {}
    /\ DOMAIN Secret = Processes
    /\ Identities # {} /\ Emails # {}
    /\ MaxFlows \in Nat /\ MaxMoves \in Nat

VARIABLES
    people,     \* people[u]: the address of user u
    linked,     \* rows of auth_oauth_accounts: an identity, the user it names
    flow,       \* flow[f]: where a flow is
    form,       \* form[r]: the addresses a request found free
    started, moves,     \* bound counters
    answered,   \* history: answered[i]: the users identity i was logged in as
    raced       \* history: identities two flows found unlinked at once

signups == <<people, linked, flow, providers, form, started, moves, answered, raced>>

FlowType == [at : {"idle", "away", "back", "linked", "unlinked", "decided", "known"},
             who : Identities, email : Emails \cup {NoMail}, person : People \cup {NoPerson}]
Someone == CHOOSE i \in Identities : TRUE
NoFlow == [at |-> "idle", who |-> Someone, email |-> SomeEmail, person |-> NoPerson]

SignUpsInit ==
    /\ ProvidersInit
    /\ people = [u \in People |-> "unborn"]
    /\ linked = {}
    /\ flow = [f \in Flows |-> NoFlow]
    /\ form = [r \in Forms |-> {}]
    /\ started = 0 /\ moves = 0
    /\ answered = [i \in Identities |-> {}] /\ raced = {}

FlowAt(f, stage) == flow[f].at = stage
Steps(f, stage) == flow' = [flow EXCEPT ![f].at = stage]
Quits(f) == flow' = [flow EXCEPT ![f] = NoFlow]
Owner(e) == {u \in People : people[u] = e}
Unborn == Owner("unborn")

-----------------------------------------------------------------------------
(* register, create_user, create_users, delete_users.                       *)

\* The SELECT finds nobody; otherwise the answer is a 409.
RegisterRead(r, e) ==
    /\ form[r] = {} /\ Owner(e) = {}
    /\ form' = [form EXCEPT ![r] = {e}]
    /\ UNCHANGED <<people, linked, flow, providers, started, moves, answered, raced>>

\* One SELECT for the whole batch, whose addresses differ: those that exist
\* are left out, or the batch is refused.
CreateUsers(r, batch) ==
    LET new == {e \in batch : Owner(e) = {}} IN
    /\ form[r] = {} /\ new # {}
    /\ form' = [form EXCEPT ![r] = new]
    /\ UNCHANGED <<people, linked, flow, providers, started, moves, answered, raced>>

\* The users table with one new user for each of the addresses.
Inserted(emails) ==
    {after \in [People -> Emails \cup {"unborn", "deleted"}] :
        /\ \A u \in People : after[u] = people[u] \/ (u \in Unborn /\ after[u] \in emails)
        /\ \A e \in emails : Cardinality({u \in People : after[u] = e}) = 1}

\* One transaction: when an address was taken meanwhile the INSERT fails, and
\* none of them is created.
RegisterInsert(r) ==
    /\ form[r] # {}
    /\ IF \A e \in form[r] : Owner(e) = {}
       THEN Inserted(form[r]) # {} /\ people' = CHOOSE after \in Inserted(form[r]) : TRUE
       ELSE UNCHANGED people
    /\ form' = [form EXCEPT ![r] = {}]
    /\ UNCHANGED <<linked, flow, providers, started, moves, answered, raced>>

\* delete_users: auth_oauth_accounts has no foreign key, its rows stay.
DeletePerson(u) ==
    /\ people[u] \in Emails
    /\ people' = [people EXCEPT ![u] = "deleted"]
    /\ UNCHANGED <<linked, flow, providers, form, started, moves, answered, raced>>

-----------------------------------------------------------------------------
(* oauth_redirect and the provider's pages.                                 *)

\* Every tab's state goes into the provider's one cookie.  Idle tabs are alike.
Redirect(f, p, i) ==
    /\ FlowAt(f, "idle") /\ f = CHOOSE g \in Flows : FlowAt(g, "idle")
    /\ started < MaxFlows
    /\ started' = started + 1
    /\ cookie' = [cookie EXCEPT ![provider[i]] = SignedState(f, p)]
    /\ Steps(f, "away")
    /\ UNCHANGED <<people, linked, provider, mail, form, moves, answered, raced>>

\* handle_callback: OAuthStateMismatch, or what the provider says.
CalledBack(f, p, i, c, says) ==
    /\ FlowAt(f, "away")
    /\ IF Verified(f, p, c) /\ says # Refused
       THEN flow' = [flow EXCEPT ![f] = [NoFlow EXCEPT !.at = "back", !.who = i, !.email = says]]
       ELSE Quits(f)
    /\ UNCHANGED <<people, linked, providers, form, started, moves, answered, raced>>

-----------------------------------------------------------------------------
(* find_or_create_oauth_user, and the login.                                *)

\* Mutant: the account is looked up by the address of its user.
RowsByEmail(f) == {row \in linked : people[row.person] = flow[f].email}

\* The SELECT by provider and provider_sub.
Rows(f) == {row \in linked : row.who = flow[f].who}

FindAccount(f) ==
    /\ FlowAt(f, "back")
    /\ \/ \E row \in Rows(f) :
            /\ flow' = [flow EXCEPT ![f].at = "linked", ![f].person = row.person]
            /\ UNCHANGED raced
       \/ /\ Rows(f) = {}
          /\ raced' = IF \E g \in Flows : flow[g].who = flow[f].who
                                          /\ flow[g].at \in {"unlinked", "decided"}
                      THEN raced \cup {flow[f].who} ELSE raced
          /\ Steps(f, "unlinked")
    /\ UNCHANGED <<people, linked, providers, form, started, moves, answered>>

\* db_get and db_refresh: the user was deleted, and its account stayed.
KnownUser(f) ==
    /\ FlowAt(f, "linked")
    /\ IF people[flow[f].person] \in Emails THEN Steps(f, "known") ELSE Quits(f)
    /\ UNCHANGED <<people, linked, providers, form, started, moves, answered, raced>>

FindUser(f) ==
    LET same == Owner(flow[f].email) IN
    /\ FlowAt(f, "unlinked")
    /\ flow' = [flow EXCEPT ![f].at = "decided",
                            ![f].person = IF same = {} THEN NoPerson ELSE CHOOSE u \in same : TRUE]
    /\ UNCHANGED <<people, linked, providers, form, started, moves, answered, raced>>

\* The account is linked to the user with the same address.  Without one both
\* rows are added, but s.flush() is not awaited: user_id is NULL, the commit
\* fails and nothing is written.
Link(f) ==
    LET u == flow[f].person IN
    /\ FlowAt(f, "decided")
    /\ linked' = IF u = NoPerson THEN linked ELSE linked \cup {[who |-> flow[f].who, person |-> u]}
    /\ IF u # NoPerson /\ people[u] \in Emails THEN Steps(f, "known") ELSE Quits(f)
    /\ UNCHANGED <<people, providers, form, started, moves, answered, raced>>

\* backend.login; the cookie is deleted, another tab's too.
Welcome(f) ==
    /\ FlowAt(f, "known")
    /\ answered' = [answered EXCEPT ![flow[f].who] = @ \cup {flow[f].person}]
    /\ cookie' = [cookie EXCEPT ![provider[flow[f].who]] = NoCookie]
    /\ Quits(f)
    /\ UNCHANGED <<people, linked, provider, mail, form, started, moves, raced>>

\* An inactive user, an error of the backend, or a request that dies.
FlowFails(f) ==
    /\ flow[f].at \notin {"idle", "away"}
    /\ Quits(f)
    /\ UNCHANGED <<people, linked, providers, form, started, moves, answered, raced>>

\* The owner changes the address at the provider.
Moves(i, e) ==
    /\ moves < MaxMoves /\ mail[i] # e
    /\ moves' = moves + 1
    /\ mail' = [mail EXCEPT ![i] = e]
    /\ UNCHANGED <<people, linked, flow, provider, cookie, form, started, answered, raced>>

FlowNext(f) ==
    \/ \E p \in Processes, i \in Identities :
         \/ Redirect(f, p, i)
         \/ \E c \in Brought(provider[i]), says \in Says(i) : CalledBack(f, p, i, c, says)
    \/ FindAccount(f) \/ KnownUser(f) \/ FindUser(f) \/ Link(f)
    \/ Welcome(f) \/ FlowFails(f)

SignUpsNext ==
    \/ \E f \in Flows : FlowNext(f)
    \/ \E r \in Forms :
         \/ RegisterInsert(r) \/ \E e \in Emails : RegisterRead(r, e)
         \/ \E batch \in SUBSET Emails : CreateUsers(r, batch)
    \/ \E u \in People : DeletePerson(u)
    \/ \E i \in Identities, e \in Emails : Moves(i, e)

-----------------------------------------------------------------------------
SignUpsTypeOK ==
    /\ people \in [People -> Emails \cup {"unborn", "deleted"}]
    /\ linked \subseteq [who : Identities, person : People]
    /\ provider \in [Identities -> ProviderNames] /\ mail \in [Identities -> Emails]
    /\ cookie \in [ProviderNames -> {NoCookie} \cup [flow : Flows, secret : {Secret[p] : p \in Processes}]]
    /\ flow \in [Flows -> FlowType]
    /\ form \in [Forms -> SUBSET Emails]
    /\ started \in 0..MaxFlows /\ moves \in 0..MaxMoves
    /\ answered \in [Identities -> SUBSET People] /\ raced \subseteq Identities

(***************************************************************************)
(* An identity at the provider is one user for ever: whatever addresses    *)
(* the provider reports and whoever registers or is deleted in between,    *)
(* its logins are all answered with the same user.  (provider,             *)
(* provider_sub) is not unique in the table, so two flows that look before *)
(* either links may link it twice.                                         *)
(***************************************************************************)
OneUserPerIdentity ==
    \A i \in Identities \ raced : Cardinality(answered[i]) <= 1
=============================================================================
