----------------------------- MODULE Providers ------------------------------
(***************************************************************************)
(* The OAuth providers: the state each signs into a cookie of its own, and *)
(* what its handle_callback makes of the provider's answers, an address    *)
(* that may be empty or an exception.                                      *)
(***************************************************************************)
EXTENDS Naturals, FiniteSets

CONSTANTS
    Emails,
    Identities,         \* accounts at a provider
    Flows,              \* tabs of a browser in an OAuth flow
    Processes, Secret   \* Secret[p]: the state_secret process p signs with

VARIABLES
    provider,   \* provider[i]: where account i is
    mail,       \* mail[i]: its primary address there
    cookie      \* cookie[q]: the browser's state cookie of provider q

providers == <<provider, mail, cookie>>

ProviderNames == {"google", "github", "apple"}
NoMail == ""
Refused == "refused"    \* OAuthError, or an exception nobody expects
SomeEmail == CHOOSE e \in Emails : TRUE

\* clear_state_cookie.
NoCookie == [flow |-> "none", secret |-> "none"]

\* get_redirect_url: a new state, signed.
SignedState(f, p) == [flow |-> f, secret |-> Secret[p]]

ProvidersInit ==
    /\ provider \in [Identities -> ProviderNames]
    /\ mail = [i \in Identities |-> SomeEmail]
    /\ cookie = [q \in ProviderNames |-> NoCookie]

\* What the callback brings of it.  Apple calls back with a POST from its own
\* site: the cookie is samesite=lax, and only a browser that does not know
\* the attribute sends it.
Brought(q) == {cookie[q]} \cup IF q = "apple" THEN {NoCookie} ELSE {}

\* _verify_state: this flow's state, signed with the secret of the process
\* that is called back.
Verified(f, p, c) == c = SignedState(f, p)

\* The profile's address, which it has when the scope "email" was granted.
GoogleSays(i) == {mail[i], NoMail}

\* The primary address.  When /user/emails does not answer, the public one of
\* the profile: any of the user's, or none.
GitHubSays(i) == {mail[i]} \cup Emails \cup {NoMail}

\* The claim of the id_token or, in the first answer of all, of the user's JSON.
AppleSays(i) == {mail[i], NoMail}

Says(i) ==
    {Refused} \cup CASE provider[i] = "google" -> GoogleSays(i)
                     [] provider[i] = "github" -> GitHubSays(i)
                     [] provider[i] = "apple"  -> AppleSays(i)
=============================================================================
