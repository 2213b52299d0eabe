------------------------------ MODULE Accounts ------------------------------
(***************************************************************************)
(* One user's one-time links and server-side sessions.                     *)
(*                                                                         *)
(* Every await of a route is a step of its own; rows are written by key    *)
(* from what was read earlier.  Whether a deployment's database returns    *)
(* aware datetimes decides which half works: sessions compare them with    *)
(* datetime.now(UTC), one-time tokens with datetime.now(), and Python      *)
(* refuses to compare the two kinds.  The engine is asynchronous; there,   *)
(* s.get, s.exec and s.delete without await do nothing or fail at the      *)
(* first use of their result.                                              *)
(***************************************************************************)
EXTENDS Integers, FiniteSets

CONSTANTS
    Tokens, Sessions, Requests, NoToken, NoSession,
    Offered,        \* Offered[aware]: the kinds of links the routes offer, and
                    \* with account_recovery the soft deletion of users
    LinkTTL,        \* ttl of a one-time token
    TTL,            \* session_ttl, and max_age of the cookie's signature
    Grace,          \* the sweep spares what expired less than this ago
    MaxClock,       \* bound: the clock
    LastLogin,      \* bound: the clock at the last login
    MaxBreaks       \* bound: requests that die or hit a database error

\* The routes that await their database calls, and those that do not.
Sound == {"magic_link", "account_recovery"}
Unawaited == {"password_reset", "email_verification", "email_change"}
Kinds == Sound \cup Unawaited

ASSUME AccountsAssumption ==
    /\ Offered \in [BOOLEAN -> SUBSET Kinds]
    /\ NoToken \notin Tokens /\ NoSession \notin Sessions
    /\ {LinkTTL, TTL, Grace, MaxClock, LastLogin, MaxBreaks} \subseteq Nat

VARIABLES
    aware,      \* the database returns aware datetimes
    now,        \* the clock
    user,       \* is_active, email_verified, deleted_at of the user
    token,      \* token[t]: row of auth_one_time_tokens
    links,      \* tokens whose link was handed to the mailer
    session,    \* session[s]: row of auth_sessions, and when it was signed
    request,    \* request[r]: where a request is
    doomed,     \* rows the running sweep has selected
    breaks,     \* bound counter
    takes,      \* history: takes[t] counts the requests t was accepted in
    crossed,    \* history: tokens two requests held at once
    outcome,    \* history: what a spent token was good for
    dead        \* history: sessions whose logout was answered

links_vars == <<token, links, takes, crossed, outcome>>
session_vars == <<session, doomed, dead>>
accounts == <<aware, now, user, links_vars, session_vars, request, breaks>>

Stages == {"idle", "asked", "generated", "clicked", "valid", "spent", "linked",
           "login", "auth", "expired", "read", "authed", "admitted", "leaving"}
RequestType == [at : Stages, kind : Kinds \cup {"none"},
                token : Tokens \cup {NoToken}, session : Sessions \cup {NoSession},
                logout : BOOLEAN, late : BOOLEAN, old : BOOLEAN]
NoRequest == [at |-> "idle", kind |-> "none", token |-> NoToken,
              session |-> NoSession, logout |-> FALSE, late |-> FALSE, old |-> FALSE]

AccountsInit ==
    /\ aware \in BOOLEAN
    /\ now = 0
    /\ user \in [active : {TRUE}, verified : BOOLEAN, deleted : {FALSE}]
    /\ token = [t \in Tokens |-> [kind |-> "none", expires |-> 0, used |-> FALSE]]
    /\ links = {}
    /\ session = [s \in Sessions |-> [status |-> "absent", expires |-> 0, signed |-> 0]]
    /\ request = [r \in Requests |-> NoRequest]
    /\ doomed = {} /\ breaks = 0
    /\ takes = [t \in Tokens |-> 0] /\ crossed = {}
    /\ outcome = [t \in Tokens |-> "none"]
    /\ dead = {}

At(r, stage) == request[r].at = stage
Goes(r, stage) == request' = [request EXCEPT ![r].at = stage]
Ends(r) == request' = [request EXCEPT ![r] = NoRequest]

-----------------------------------------------------------------------------
(* Asking for a link: forgot_password, send_verification_email,             *)
(* request_magic_link, change_email, request_account_recovery, and login    *)
(* with an unverified address.                                              *)

MayVerify == ~user.verified
MayRecover == user.deleted

MayAsk(k) ==
    CASE k = "email_verification" -> MayVerify
      [] k = "account_recovery" -> MayRecover
      [] OTHER -> user.active

\* The row to be inserted is chosen here, so that requests never lack one.
Unclaimed(t) == /\ token[t].kind = "none"
                /\ \A r \in Requests : request[r].token # t

Ask(r, k, t) ==
    /\ At(r, "idle") /\ MayAsk(k) /\ Unclaimed(t)
    /\ request' = [request EXCEPT ![r] =
                     [NoRequest EXCEPT !.at = "asked", !.kind = k, !.token = t]]
    /\ UNCHANGED <<aware, now, user, links_vars, session_vars, breaks>>

\* Mutant: the ttl is subtracted.
LinkExpiryBefore == now - LinkTTL

LinkExpiry == now + LinkTTL

\* generate_token: the unconsumed tokens of the kind are selected, but their
\* s.delete is not awaited, so older links stay good.
Generate(r) ==
    /\ At(r, "asked")
    /\ token' = [token EXCEPT ![request[r].token] =
                   [kind |-> request[r].kind, expires |-> LinkExpiry, used |-> FALSE]]
    /\ Goes(r, "generated")
    /\ UNCHANGED <<aware, now, user, links, takes, crossed, outcome, session_vars, breaks>>

\* SendAuthEmailJob.perform_later.
Mail(r) ==
    /\ At(r, "generated")
    /\ links' = links \cup {request[r].token}
    /\ Ends(r)
    /\ UNCHANGED <<aware, now, user, token, takes, crossed, outcome, session_vars, breaks>>

-----------------------------------------------------------------------------
(* Following a link: consume_token, then the route's own transaction.       *)

Click(r, t) ==
    /\ At(r, "idle") /\ t \in links
    /\ request' = [request EXCEPT ![r] =
                     [NoRequest EXCEPT !.at = "clicked", !.kind = token[t].kind,
                                       !.token = t]]
    /\ UNCHANGED <<aware, now, user, links_vars, session_vars, breaks>>

Holders(t) == {r \in Requests : request[r].token = t /\ At(r, "valid")}

\* Mutant: consumed_at is not looked at.
AcceptableUsed(t) == ~aware /\ ~(token[t].expires < now)

\* Comparing an aware expires_at with datetime.now() raises TypeError.
Acceptable(t) == ~token[t].used /\ ~aware /\ ~(token[t].expires < now)

ConsumeRead(r) ==
    LET t == request[r].token IN
    /\ At(r, "clicked")
    /\ IF Acceptable(t) THEN Goes(r, "valid") ELSE Ends(r)
    /\ crossed' = IF Acceptable(t) /\ Holders(t) # {} THEN crossed \cup {t} ELSE crossed
    /\ UNCHANGED <<aware, now, user, token, links, takes, outcome, session_vars, breaks>>

\* consumed_at is written whatever the row holds by now.
ConsumeStamp(r) ==
    LET t == request[r].token IN
    /\ At(r, "valid")
    /\ token' = [token EXCEPT ![t].used = TRUE]
    /\ takes' = [takes EXCEPT ![t] = @ + 1]
    /\ Goes(r, "spent")
    /\ UNCHANGED <<aware, now, user, links, crossed, outcome, session_vars, breaks>>

Results(r, o) == outcome' = [outcome EXCEPT ![request[r].token] = o]

\* reset_password, verify_email, verify_email_change: s.get(...) is a coroutine,
\* its first attribute raises AttributeError; the answer is a 500.
Raises(r) ==
    /\ At(r, "spent") /\ request[r].kind \in Unawaited
    /\ Ends(r)
    /\ UNCHANGED <<aware, now, user, links_vars, session_vars, breaks>>

\* Mutant: an address that had to be verified ends the request.
MagicUserVerifies(r) ==
    /\ At(r, "spent") /\ request[r].kind = "magic_link"
    /\ user' = [user EXCEPT !.verified = TRUE]
    /\ IF user.verified THEN Goes(r, "linked") ELSE Ends(r)
    /\ UNCHANGED <<aware, now, links_vars, session_vars, breaks>>

\* consume_magic_link: the user, and its email_verified.
MagicUser(r) ==
    /\ At(r, "spent") /\ request[r].kind = "magic_link"
    /\ IF user.active
       THEN /\ user' = [user EXCEPT !.verified = TRUE]
            /\ Goes(r, "linked")
            /\ UNCHANGED outcome
       ELSE /\ Results(r, "denied")
            /\ Ends(r)
            /\ UNCHANGED user
    /\ UNCHANGED <<aware, now, token, links, takes, crossed, session_vars, breaks>>

\* backend.login: without aware datetimes the backend issues JWTs.
MagicLogin(r) ==
    /\ At(r, "linked")
    /\ Results(r, "applied")
    /\ Ends(r)
    /\ UNCHANGED <<aware, now, user, token, links, takes, crossed, session_vars, breaks>>

\* verify_account_recovery.
Recover(r) ==
    /\ At(r, "spent") /\ request[r].kind = "account_recovery"
    /\ user' = [user EXCEPT !.deleted = FALSE]
    /\ Results(r, "applied")
    /\ Ends(r)
    /\ UNCHANGED <<aware, now, token, links, takes, crossed, session_vars, breaks>>

-----------------------------------------------------------------------------
(* Sessions.                                                                *)

\* The login route; SessionBackend needs the aware timestamps of PostgreSQL.
Login(r, s) ==
    /\ At(r, "idle") /\ aware /\ now <= LastLogin
    /\ session[s].status = "absent"
    /\ \A q \in Requests : request[q].session # s
    /\ user.active /\ user.verified /\ ~user.deleted
    /\ request' = [request EXCEPT ![r] = [NoRequest EXCEPT !.at = "login",
                                                                !.session = s]]
    /\ UNCHANGED <<aware, now, user, links_vars, session_vars, breaks>>

LoginInsert(r) ==
    /\ At(r, "login")
    /\ session' = [session EXCEPT ![request[r].session] = [status |-> "active",
                                          expires |-> now + TTL, signed |-> now]]
    /\ Ends(r)
    /\ UNCHANGED <<aware, now, user, links_vars, doomed, dead, breaks>>

\* _unsign, max_age = ttl: counted from the login, whatever expires_at is.
Unsigns(s) == now - session[s].signed <= TTL

\* A request with the session's cookie, to any route or to /logout.
Authenticate(r, s, logout) ==
    /\ At(r, "idle") /\ session[s].status # "absent"
    /\ Unsigns(s)
    /\ request' = [request EXCEPT ![r] =
                     [NoRequest EXCEPT !.at = "auth", !.session = s,
                                       !.logout = logout, !.late = s \in dead]]
    /\ UNCHANGED <<aware, now, user, links_vars, session_vars, breaks>>

AuthRead(r) ==
    LET s == request[r].session IN
    /\ At(r, "auth")
    /\ CASE session[s].status # "active" -> Ends(r)
         [] session[s].status = "active" /\ session[s].expires < now -> Goes(r, "expired")
         [] OTHER -> Goes(r, "read")
    /\ UNCHANGED <<aware, now, user, links_vars, session_vars, breaks>>

\* EXPIRED is written whatever the row holds by now; a swept row is an error.
AuthExpires(r) ==
    LET s == request[r].session IN
    /\ At(r, "expired")
    /\ session' = IF session[s].status = "swept" THEN session
                  ELSE [session EXCEPT ![s].status = "expired"]
    /\ Ends(r)
    /\ UNCHANGED <<aware, now, user, links_vars, doomed, dead, breaks>>

AuthUser(r) ==
    /\ At(r, "read")
    /\ IF user.active THEN Goes(r, "authed") ELSE Ends(r)
    /\ UNCHANGED <<aware, now, user, links_vars, session_vars, breaks>>

\* Mutant: the commit writes every column of the session it read.
SlidWhole(s) == [session EXCEPT ![s].expires = now + TTL, ![s].status = "active"]

\* Only expires_at has changed since the row was read, so only it is written.
Slid(s) == [session EXCEPT ![s].expires = now + TTL]

AuthCommit(r) ==
    LET s == request[r].session IN
    /\ At(r, "authed")
    /\ IF session[s].status = "swept"
       THEN Ends(r) /\ UNCHANGED session
       ELSE Goes(r, "admitted") /\ session' = Slid(s)
    /\ UNCHANGED <<aware, now, user, links_vars, doomed, dead, breaks>>

\* The route itself.  The library's own change_password and DELETE /me raise
\* at an s.get(...) nobody awaits, before they write or revoke anything.
Serve(r) ==
    /\ At(r, "admitted") /\ ~request[r].logout
    /\ Ends(r)
    /\ UNCHANGED <<aware, now, user, links_vars, session_vars, breaks>>

\* Nothing to revoke, or a signature that has aged meanwhile.
LogoutRead(r) ==
    LET s == request[r].session IN
    /\ At(r, "admitted") /\ request[r].logout
    /\ IF Unsigns(s) /\ session[s].status = "active"
       THEN Goes(r, "leaving") /\ UNCHANGED dead
       ELSE Ends(r) /\ dead' = dead \cup {s}
    /\ UNCHANGED <<aware, now, user, links_vars, session, doomed, breaks>>

LogoutCommit(r) ==
    LET s == request[r].session IN
    /\ At(r, "leaving")
    /\ session' = IF session[s].status = "swept" THEN session
                  ELSE [session EXCEPT ![s].status = "revoked"]
    /\ dead' = dead \cup {s}
    /\ Ends(r)
    /\ UNCHANGED <<aware, now, user, links_vars, doomed, breaks>>

\* Mutant: only what a request has marked EXPIRED is swept.
StaleMarked(s) == session[s].status = "expired" /\ session[s].expires < now - Grace

\* SessionBackend.sweep, run by SweepAuthJob.
Stale(s) == session[s].status \notin {"absent", "swept"} /\ session[s].expires < now - Grace

SweepRead ==
    /\ doomed = {}
    /\ doomed' = {s \in Sessions : Stale(s)}
    /\ doomed' # {}
    /\ UNCHANGED <<aware, now, user, links_vars, session, dead, request, breaks>>

SweepCommit ==
    /\ doomed # {}
    /\ session' = [s \in Sessions |-> IF s \in doomed
                                      THEN [session[s] EXCEPT !.status = "swept"]
                                      ELSE session[s]]
    /\ doomed' = {}
    /\ UNCHANGED <<aware, now, user, links_vars, dead, request, breaks>>

-----------------------------------------------------------------------------
(* The world.                                                               *)

\* A request dies at an await or a statement raises.  logout swallows the
\* exception and answers all the same: the session stays as it is.
Breaks(r) ==
    /\ ~At(r, "idle") /\ breaks < MaxBreaks
    /\ breaks' = breaks + 1
    /\ outcome' = IF request[r].at \in {"spent", "linked"}
                  THEN [outcome EXCEPT ![request[r].token] = "lost"] ELSE outcome
    /\ Ends(r)
    /\ UNCHANGED <<aware, now, user, token, links, takes, crossed, session_vars>>

\* The application deactivates the user, or schedules its deletion; the
\* library's own DELETE /me fails before it writes.
Closes ==
    /\ \/ user.active /\ user' = [user EXCEPT !.active = FALSE]
       \/ "account_recovery" \in Offered[aware] /\ ~user.deleted
          /\ user' = [user EXCEPT !.deleted = TRUE]
    /\ UNCHANGED <<aware, now, links_vars, session_vars, request, breaks>>

\* A tick is hours, a request seconds: it sees at most one.
Tick ==
    /\ now < MaxClock
    /\ \A r \in Requests : ~request[r].old
    /\ now' = now + 1
    /\ request' = [r \in Requests |-> [request[r] EXCEPT !.old = ~At(r, "idle")]]
    /\ UNCHANGED <<aware, user, links_vars, session_vars, breaks>>

Proceeds(r) ==
    \/ Generate(r) \/ Mail(r) \/ ConsumeRead(r) \/ ConsumeStamp(r) \/ Raises(r)
    \/ MagicUser(r) \/ MagicLogin(r) \/ Recover(r)
    \/ LoginInsert(r) \/ AuthRead(r) \/ AuthExpires(r) \/ AuthUser(r) \/ AuthCommit(r) \/ Serve(r)
    \/ LogoutRead(r) \/ LogoutCommit(r)

AccountsNext ==
    \/ \E r \in Requests :
        \/ \E k \in Offered[aware], t \in Tokens : Ask(r, k, t)
        \/ \E t \in Tokens : Click(r, t)
        \/ \E s \in Sessions : Login(r, s)
        \/ Proceeds(r) \/ Breaks(r)
        \/ \E s \in Sessions, out \in BOOLEAN : Authenticate(r, s, out)
    \/ SweepRead \/ SweepCommit
    \/ Closes \/ Tick

-----------------------------------------------------------------------------
(* Properties.                                                              *)

\* Every variable keeps its type.
AccountsTypeOK ==
    /\ aware \in BOOLEAN /\ now \in Nat /\ breaks \in Nat
    /\ user \in [active : BOOLEAN, verified : BOOLEAN, deleted : BOOLEAN]
    /\ token \in [Tokens -> [kind : Kinds \cup {"none"}, expires : Nat, used : BOOLEAN]]
    /\ links \subseteq Tokens /\ crossed \subseteq Tokens
    /\ session \in [Sessions -> [status : {"absent", "active", "revoked", "expired", "swept"},
                                 expires : Nat, signed : Nat]]
    /\ request \in [Requests -> RequestType]
    /\ doomed \subseteq Sessions /\ dead \subseteq Sessions
    /\ takes \in [Tokens -> Nat]
    /\ outcome \in [Tokens -> {"none", "applied", "denied", "lost"}]

\* Once a logout was answered without a database error, no request that starts
\* later is let in with that session, whatever slides and expiries of earlier
\* requests are still to be written.
LogoutIsFinal ==
    \A r \in Requests : request[r].late => request[r].at \notin {"admitted", "leaving"}

\* "Tokens are single-use": a link is accepted twice only by two requests that
\* both read it before either stamped it.
SecondUseOverlaps ==
    \A t \in Tokens : takes[t] > 1 => t \in crossed

\* A link that works is not spent in vain: when nobody works on it any more it
\* has logged its user in or recovered the account, unless the user was closed
\* or the request broke.
SpentServes ==
    \A t \in Tokens :
        /\ token[t].used /\ token[t].kind \in Sound
        /\ \A r \in Requests : request[r].token = t => request[r].at \notin {"spent", "linked"}
        => outcome[t] # "none"

\* Sliding does not keep a session's row for ever, because the signature of its
\* cookie ages from the login on: every session is swept in the end.
SessionsAreSwept ==
    \A s \in Sessions : session[s].status = "active" ~> session[s].status = "swept"
=============================================================================
