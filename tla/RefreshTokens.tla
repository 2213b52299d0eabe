--------------------------- MODULE RefreshTokens ----------------------------
(***************************************************************************)
(* Refresh-token rotation: lib.auth.backends.jwt.JWTBackend on an async      *)
(* engine, called by the login, refresh and logout routes.                  *)
(*                                                                         *)
(* A login starts a family of tokens.  A refresh turns the presented token  *)
(* ROTATED in one transaction and inserts its successor in another; a       *)
(* ROTATED token presented again revokes the family.  Nothing is locked:    *)
(* at every await another request may run, and an UPDATE writes by primary  *)
(* key whatever the row has become.  One browser keeps the token in a       *)
(* cookie; it may send a request while another is still under way.          *)
(*                                                                         *)
(* Rows are never deleted here: sweep() does not await s.delete().          *)
(***************************************************************************)
EXTENDS Naturals, FiniteSets

CONSTANTS
    NoToken,        \* stands for no token
    Tokens,         \* ids (jti) of refresh tokens
    Families,       \* ids of families (fid)
    NoFamily,       \* stands for no family
    Requests,       \* requests the browser may have under way
    Attaches,       \* refresh(attach=True): the response sets the cookie
    MaxDrops        \* bound: requests cut off by a crash, answers lost

ASSUME RefreshTokensAssumption ==
    /\ NoToken \notin Tokens /\ NoFamily \notin Families
    /\ IsFiniteSet(Tokens)
    /\ Attaches \in BOOLEAN
    /\ MaxDrops \in Nat

VARIABLES
    tok,        \* tok[t]: the row of token t
    enabled,    \* the user's is_active
    req,        \* req[r]: where the handler of request r is
    jar,        \* the token in the browser's cookie
    dead,       \* families revoked so far, by a logout or a reuse (history)
    mingled,    \* families with two requests under way at once (history)
    lost,       \* families that lost an answer after a rotation (history)
    drops       \* requests cut off so far

history == <<dead, mingled, lost>>
vars == <<tok, enabled, req, jar, history, drops>>

-----------------------------------------------------------------------------
TokenStatus == {"active", "revoked", "expired", "rotated"}

\* old: expires_at, and the exp claim of the JWT, have passed.
TokenType == [status : TokenStatus \cup {"none"}, fam : Families \cup {NoFamily},
              old : BOOLEAN]
NotIssued == [status |-> "none", fam |-> NoFamily, old |-> FALSE]

\* tok: the token presented, or issued; ids: the rows a SELECT returned.
RequestType ==
    [at : {"idle", "called", "expiring", "checked", "rotating", "issuing",
           "answer", "reuse", "revoking", "leaving", "loggingout", "bye"},
     tok : Tokens \cup {NoToken}, fam : Families \cup {NoFamily},
     ids : SUBSET Tokens]
NoRequest == [at |-> "idle", tok |-> NoToken, fam |-> NoFamily, ids |-> {}]

FamilyOf(f) == {t \in Tokens : tok[t].fam = f}
ActiveOf(f) == {t \in FamilyOf(f) : tok[t].status = "active"}
Unused(f) == FamilyOf(f) = {}
InFlight(f) == {r \in Requests : req[r].fam = f}

Init ==
    /\ tok = [t \in Tokens |-> NotIssued]
    /\ enabled = TRUE
    /\ req = [r \in Requests |-> NoRequest]
    /\ jar = NoToken
    /\ dead = {} /\ mingled = {} /\ lost = {}
    /\ drops = 0

-----------------------------------------------------------------------------
\* The handler of r goes on at `at`, or has answered with an error.
Goes(r, at) == req' = [req EXCEPT ![r].at = at]
Fails(r) == req' = [req EXCEPT ![r] = NoRequest]

\* One UPDATE ... WHERE id for each row of S.
Update(S, st) ==
    tok' = [t \in Tokens |-> IF t \in S THEN [tok[t] EXCEPT !.status = st]
                             ELSE tok[t]]

\* _issue_pair: insert an ACTIVE row of family f, in its own transaction.
Insert(r, t, f) ==
    /\ tok[t] = NotIssued
    /\ tok' = [tok EXCEPT ![t] = [status |-> "active", fam |-> f, old |-> FALSE]]
    /\ req' = [req EXCEPT ![r] = [at |-> "answer", tok |-> t, fam |-> f,
                                  ids |-> {}]]

Login(r, t, f) ==
    /\ req[r].at = "idle" /\ enabled
    /\ Unused(f)
    /\ Insert(r, t, f)
    /\ UNCHANGED <<enabled, jar, history, drops>>

-----------------------------------------------------------------------------
\* The browser sends its cookie with a request for /refresh or /logout.  Both
\* routes authenticate the access token first, and refuse an inactive user.
Calls(r, at) ==
    /\ req[r].at = "idle" /\ jar # NoToken
    /\ enabled
    /\ ~tok[jar].old
    /\ req' = [req EXCEPT ![r] = [at |-> at, tok |-> jar, fam |-> tok[jar].fam,
                                  ids |-> {}]]
    /\ mingled' = IF InFlight(tok[jar].fam) # {}
                  THEN mingled \cup {tok[jar].fam} ELSE mingled
    /\ UNCHANGED <<tok, enabled, jar, dead, lost, drops>>

\* refresh() decodes the token: an expired JWT is refused before any query.
Refresh(r) == Calls(r, "called")

\* Mutant: a revoked token is treated like an expired one.
VerdictByExpiry(row) ==
    IF row.status = "rotated" THEN "reuse"
    ELSE IF row.status = "expired" THEN "refused"
    ELSE IF row.old THEN "expiring" ELSE "checked"

\* What refresh() does with the row it selected.
Verdict(row) ==
    IF row.status = "rotated" THEN "reuse"
    ELSE IF row.status \in {"revoked", "expired"} THEN "refused"
    ELSE IF row.status = "active" /\ row.old THEN "expiring" ELSE "checked"

RefreshRead(r) ==
    /\ req[r].at = "called"
    /\ LET v == Verdict(tok[req[r].tok])
       IN IF v = "refused" THEN Fails(r) ELSE Goes(r, v)
    /\ UNCHANGED <<tok, enabled, jar, history, drops>>

RefreshExpires(r) ==
    /\ req[r].at = "expiring"
    /\ Update({req[r].tok}, "expired")
    /\ Fails(r)
    /\ UNCHANGED <<enabled, jar, history, drops>>

\* The user is loaded; an inactive one is refused.
RefreshUser(r) ==
    /\ req[r].at = "checked"
    /\ IF enabled THEN Goes(r, "rotating") ELSE Fails(r)
    /\ UNCHANGED <<tok, enabled, jar, history, drops>>

\* Mutant: rec.status is set but not committed.
RefreshForgets(r) ==
    /\ req[r].at = "rotating"
    /\ Goes(r, "issuing")
    /\ UNCHANGED <<tok, enabled, jar, history, drops>>

RefreshRotate(r) ==
    /\ req[r].at = "rotating"
    /\ Update({req[r].tok}, "rotated")
    /\ Goes(r, "issuing")
    /\ UNCHANGED <<enabled, jar, history, drops>>

RefreshIssue(r, t) ==
    /\ req[r].at = "issuing"
    /\ Insert(r, t, req[r].fam)
    /\ UNCHANGED <<enabled, jar, history, drops>>

\* Mutant: the cookie is set by a login only.
AnswerWithoutCookie(r) ==
    /\ req[r].at = "answer"
    /\ jar' = IF FamilyOf(req[r].fam) = {req[r].tok} THEN req[r].tok ELSE jar
    /\ Fails(r)
    /\ UNCHANGED <<tok, enabled, history, drops>>

\* The answer of login or refresh reaches the browser.  A login always sets
\* the cookie; it is the first token of its family.
Answer(r) ==
    /\ req[r].at = "answer"
    /\ jar' = IF Attaches \/ FamilyOf(req[r].fam) = {req[r].tok}
              THEN req[r].tok ELSE jar
    /\ Fails(r)
    /\ UNCHANGED <<tok, enabled, history, drops>>

-----------------------------------------------------------------------------
\* Reuse of a rotated token: the whole family is selected, then revoked.  The
\* flush writes the rows whose status changes; the presented row was loaded
\* as rotated before, and the second SELECT does not refresh it.
ReuseRead(r) ==
    /\ req[r].at = "reuse"
    /\ LET f == FamilyOf(req[r].fam)
           changed == {t \in f : t = req[r].tok \/ tok[t].status # "revoked"}
       IN req' = [req EXCEPT ![r].at = "revoking", ![r].ids = changed]
    /\ UNCHANGED <<tok, enabled, jar, history, drops>>

ReuseCommit(r) ==
    /\ req[r].at = "revoking"
    /\ Update(req[r].ids, "revoked")
    /\ dead' = dead \cup {req[r].fam}
    /\ Fails(r)
    /\ UNCHANGED <<enabled, jar, mingled, lost, drops>>

Logout(r) == Calls(r, "leaving")

\* A cookie that no longer decodes is deleted, and nothing revoked.
LogoutStale(r) ==
    /\ req[r].at = "idle" /\ jar # NoToken
    /\ enabled
    /\ tok[jar].old
    /\ req' = [req EXCEPT ![r].at = "bye"]
    /\ UNCHANGED <<tok, enabled, jar, history, drops>>

\* Mutant: logout revokes the presented token only.
LogoutReadOne(r) ==
    /\ req[r].at = "leaving"
    /\ req' = [req EXCEPT ![r].at = "loggingout",
                          ![r].ids = ActiveOf(req[r].fam) \cap {req[r].tok}]
    /\ UNCHANGED <<tok, enabled, jar, history, drops>>

LogoutRead(r) ==
    /\ req[r].at = "leaving"
    /\ req' = [req EXCEPT ![r].at = "loggingout", ![r].ids = ActiveOf(req[r].fam)]
    /\ UNCHANGED <<tok, enabled, jar, history, drops>>

LogoutCommit(r) ==
    /\ req[r].at = "loggingout"
    /\ Update(req[r].ids, "revoked")
    /\ dead' = dead \cup {req[r].fam}
    /\ Goes(r, "bye")
    /\ UNCHANGED <<enabled, jar, mingled, lost, drops>>

Bye(r) ==
    /\ req[r].at = "bye"
    /\ jar' = NoToken
    /\ Fails(r)
    /\ UNCHANGED <<tok, enabled, history, drops>>

-----------------------------------------------------------------------------
\* The handler's process dies at an await, or its answer is lost.
Drop(r) ==
    /\ drops < MaxDrops
    /\ req[r].at # "idle"
    /\ drops' = drops + 1
    /\ lost' = IF req[r].at \in {"issuing", "answer"}
               THEN lost \cup {req[r].fam} ELSE lost
    /\ Fails(r)
    /\ UNCHANGED <<tok, enabled, jar, dead, mingled>>

\* expires_at passes.
Ages(t) ==
    /\ tok[t].status # "none" /\ ~tok[t].old
    /\ tok' = [tok EXCEPT ![t].old = TRUE]
    /\ UNCHANGED <<enabled, req, jar, history, drops>>

\* An administrator deactivates the account.
Deactivate ==
    /\ enabled
    /\ enabled' = FALSE
    /\ UNCHANGED <<tok, req, jar, history, drops>>

Handles(r) ==
    \/ RefreshRead(r) \/ RefreshExpires(r) \/ RefreshUser(r) \/ RefreshRotate(r)
    \/ \E t \in Tokens : RefreshIssue(r, t)
    \/ ReuseRead(r) \/ ReuseCommit(r)
    \/ LogoutRead(r) \/ LogoutCommit(r)
    \/ Answer(r) \/ Bye(r)

Next ==
    \/ \E r \in Requests, t \in Tokens, f \in Families : Login(r, t, f)
    \/ \E r \in Requests : Refresh(r) \/ Logout(r) \/ LogoutStale(r)
                           \/ Handles(r) \/ Drop(r)
    \/ \E t \in Tokens : Ages(t)
    \/ Deactivate

Spec == Init /\ [][Next]_vars
-----------------------------------------------------------------------------
(* Properties.                                                              *)

\* Rows, requests and the cookie keep their types.
TypeOK ==
    /\ tok \in [Tokens -> TokenType]
    /\ enabled \in BOOLEAN
    /\ req \in [Requests -> RequestType]
    /\ jar \in Tokens \cup {NoToken}
    /\ dead \subseteq Families /\ mingled \subseteq Families
    /\ lost \subseteq Families
    /\ drops \in Nat

\* Rotation: a family has one usable token, unless two requests of the family
\* were under way at once.
OneActive ==
    \A f \in Families \ mingled : Cardinality(ActiveOf(f)) <= 1

\* "If any token is reused after rotation, the whole family is revoked", and a
\* logout revokes "the refresh-token family": it stays without a usable token.
RevokedStaysDead ==
    \A f \in dead \ mingled : ActiveOf(f) = {}

\* "Theft response": a browser that sends one request at a time and gets its
\* answers never presents a rotated token.
ReuseIsNoAccident ==
    \A r \in Requests : req[r].at = "reuse" => req[r].fam \in mingled \cup lost

\* REVOKED is final, unless a refresh that read the row earlier is under way.
RevokedIsFinal ==
    [][\A t \in Tokens : tok[t].status = "revoked" /\ tok[t].fam \notin mingled
                            => tok'[t].status = "revoked"]_vars
=============================================================================
