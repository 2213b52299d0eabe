------------------------ MODULE RefreshTokensSafety -------------------------
(***************************************************************************)
(* Theorems about RefreshTokens for every set of tokens, families and       *)
(* requests.  While at most one request of a family is under way, what a    *)
(* handler read before an await is still so when it writes: IInv says what  *)
(* that is at each step of a handler.  Browser adds the cookie.             *)
(***************************************************************************)
EXTENDS RefreshTokens, FiniteSetTheorems, TLAPS

-----------------------------------------------------------------------------
(* The inductive invariant.                                                 *)

\* A row exists with its family, or not at all.
RowsOwned ==
  \A t \in Tokens : \/ tok[t].status # "none" /\ tok[t].fam \in Families
                    \/ tok[t] = NotIssued

\* A handler works on a token of its family; so do the rows it selected.
Owns(q) ==
  /\ q.at = "idle" => q = NoRequest
  /\ q.fam = NoFamily => q.at \in {"idle", "bye"}
  /\ q.fam # NoFamily => /\ q.tok \in Tokens /\ tok[q.tok].fam = q.fam
                         /\ q.ids \subseteq FamilyOf(q.fam)

\* What a handler that is alone in its family relies on when it writes.
Relies(q) ==
  q.fam \in Families \ mingled =>
    /\ q.at \in {"checked", "rotating", "expiring", "answer"} =>
         tok[q.tok].status = "active"
    /\ q.at = "issuing" => ActiveOf(q.fam) = {} /\ q.fam \notin dead
    /\ q.at \in {"revoking", "loggingout"} => ActiveOf(q.fam) \subseteq q.ids

HandlersSure == \A r \in Requests : Owns(req[r]) /\ Relies(req[r])

\* The cookie holds a token that was issued.
JarIssued == jar # NoToken => tok[jar].fam # NoFamily

DeadWereUsed == \A f \in dead : ~Unused(f)

\* A family that never had two requests under way has one now at most.
Alone ==
  \A r, s \in Requests :
    req[r].fam = req[s].fam /\ req[r].fam \in Families \ mingled => r = s

AtMostOne ==
  \A f \in Families \ mingled : \A t, u \in ActiveOf(f) : t = u

IInv == /\ TypeOK /\ RowsOwned /\ HandlersSure /\ JarIssued /\ DeadWereUsed
        /\ Alone /\ AtMostOne /\ RevokedStaysDead

\* The browser's token is not a rotated one, unless an answer is on its way.
Browser ==
  /\ \A r \in Requests :
       req[r].at = "called" /\ req[r].fam \notin mingled \cup lost =>
         tok[req[r].tok].status # "rotated"
  /\ jar # NoToken /\ tok[jar].status = "rotated" =>
       \/ tok[jar].fam \in mingled \cup lost
       \/ \E r \in Requests : req[r].fam = tok[jar].fam
                              /\ req[r].at \in {"issuing", "answer"}
  /\ ReuseIsNoAccident

-----------------------------------------------------------------------------
(* Three kinds of step: a handler moves on, rows of its family are updated, *)
(* or a row is inserted.                                                    *)

\* Nothing of the tables changes; r goes on in its family, or is over.
LEMMA HandlerMoves ==
  ASSUME IInv, NEW r \in Requests, NEW q \in RequestType,
         req' = [req EXCEPT ![r] = q],
         q.fam \in {req[r].fam, NoFamily}, Owns(q), Relies(q),
         UNCHANGED <<tok, dead, mingled>>,
         jar' \in {jar, NoToken} \cup Tokens, JarIssued',
         enabled' \in BOOLEAN, lost' \subseteq Families, drops' \in Nat
  PROVE  IInv'
<1>1. TypeOK'
  BY DEF IInv, TypeOK
<1>2. /\ \A f : FamilyOf(f)' = FamilyOf(f) /\ ActiveOf(f)' = ActiveOf(f)
      /\ \A p : Owns(p)' <=> Owns(p)
      /\ \A p : Relies(p)' <=> Relies(p)
  BY DEF FamilyOf, ActiveOf, Owns, Relies
<1>3. \A s \in Requests : req'[s] = IF s = r THEN q ELSE req[s]
  BY DEF IInv, TypeOK
<1>4. HandlersSure'
  BY <1>2, <1>3 DEF IInv, HandlersSure, Owns, Relies, FamilyOf, ActiveOf
<1>5. Alone'
  BY <1>3, RefreshTokensAssumption DEF IInv, Alone
<1>6. RowsOwned' /\ DeadWereUsed' /\ AtMostOne' /\ RevokedStaysDead'
  BY <1>2 DEF IInv, RowsOwned, DeadWereUsed, Unused, AtMostOne, RevokedStaysDead
<1> QED
  BY <1>1, <1>4, <1>5, <1>6 DEF IInv

\* Rows of one family leave ACTIVE: the sets of the others stay as they are.
LEMMA UpdateEffect ==
  ASSUME IInv, NEW f \in Families, NEW S, S \subseteq FamilyOf(f),
         NEW st \in {"expired", "rotated", "revoked"}, Update(S, st)
  PROVE  /\ tok' \in [Tokens -> TokenType]
         /\ \A t \in Tokens : /\ tok'[t].fam = tok[t].fam
                              /\ tok'[t].old = tok[t].old
                              /\ tok'[t].status = IF t \in S THEN st
                                                  ELSE tok[t].status
         /\ \A g : FamilyOf(g)' = FamilyOf(g)
         /\ \A g \in Families : ActiveOf(g)' = ActiveOf(g) \ S
         /\ \A g \in Families \ {f} : ActiveOf(g)' = ActiveOf(g)
         /\ RowsOwned'
<1>0. S \subseteq Tokens /\ \A t \in S : tok[t].fam = f
  BY DEF FamilyOf
<1>1. \A t \in Tokens : tok[t] \in TokenType
  BY DEF IInv, TypeOK
<1>2. \A t \in Tokens : [tok[t] EXCEPT !.status = st] \in TokenType
  BY <1>1 DEF TokenType, TokenStatus
<1>3. tok' \in [Tokens -> TokenType]
  BY <1>1, <1>2 DEF Update
<1>4. \A t \in Tokens : /\ tok'[t].fam = tok[t].fam
                        /\ tok'[t].old = tok[t].old
                        /\ tok'[t].status = IF t \in S THEN st
                                            ELSE tok[t].status
  BY <1>1, <1>0 DEF Update, TokenType
<1>5. \A g : FamilyOf(g)' = FamilyOf(g)
  BY <1>4 DEF FamilyOf
<1>6. \A g : ActiveOf(g)' = ActiveOf(g) \ S
  BY <1>4, <1>5 DEF ActiveOf, FamilyOf
<1>7. \A g \in Families \ {f} : ActiveOf(g)' = ActiveOf(g)
  BY <1>6, <1>0 DEF ActiveOf, FamilyOf
<1>8. \A t \in Tokens \ S : tok'[t] = tok[t]
  BY <1>0 DEF Update
<1>9. RowsOwned'
  BY <1>0, <1>4, <1>8 DEF IInv, RowsOwned
<1> QED
  BY <1>3, <1>4, <1>5, <1>6, <1>7, <1>9

\* r updates rows of its family and moves on; the family may be dead now.
LEMMA HandlerUpdates ==
  ASSUME IInv, NEW r \in Requests, NEW q \in RequestType,
         req' = [req EXCEPT ![r] = q],
         q.fam \in {req[r].fam, NoFamily}, Owns(q), Relies(q)',
         req[r].fam \in Families,
         NEW S, S \subseteq FamilyOf(req[r].fam),
         NEW st \in {"expired", "rotated", "revoked"}, Update(S, st),
         dead' = dead \/ /\ dead' = dead \cup {req[r].fam}
                         /\ req[r].fam \notin mingled =>
                              ActiveOf(req[r].fam) \subseteq S,
         UNCHANGED <<enabled, jar, mingled, lost, drops>>
  PROVE  IInv'
<1> DEFINE f == req[r].fam
<1>1. /\ tok' \in [Tokens -> TokenType]
      /\ \A t \in Tokens : /\ tok'[t].fam = tok[t].fam
                           /\ tok'[t].status = IF t \in S THEN st
                                               ELSE tok[t].status
      /\ \A g : FamilyOf(g)' = FamilyOf(g)
      /\ \A g \in Families : ActiveOf(g)' = ActiveOf(g) \ S
      /\ \A g \in Families \ {f} : ActiveOf(g)' = ActiveOf(g)
      /\ RowsOwned'
  BY UpdateEffect
<1>2. TypeOK' /\ RowsOwned'
  BY <1>1 DEF IInv, TypeOK
<1>3. \A s \in Requests : req'[s] = IF s = r THEN q ELSE req[s]
  BY DEF IInv, TypeOK
<1>4. ASSUME NEW s \in Requests PROVE Owns(req[s])' /\ Relies(req[s])'
  <2>1. CASE s = r
    BY <2>1, <1>1, <1>3 DEF Owns
  <2>2. CASE s # r
    <3>1. req'[s] = req[s] /\ Owns(req[s]) /\ Relies(req[s])
      BY <2>2, <1>3 DEF IInv, HandlersSure
    <3>2. Owns(req[s])'
      BY <3>1, <1>1 DEF Owns
    <3>3. req[s].fam \in Families \ mingled => req[s].fam # f
      BY <2>2 DEF IInv, Alone
    <3>4. ASSUME req[s].fam \in Families \ mingled PROVE Relies(req[s])'
      <4>1. /\ ActiveOf(req[s].fam)' = ActiveOf(req[s].fam)
            /\ req[s].tok \in Tokens /\ tok[req[s].tok].fam = req[s].fam
        BY <3>1, <3>3, <3>4, <1>1, RefreshTokensAssumption DEF Owns
      <4>2. req[s].tok \notin S
        BY <4>1, <3>3, <3>4 DEF FamilyOf
      <4>3. tok'[req[s].tok].status = tok[req[s].tok].status
        BY <4>1, <4>2, <1>1
      <4>4. req[s].fam \notin dead => req[s].fam \notin dead'
        BY <3>3, <3>4
      <4> QED
        BY <3>1, <4>1, <4>3, <4>4 DEF Relies
    <3> QED
      BY <3>1, <3>2, <3>4 DEF Relies
  <2> QED
    BY <2>1, <2>2
<1>5. Alone'
  BY <1>3, RefreshTokensAssumption DEF IInv, Alone
<1>6. JarIssued'
  BY <1>1 DEF IInv, JarIssued, TypeOK
<1>7. DeadWereUsed'
  <2>1. ~Unused(f)
    BY RefreshTokensAssumption DEF IInv, HandlersSure, Owns, FamilyOf, Unused
  <2> QED
    BY <1>1, <2>1 DEF IInv, DeadWereUsed, Unused
<1>8. AtMostOne' /\ RevokedStaysDead'
  BY <1>1 DEF IInv, AtMostOne, RevokedStaysDead, TypeOK
<1> QED
  BY <1>2, <1>4, <1>5, <1>6, <1>7, <1>8 DEF IInv, HandlersSure

\* A login's family is new; a refresh has turned its token before.
LEMMA InsertKeeps ==
  ASSUME IInv, NEW r \in Requests, NEW t \in Tokens, NEW f \in Families,
         Insert(r, t, f),
         \/ req[r].at = "idle" /\ Unused(f)
         \/ req[r].at = "issuing" /\ req[r].fam = f,
         UNCHANGED <<enabled, jar, history, drops>>
  PROVE  IInv'
<1> DEFINE q == [at |-> "answer", tok |-> t, fam |-> f, ids |-> {}]
           new == [status |-> "active", fam |-> f, old |-> FALSE]
<1>1. /\ tok[t] = NotIssued /\ tok[t].fam = NoFamily /\ tok[t].status = "none"
      /\ \A u \in Tokens : tok'[u] = IF u = t THEN new ELSE tok[u]
      /\ \A s \in Requests : req'[s] = IF s = r THEN q ELSE req[s]
  BY DEF Insert, NotIssued, IInv, TypeOK
<1>2. TypeOK'
  <2>1. new \in TokenType /\ q \in RequestType
    BY DEF TokenType, TokenStatus, RequestType
  <2> QED
    BY <2>1 DEF IInv, TypeOK, Insert, history
<1>3. RowsOwned'
  BY <1>1 DEF IInv, RowsOwned
<1>4. /\ FamilyOf(f)' = FamilyOf(f) \cup {t} /\ t \notin FamilyOf(f)
      /\ ActiveOf(f)' = ActiveOf(f) \cup {t}
      /\ \A g \in Families \ {f} : FamilyOf(g)' = FamilyOf(g)
                                   /\ ActiveOf(g)' = ActiveOf(g)
  BY <1>1, RefreshTokensAssumption DEF FamilyOf, ActiveOf
<1>5. f \notin mingled =>
        /\ ActiveOf(f) = {} /\ f \notin dead
        /\ \A s \in Requests \ {r} : req[s].fam # f
  <2>1. CASE req[r].at = "idle" /\ Unused(f)
    BY <2>1, RefreshTokensAssumption
       DEF IInv, DeadWereUsed, HandlersSure, Owns, Unused, FamilyOf, ActiveOf
  <2>2. CASE req[r].at = "issuing" /\ req[r].fam = f
    BY <2>2 DEF IInv, HandlersSure, Relies, Alone
  <2> QED
    BY <2>1, <2>2
<1>6. ASSUME NEW s \in Requests PROVE Owns(req[s])' /\ Relies(req[s])'
  <2>1. CASE s = r
    <3>1. req[s]' = q /\ tok[t]' = new
      BY <2>1, <1>1
    <3>2. Owns(q)' /\ Relies(q)'
      BY <3>1, RefreshTokensAssumption DEF Owns, Relies
    <3> QED
      BY <3>1, <3>2
  <2>2. CASE s # r
    <3>1. req'[s] = req[s] /\ Owns(req[s]) /\ Relies(req[s])
          /\ req[s].fam \in Families \cup {NoFamily}
      BY <2>2, <1>1 DEF IInv, HandlersSure, TypeOK, RequestType
    <3>2. CASE req[s].fam = NoFamily
      BY <3>1, <3>2, RefreshTokensAssumption DEF Owns, Relies
    <3>3. CASE req[s].fam \in Families
      <4>1. req[s].tok \in Tokens /\ req[s].tok # t
        BY <3>1, <3>3, <1>1, RefreshTokensAssumption DEF Owns
      <4>2. tok'[req[s].tok] = tok[req[s].tok]
        BY <4>1, <1>1
      <4>3. FamilyOf(req[s].fam) \subseteq FamilyOf(req[s].fam)'
        BY <3>3, <3>1, <1>4
      <4>4. Owns(req[s])'
        BY <3>1, <3>3, <4>1, <4>2, <4>3, RefreshTokensAssumption DEF Owns
      <4>5. Relies(req[s])'
        BY <3>1, <3>3, <4>2, <1>4, <1>5, <2>2 DEF Relies, history
      <4> QED
        BY <4>4, <4>5
    <3> QED
      BY <3>1, <3>2, <3>3
  <2> QED
    BY <2>1, <2>2
<1>7. Alone'
  BY <1>1, <1>5 DEF IInv, Alone, history
<1>8. JarIssued'
  <2>1. jar # NoToken => jar \in Tokens /\ jar # t
    BY <1>1 DEF IInv, TypeOK, JarIssued
  <2> QED
    BY <2>1, <1>1 DEF IInv, JarIssued
<1>9. DeadWereUsed'
  BY <1>4 DEF IInv, DeadWereUsed, Unused, history, TypeOK
<1>10. AtMostOne' /\ RevokedStaysDead'
  BY <1>4, <1>5 DEF IInv, AtMostOne, RevokedStaysDead, history, TypeOK
<1> QED
  BY <1>2, <1>3, <1>6, <1>7, <1>8, <1>9, <1>10 DEF IInv, HandlersSure

-----------------------------------------------------------------------------
(* The steps of a handler.                                                  *)

\* A request that is under way, but for a cookie that does not decode, is of
\* a family.
LEMMA FamilyKnown ==
  ASSUME IInv, NEW r \in Requests, req[r].at \notin {"idle", "bye"}
  PROVE  /\ req[r] \in RequestType /\ Owns(req[r]) /\ Relies(req[r])
         /\ req[r].fam \in Families /\ req[r].tok \in Tokens
         /\ req[r].tok \in FamilyOf(req[r].fam)
BY RefreshTokensAssumption
   DEF IInv, TypeOK, RequestType, HandlersSure, Owns, FamilyOf

LEMMA ResetTypes ==
  /\ NoRequest \in RequestType /\ NoRequest.fam = NoFamily
  /\ Owns(NoRequest) /\ Relies(NoRequest)
  /\ Relies(NoRequest)' /\ Owns(NoRequest)'
BY RefreshTokensAssumption DEF NoRequest, RequestType, Owns, Relies

LEMMA InitInv == Init => IInv
<1> SUFFICES ASSUME Init PROVE IInv
  OBVIOUS
<1>1. NotIssued \in TokenType /\ NotIssued.fam = NoFamily
  BY DEF NotIssued, TokenType
<1>2. TypeOK
  BY <1>1, ResetTypes DEF Init, TypeOK
<1>3. HandlersSure /\ Alone
  BY ResetTypes, RefreshTokensAssumption DEF Init, HandlersSure, Alone
<1>4. \A f \in Families : ActiveOf(f) = {}
  BY <1>1, RefreshTokensAssumption DEF Init, ActiveOf, FamilyOf
<1> QED
  BY <1>2, <1>3, <1>4
     DEF Init, IInv, RowsOwned, JarIssued, DeadWereUsed, AtMostOne, RevokedStaysDead

LEMMA LoginKeeps ==
  ASSUME IInv, NEW r \in Requests, NEW t \in Tokens, NEW f \in Families,
         Login(r, t, f)
  PROVE  IInv'
BY InsertKeeps DEF Login

\* A second request of a family that is under way makes it mingled.
LEMMA CallKeeps ==
  ASSUME IInv, NEW r \in Requests, NEW at \in {"called", "leaving"}, Calls(r, at)
  PROVE  IInv'
<1> DEFINE f == tok[jar].fam
           q == [at |-> at, tok |-> jar, fam |-> f, ids |-> {}]
<1>1. jar \in Tokens /\ f \in Families
  BY DEF Calls, IInv, TypeOK, JarIssued, TokenType
<1>2. mingled \subseteq mingled' /\ mingled' \subseteq Families
  BY <1>1 DEF Calls, IInv, TypeOK
<1>3. q \in RequestType
  BY <1>1 DEF RequestType
<1>4. TypeOK'
  BY <1>2, <1>3 DEF Calls, IInv, TypeOK
<1>5. \A s \in Requests : req'[s] = IF s = r THEN q ELSE req[s]
  BY DEF Calls, IInv, TypeOK
<1>6. /\ \A g : FamilyOf(g)' = FamilyOf(g) /\ ActiveOf(g)' = ActiveOf(g)
      /\ \A p : Owns(p) => Owns(p)'
      /\ \A p : Relies(p) => Relies(p)'
  BY <1>2 DEF Calls, FamilyOf, ActiveOf, Owns, Relies
<1>7. Owns(q) /\ Relies(q)
  BY <1>1, RefreshTokensAssumption DEF Owns, Relies
<1>8. HandlersSure'
  BY <1>5, <1>6, <1>7 DEF IInv, HandlersSure
<1>9. Alone'
  <2>1. f \notin mingled' => \A s \in Requests : req[s].fam # f
    BY <1>1 DEF Calls, InFlight
  <2> QED
    BY <2>1, <1>2, <1>5 DEF IInv, Alone
<1>10. RowsOwned' /\ JarIssued' /\ DeadWereUsed'
  BY <1>6 DEF Calls, IInv, RowsOwned, JarIssued, DeadWereUsed, Unused
<1>11. AtMostOne' /\ RevokedStaysDead'
  BY <1>2, <1>6 DEF Calls, IInv, AtMostOne, RevokedStaysDead
<1> QED
  BY <1>4, <1>8, <1>9, <1>10, <1>11 DEF IInv

\* A handler that reads, or is cut off, changes its own progress alone.
LEMMA ReadKeeps ==
  ASSUME IInv, NEW r \in Requests,
         RefreshRead(r) \/ RefreshUser(r) \/ ReuseRead(r) \/ LogoutRead(r)
  PROVE  IInv'
<1> DEFINE f == req[r].fam
<1>1. req[r].at \in {"called", "checked", "reuse", "leaving"}
  BY DEF RefreshRead, RefreshUser, ReuseRead, LogoutRead
<1>2. /\ req[r] \in RequestType /\ Owns(req[r]) /\ Relies(req[r])
      /\ f \in Families /\ req[r].tok \in Tokens
  BY <1>1, FamilyKnown
<1>3. UNCHANGED <<tok, enabled, jar, dead, mingled, lost, drops>>
  BY DEF RefreshRead, RefreshUser, ReuseRead, LogoutRead, history
<1>4. PICK q \in RequestType :
        /\ req' = [req EXCEPT ![r] = q] /\ q.fam \in {f, NoFamily}
        /\ Owns(q) /\ Relies(q)
  <2>1. CASE Fails(r)
    BY <2>1, ResetTypes DEF Fails
  <2>2. CASE RefreshRead(r) /\ ~Fails(r)
    <3> DEFINE row == tok[req[r].tok]
               q == [req[r] EXCEPT !.at = Verdict(row)]
    <3>1. /\ Verdict(row) \in {"reuse", "expiring", "checked"}
          /\ row.status # "active" => Verdict(row) = "reuse"
          /\ req' = [req EXCEPT ![r].at = Verdict(row)]
      <4>1. row.status \in TokenStatus
        BY <1>2, RefreshTokensAssumption
           DEF IInv, TypeOK, TokenType, RowsOwned, NotIssued, Owns
      <4> QED
        BY <4>1, <2>2 DEF RefreshRead, Verdict, Goes, TokenStatus
    <3>2. /\ q \in RequestType
          /\ q.fam = f /\ q.tok = req[r].tok /\ q.ids = req[r].ids
          /\ q.at = Verdict(row) /\ req' = [req EXCEPT ![r] = q]
      BY <1>2, <3>1 DEF RequestType
    <3>3. Owns(q) /\ Relies(q)
      BY <1>2, <3>1, <3>2, RefreshTokensAssumption DEF Owns, Relies
    <3> QED
      BY <3>2, <3>3
  <2>3. CASE RefreshUser(r) /\ ~Fails(r)
    <3> DEFINE q == [req[r] EXCEPT !.at = "rotating"]
    <3>1. req[r].at = "checked" /\ req' = [req EXCEPT ![r].at = "rotating"]
      BY <2>3 DEF RefreshUser, Goes
    <3>2. /\ q \in RequestType
          /\ q.fam = f /\ q.tok = req[r].tok /\ q.ids = req[r].ids
          /\ q.at = "rotating" /\ req' = [req EXCEPT ![r] = q]
      BY <1>2, <3>1 DEF RequestType
    <3>3. Owns(q) /\ Relies(q)
      BY <1>2, <3>1, <3>2, RefreshTokensAssumption DEF Owns, Relies
    <3> QED
      BY <3>2, <3>3
  <2>4. ASSUME NEW at \in {"revoking", "loggingout"}, NEW S,
               S \subseteq FamilyOf(f), ActiveOf(f) \subseteq S,
               req' = [req EXCEPT ![r].at = at, ![r].ids = S]
        PROVE  \E q \in RequestType :
                 /\ req' = [req EXCEPT ![r] = q] /\ q.fam \in {f, NoFamily}
                 /\ Owns(q) /\ Relies(q)
    <3> DEFINE q == [req[r] EXCEPT !.at = at, !.ids = S]
    <3>1. S \subseteq Tokens
      BY <2>4 DEF FamilyOf
    <3>2. /\ q \in RequestType
          /\ q.fam = f /\ q.tok = req[r].tok /\ q.ids = S /\ q.at = at
          /\ req' = [req EXCEPT ![r] = q]
      BY <1>2, <2>4, <3>1 DEF RequestType
    <3>3. Owns(q) /\ Relies(q)
      BY <1>2, <2>4, <3>2, RefreshTokensAssumption DEF Owns, Relies
    <3> QED
      BY <3>2, <3>3
  <2>5. CASE ReuseRead(r)
    <3> DEFINE S == {t \in FamilyOf(f) : t = req[r].tok \/ tok[t].status # "revoked"}
    <3>1. req' = [req EXCEPT ![r].at = "revoking", ![r].ids = S]
      BY <2>5 DEF ReuseRead
    <3>2. S \subseteq FamilyOf(f) /\ ActiveOf(f) \subseteq S
      BY DEF ActiveOf
    <3> QED
      BY <3>1, <3>2, <2>4
  <2>6. CASE LogoutRead(r)
    <3>1. ActiveOf(f) \subseteq FamilyOf(f)
      BY DEF ActiveOf
    <3> QED
      BY <2>6, <3>1, <2>4 DEF LogoutRead
  <2> QED
    BY <2>1, <2>2, <2>3, <2>5, <2>6
<1>5. jar' \in {jar, NoToken} \cup Tokens /\ JarIssued' /\ enabled' \in BOOLEAN
      /\ lost' \subseteq Families /\ drops' \in Nat
  BY <1>3 DEF IInv, TypeOK, JarIssued
<1> QED
  BY <1>3, <1>4, <1>5, HandlerMoves

\* An answer sets the cookie to a token of its family, or deletes it.
LEMMA EndKeeps ==
  ASSUME IInv, NEW r \in Requests, Answer(r) \/ Bye(r) \/ Drop(r)
  PROVE  IInv'
<1>1. req' = [req EXCEPT ![r] = NoRequest] /\ UNCHANGED <<tok, dead, mingled, enabled>>
  BY DEF Answer, Bye, Drop, Fails, history
<1>2. jar' \in {jar, NoToken} \cup Tokens /\ JarIssued'
  <2>1. CASE Answer(r)
    <3>1. req[r].tok \in Tokens /\ tok[req[r].tok].fam # NoFamily
      BY <2>1, FamilyKnown, RefreshTokensAssumption DEF Answer, Owns
    <3> QED
      BY <2>1, <3>1 DEF Answer, IInv, JarIssued, TypeOK
  <2>2. CASE Bye(r) \/ Drop(r)
    BY <2>2 DEF Bye, Drop, IInv, JarIssued
  <2> QED
    BY <2>1, <2>2
<1>3. lost' \subseteq Families /\ drops' \in Nat
  <2>1. CASE Drop(r)
    BY <2>1, FamilyKnown DEF Drop, IInv, TypeOK
  <2>2. CASE Answer(r) \/ Bye(r)
    BY <2>2 DEF Answer, Bye, IInv, TypeOK, history
  <2> QED
    BY <2>1, <2>2
<1>4. enabled' \in BOOLEAN
  BY <1>1 DEF IInv, TypeOK
<1> QED
  BY <1>1, <1>2, <1>3, <1>4, HandlerMoves, ResetTypes

LEMMA StaleKeeps ==
  ASSUME IInv, NEW r \in Requests, LogoutStale(r) PROVE IInv'
<1> DEFINE q == [NoRequest EXCEPT !.at = "bye"]
<1>1. req[r] = NoRequest /\ req' = [req EXCEPT ![r] = q]
  BY DEF LogoutStale, IInv, HandlersSure, Owns, TypeOK
<1>2. q \in RequestType /\ q.fam = NoFamily /\ q.at = "bye"
  BY DEF NoRequest, RequestType
<1>3. Owns(q) /\ Relies(q)
  BY <1>2, RefreshTokensAssumption DEF Owns, Relies
<1>4. jar' = jar /\ JarIssued' /\ UNCHANGED <<tok, enabled, dead, mingled, lost, drops>>
  BY DEF LogoutStale, history, IInv, JarIssued
<1> QED
  BY <1>1, <1>2, <1>3, <1>4, HandlerMoves DEF IInv, TypeOK

\* A handler that updates rows: what it relies on next.
LEMMA WriteKeeps ==
  ASSUME IInv, NEW r \in Requests,
         RefreshExpires(r) \/ RefreshRotate(r) \/ ReuseCommit(r) \/ LogoutCommit(r)
  PROVE  IInv'
<1> DEFINE f == req[r].fam
<1>1. /\ req[r] \in RequestType /\ Owns(req[r]) /\ Relies(req[r])
      /\ f \in Families /\ req[r].tok \in Tokens /\ {req[r].tok} \subseteq FamilyOf(f)
      /\ req[r].ids \subseteq FamilyOf(f)
  BY FamilyKnown, RefreshTokensAssumption
     DEF RefreshExpires, RefreshRotate, ReuseCommit, LogoutCommit, Owns
<1>2. CASE RefreshExpires(r)
  BY <1>1, <1>2, ResetTypes, HandlerUpdates DEF RefreshExpires, Fails, history
<1>3. CASE ReuseCommit(r)
  <2>1. f \notin mingled => ActiveOf(f) \subseteq req[r].ids
    BY <1>1, <1>3 DEF ReuseCommit, Relies
  <2> QED
    BY <1>1, <1>3, <2>1, ResetTypes, HandlerUpdates DEF ReuseCommit, Fails
<1>4. CASE LogoutCommit(r)
  <2>0. PICK q : q = [req[r] EXCEPT !.at = "bye"]
    OBVIOUS
  <2>1. f \notin mingled => ActiveOf(f) \subseteq req[r].ids
    BY <1>1, <1>4 DEF LogoutCommit, Relies
  <2>2. /\ q \in RequestType
        /\ q.fam = f /\ q.tok = req[r].tok /\ q.ids = req[r].ids
        /\ q.at = "bye" /\ req' = [req EXCEPT ![r] = q]
    BY <1>1, <1>4, <2>0 DEF LogoutCommit, Goes, RequestType
  <2>3. Owns(q) /\ Relies(q)'
    BY <1>1, <2>2, RefreshTokensAssumption DEF Owns, Relies
  <2> QED
    BY <1>1, <1>4, <2>1, <2>2, <2>3, HandlerUpdates DEF LogoutCommit
<1>5. CASE RefreshRotate(r)
  <2>0. PICK q : q = [req[r] EXCEPT !.at = "issuing"]
    OBVIOUS
  <2>1. /\ q \in RequestType
        /\ q.fam = f /\ q.tok = req[r].tok /\ q.ids = req[r].ids
        /\ q.at = "issuing" /\ req' = [req EXCEPT ![r] = q]
        /\ UNCHANGED <<enabled, jar, dead, mingled, lost, drops>>
        /\ Update({req[r].tok}, "rotated")
    BY <1>1, <1>5, <2>0 DEF RefreshRotate, Goes, RequestType, history
  <2>2. \A g \in Families : ActiveOf(g)' = ActiveOf(g) \ {req[r].tok}
    BY <1>1, <2>1, UpdateEffect
  <2>3. \A g : g = f /\ g \notin mingled => ActiveOf(g)' = {} /\ g \notin dead
    <3>1. f \notin mingled => req[r].tok \in ActiveOf(f)
      BY <1>1, <1>5 DEF RefreshRotate, Relies, ActiveOf
    <3>2. f \notin mingled => \A u \in ActiveOf(f) : u = req[r].tok
      BY <1>1, <3>1 DEF IInv, AtMostOne
    <3>3. f \notin mingled => f \notin dead
      BY <1>1, <3>1 DEF IInv, RevokedStaysDead
    <3> QED
      BY <1>1, <2>2, <3>2, <3>3
  <2>4. Owns(q) /\ Relies(q)'
    BY <1>1, <2>1, <2>3, RefreshTokensAssumption DEF Owns, Relies
  <2> QED
    BY <1>1, <2>1, <2>4, HandlerUpdates
<1> QED
  BY <1>2, <1>3, <1>4, <1>5

LEMMA IssueKeeps ==
  ASSUME IInv, NEW r \in Requests, NEW t \in Tokens, RefreshIssue(r, t)
  PROVE  IInv'
BY FamilyKnown, InsertKeeps DEF RefreshIssue

\* Time passes for a row: nothing else of it changes.
LEMMA AgesKeeps ==
  ASSUME IInv, NEW t \in Tokens, Ages(t) PROVE IInv'
<1>1. \A u \in Tokens : tok[u] \in TokenType
  BY DEF IInv, TypeOK
<1>2. [tok[t] EXCEPT !.old = TRUE] \in TokenType
  BY <1>1 DEF TokenType
<1>3. TypeOK'
  BY <1>2 DEF Ages, IInv, TypeOK, history
<1>4. \A u \in Tokens : tok'[u].fam = tok[u].fam /\ tok'[u].status = tok[u].status
  BY <1>1 DEF Ages, IInv, TypeOK, TokenType
<1>5. UNCHANGED <<req, jar, dead, mingled>>
  BY DEF Ages, history
<1>6. \A g : FamilyOf(g)' = FamilyOf(g) /\ ActiveOf(g)' = ActiveOf(g)
  BY <1>4 DEF FamilyOf, ActiveOf
<1>7. RowsOwned'
  <2>1. \A u \in Tokens : tok[u] = NotIssued => tok'[u] = NotIssued
    <3>1. NotIssued.status = "none"
      BY DEF NotIssued
    <3> QED
      BY <3>1 DEF Ages, IInv, TypeOK
  <2> QED
    BY <2>1, <1>4 DEF IInv, RowsOwned
<1>8. ASSUME NEW r \in Requests PROVE Owns(req[r])' /\ Relies(req[r])'
  <2>1. Owns(req[r]) /\ Relies(req[r])
    BY DEF IInv, HandlersSure
  <2> QED
    BY <2>1, <1>4, <1>5, <1>6, RefreshTokensAssumption DEF Owns, Relies
<1>9. JarIssued'
  BY <1>4, <1>5 DEF IInv, JarIssued, TypeOK
<1>10. Alone' /\ DeadWereUsed' /\ AtMostOne' /\ RevokedStaysDead'
  BY <1>5, <1>6
     DEF IInv, Alone, DeadWereUsed, Unused, AtMostOne, RevokedStaysDead
<1> QED
  BY <1>3, <1>7, <1>8, <1>9, <1>10 DEF IInv, HandlersSure

\* Neither a step of the account nor a stutter touches what IInv is about.
LEMMA ElseKeeps ==
  ASSUME IInv, Deactivate \/ UNCHANGED vars PROVE IInv'
<1>1. UNCHANGED <<tok, req, jar, dead, mingled, lost, drops>>
  BY DEF Deactivate, vars, history
<1>2. \A f : FamilyOf(f)' = FamilyOf(f) /\ ActiveOf(f)' = ActiveOf(f)
  BY <1>1 DEF FamilyOf, ActiveOf
<1>3. TypeOK'
  BY <1>1 DEF Deactivate, vars, history, IInv, TypeOK
<1>4. HandlersSure'
  BY <1>1, <1>2 DEF IInv, HandlersSure, Owns, Relies
<1> QED
  BY <1>1, <1>2, <1>3, <1>4
     DEF IInv, RowsOwned, JarIssued, DeadWereUsed, Unused, Alone, AtMostOne,
         RevokedStaysDead

LEMMA NextKeeps == IInv /\ [Next]_vars => IInv'
<1> SUFFICES ASSUME IInv, [Next]_vars PROVE IInv'
  OBVIOUS
<1>1. ASSUME NEW r \in Requests, Handles(r) PROVE IInv'
  BY <1>1, ReadKeeps, WriteKeeps, IssueKeeps, EndKeeps DEF Handles
<1>2. ASSUME NEW r \in Requests, Refresh(r) \/ Logout(r) \/ LogoutStale(r) \/ Drop(r)
      PROVE  IInv'
  BY <1>2, CallKeeps, StaleKeeps, EndKeeps DEF Refresh, Logout
<1> QED
  BY <1>1, <1>2, LoginKeeps, AgesKeeps, ElseKeeps DEF Next

-----------------------------------------------------------------------------
(* What follows for the tables.                                             *)

\* What the handlers rely on holds in every reachable state.
THEOREM TokensInvariant == Spec => []IInv
BY InitInv, NextKeeps, PTL DEF Spec

\* Rotation leaves a family one usable token, whatever requests of other
\* families do meanwhile.
THEOREM OneUsableToken == Spec => []OneActive
<1>1. IInv => OneActive
  <2> SUFFICES ASSUME IInv, NEW f \in Families \ mingled
               PROVE  Cardinality(ActiveOf(f)) <= 1
    BY DEF OneActive
  <2>1. CASE ActiveOf(f) = {}
    BY <2>1, FS_EmptySet
  <2>2. CASE ActiveOf(f) # {}
    <3>1. PICK t \in ActiveOf(f) : TRUE
      BY <2>2
    <3>2. ActiveOf(f) = {t}
      BY <3>1 DEF IInv, AtMostOne
    <3>3. Cardinality({t}) = 1
      BY FS_Singleton
    <3> QED
      BY <3>2, <3>3
  <2> QED
    BY <2>1, <2>2
<1> QED
  BY <1>1, TokensInvariant, PTL

\* A family revoked by a logout or a reuse never has a usable token again.
THEOREM DeadStaysDead == Spec => []RevokedStaysDead
<1>1. IInv => RevokedStaysDead
  BY DEF IInv
<1> QED
  BY <1>1, TokensInvariant, PTL

\* A step's UPDATE finds a row that is not revoked, or revokes.
LEMMA StepKeepsRevoked ==
  ASSUME IInv, Next, NEW t \in Tokens, tok[t].status = "revoked",
         tok[t].fam \notin mingled
  PROVE  tok'[t].status = "revoked"
<1>1. tok[t].fam \in Families /\ tok[t] # NotIssued
  BY DEF IInv, RowsOwned, NotIssued
<1>2. ASSUME NEW r \in Requests, RefreshExpires(r) \/ RefreshRotate(r)
             \/ ReuseCommit(r) \/ LogoutCommit(r)
      PROVE  tok'[t].status = "revoked"
  <2>1. /\ Owns(req[r]) /\ Relies(req[r])
        /\ req[r].fam \in Families /\ req[r].tok \in FamilyOf(req[r].fam)
        /\ req[r].ids \subseteq FamilyOf(req[r].fam)
    BY <1>2, FamilyKnown, RefreshTokensAssumption
       DEF RefreshExpires, RefreshRotate, ReuseCommit, LogoutCommit, Owns
  <2>2. CASE RefreshExpires(r) \/ RefreshRotate(r)
    <3>1. PICK st \in {"expired", "rotated"} : Update({req[r].tok}, st)
      BY <2>2 DEF RefreshExpires, RefreshRotate
    <3>2. t # req[r].tok
      BY <2>1, <2>2, <1>1 DEF RefreshExpires, RefreshRotate, Relies, FamilyOf
    <3> QED
      BY <2>1, <3>1, <3>2, UpdateEffect
  <2>3. CASE ReuseCommit(r) \/ LogoutCommit(r)
    <3>1. Update(req[r].ids, "revoked")
      BY <2>3 DEF ReuseCommit, LogoutCommit
    <3> QED
      BY <2>1, <3>1, UpdateEffect
  <2> QED
    BY <1>2, <2>2, <2>3
<1>3. ASSUME NEW r \in Requests, NEW u \in Tokens, NEW f \in Families,
             Insert(r, u, f)
      PROVE  tok'[t].status = "revoked"
  BY <1>1, <1>3 DEF Insert, IInv, TypeOK
<1>4. ASSUME NEW u \in Tokens, Ages(u) PROVE tok'[t].status = "revoked"
  BY <1>4 DEF Ages, IInv, TypeOK, TokenType
<1>5. ASSUME NEW r \in Requests, Handles(r) PROVE tok'[t].status = "revoked"
  <2>1. ASSUME NEW u \in Tokens, RefreshIssue(r, u)
        PROVE  tok'[t].status = "revoked"
    BY <2>1, <1>3, FamilyKnown DEF RefreshIssue
  <2>2. CASE RefreshRead(r) \/ RefreshUser(r) \/ ReuseRead(r) \/ LogoutRead(r)
             \/ Answer(r) \/ Bye(r)
    BY <2>2 DEF RefreshRead, RefreshUser, ReuseRead, LogoutRead, Answer, Bye
  <2> QED
    BY <1>5, <2>1, <2>2, <1>2 DEF Handles
<1>6. ASSUME NEW r \in Requests,
             Refresh(r) \/ Logout(r) \/ LogoutStale(r) \/ Drop(r)
      PROVE  tok'[t].status = "revoked"
  BY <1>6 DEF Refresh, Logout, Calls, LogoutStale, Drop
<1>7. CASE Deactivate
  BY <1>7 DEF Deactivate
<1>8. ASSUME NEW r \in Requests, NEW u \in Tokens, NEW f \in Families,
             Login(r, u, f)
      PROVE  tok'[t].status = "revoked"
  BY <1>8, <1>3 DEF Login
<1> QED
  BY <1>4, <1>5, <1>6, <1>7, <1>8 DEF Next

\* No handler brings a revoked token back, unless another read the row before.
THEOREM RevokedForGood == Spec => RevokedIsFinal
<1>1. IInv /\ [Next]_vars =>
        [\A t \in Tokens : tok[t].status = "revoked" /\ tok[t].fam \notin mingled
                             => tok'[t].status = "revoked"]_vars
  BY StepKeepsRevoked
<1> QED
  BY <1>1, TokensInvariant, PTL DEF Spec, RevokedIsFinal

-----------------------------------------------------------------------------
(* The browser's cookie.                                                    *)

\* Browser, read at one request.
Sure(q) ==
  /\ q.at = "called" /\ q.fam \notin mingled \cup lost =>
       tok[q.tok].status # "rotated"
  /\ q.at = "reuse" => q.fam \in mingled \cup lost

LEMMA BrowserIs ==
  Browser <=> /\ \A r \in Requests : Sure(req[r])
              /\ jar # NoToken /\ tok[jar].status = "rotated" =>
                   \/ tok[jar].fam \in mingled \cup lost
                   \/ \E r \in Requests : req[r].fam = tok[jar].fam
                                          /\ req[r].at \in {"issuing", "answer"}
BY DEF Browser, Sure, ReuseIsNoAccident

\* One request goes on, no row becomes rotated: what is left to show.
LEMMA OneGoesOn ==
  ASSUME IInv, Browser, NEW r \in Requests, NEW q, req' = [req EXCEPT ![r] = q],
         \A t \in Tokens : /\ tok[t].status # "none" => tok'[t].fam = tok[t].fam
                           /\ tok'[t].status = "rotated" => tok[t].status = "rotated",
         mingled \subseteq mingled', lost \subseteq lost',
         Sure(q)',
         req[r].at \in {"issuing", "answer"} =>
           \/ req[r].fam \in mingled' \cup lost'
           \/ q.at \in {"issuing", "answer"} /\ q.fam = req[r].fam
           \/ jar' # jar,
         \/ jar' \in {jar, NoToken}
         \/ jar' \in Tokens /\ (tok'[jar'].fam \in mingled' \/ tok'[jar'].status # "rotated")
  PROVE  Browser'
<1>1. \A s \in Requests : req'[s] = IF s = r THEN q ELSE req[s]
  BY DEF IInv, TypeOK
<1>2. ASSUME NEW s \in Requests PROVE Sure(req[s])'
  <2>1. CASE s = r
    BY <2>1, <1>1 DEF Sure
  <2>2. CASE s # r
    <3>1. req'[s] = req[s] /\ Sure(req[s]) /\ Owns(req[s])
      BY <2>2, <1>1, BrowserIs DEF IInv, HandlersSure
    <3>2. req[s].at = "called" => req[s].tok \in Tokens
      BY <3>1 DEF Owns
    <3> QED
      BY <3>1, <3>2 DEF Sure
  <2> QED
    BY <2>1, <2>2
<1>3. ASSUME jar' # NoToken, tok'[jar'].status = "rotated"
      PROVE  \/ tok'[jar'].fam \in mingled' \cup lost'
             \/ \E s \in Requests : req'[s].fam = tok'[jar'].fam
                                    /\ req'[s].at \in {"issuing", "answer"}
  <2>1. CASE jar' = jar
    <3>1. jar \in Tokens /\ tok[jar].status = "rotated" /\ tok'[jar].fam = tok[jar].fam
      BY <1>3, <2>1 DEF IInv, TypeOK
    <3>2. \/ tok[jar].fam \in mingled \cup lost
          \/ \E s \in Requests : req[s].fam = tok[jar].fam
                                 /\ req[s].at \in {"issuing", "answer"}
      BY <1>3, <2>1, <3>1, BrowserIs
    <3> QED
      BY <3>1, <3>2, <2>1, <1>1
  <2>2. CASE jar' # jar
    BY <1>3, <2>2
  <2> QED
    BY <2>1, <2>2
<1> QED
  BY <1>2, <1>3, BrowserIs DEF Browser, Sure, ReuseIsNoAccident

LEMMA BrowserCalls ==
  ASSUME IInv, Browser, NEW r \in Requests, NEW at \in {"called", "leaving"},
         Calls(r, at)
  PROVE  Browser'
<1>1. PICK q : q = [at |-> at, tok |-> jar, fam |-> tok[jar].fam, ids |-> {}]
  OBVIOUS
<1>2. req' = [req EXCEPT ![r] = q] /\ UNCHANGED <<tok, jar, lost>>
      /\ mingled \subseteq mingled' /\ jar # NoToken /\ req[r].at = "idle"
  BY <1>1 DEF Calls
<1>3. q.fam \notin mingled' => \A s \in Requests : req[s].fam # q.fam
  BY <1>1, <1>2 DEF Calls, InFlight
<1>4. Sure(q)'
  BY <1>1, <1>2, <1>3, BrowserIs DEF Sure
<1> QED
  BY <1>2, <1>4, OneGoesOn

LEMMA BrowserReads ==
  ASSUME IInv, Browser, NEW r \in Requests,
         \/ RefreshRead(r) \/ RefreshUser(r) \/ ReuseRead(r) \/ LogoutRead(r)
         \/ LogoutStale(r)
  PROVE  Browser'
<1>1. UNCHANGED <<tok, jar, mingled, lost>>
      /\ req[r].at \in {"called", "checked", "reuse", "leaving", "idle"}
  BY DEF RefreshRead, RefreshUser, ReuseRead, LogoutRead, LogoutStale, history
<1>2. req[r] \in RequestType
  BY DEF IInv, TypeOK
<1>3. PICK q : req' = [req EXCEPT ![r] = q] /\ Sure(q)'
  <2>1. CASE Fails(r)
    <3>1. req' = [req EXCEPT ![r] = NoRequest] /\ Sure(NoRequest)'
      BY <2>1 DEF Fails, Sure, NoRequest
    <3> QED
      BY <3>1
  <2>2. ASSUME NEW at, at \notin {"called", "reuse"}, req' = [req EXCEPT ![r].at = at]
        PROVE  \E q : req' = [req EXCEPT ![r] = q] /\ Sure(q)'
    <3>1. PICK q : q = [req[r] EXCEPT !.at = at]
      OBVIOUS
    <3>2. req' = [req EXCEPT ![r] = q] /\ q.at = at
      BY <1>2, <2>2, <3>1 DEF RequestType
    <3>3. Sure(q)'
      BY <2>2, <3>2 DEF Sure
    <3> QED
      BY <3>2, <3>3
  <2>3. CASE RefreshRead(r) /\ ~Fails(r)
    <3>1. PICK v : v = Verdict(tok[req[r].tok])
      OBVIOUS
    <3>2. /\ req' = [req EXCEPT ![r].at = v] /\ v # "called"
          /\ v = "reuse" => tok[req[r].tok].status = "rotated"
      BY <2>3, <3>1 DEF RefreshRead, Verdict, Goes
    <3>3. CASE v = "reuse"
      <4>1. PICK q : q = [req[r] EXCEPT !.at = v]
        OBVIOUS
      <4>2. q.fam = req[r].fam /\ q.at = "reuse" /\ req' = [req EXCEPT ![r] = q]
        BY <1>2, <3>2, <3>3, <4>1 DEF RequestType
      <4>3. req[r].fam \in mingled \cup lost
        BY <2>3, <3>2, <3>3, BrowserIs DEF RefreshRead, Sure
      <4> QED
        BY <1>1, <4>2, <4>3 DEF Sure
    <3> QED
      BY <3>2, <3>3, <2>2
  <2>4. CASE (RefreshUser(r) \/ LogoutStale(r)) /\ ~Fails(r)
    BY <2>4, <2>2 DEF RefreshUser, LogoutStale, Goes
  <2>5. ASSUME NEW at, at \notin {"called", "reuse"}, NEW S,
               req' = [req EXCEPT ![r].at = at, ![r].ids = S]
        PROVE  \E q : req' = [req EXCEPT ![r] = q] /\ Sure(q)'
    <3>1. PICK q : q = [req[r] EXCEPT !.at = at, !.ids = S]
      OBVIOUS
    <3>2. req' = [req EXCEPT ![r] = q] /\ q.at = at
      BY <1>2, <2>5, <3>1 DEF RequestType
    <3>3. Sure(q)'
      BY <2>5, <3>2 DEF Sure
    <3> QED
      BY <3>2, <3>3
  <2>6. CASE ReuseRead(r) \/ LogoutRead(r)
    BY <2>6, <2>5 DEF ReuseRead, LogoutRead
  <2> QED
    BY <2>1, <2>3, <2>4, <2>6
<1> QED
  BY <1>1, <1>3, OneGoesOn

\* A lost answer is remembered; an answer that arrives brings the new token.
LEMMA BrowserEnds ==
  ASSUME Attaches, IInv, Browser, NEW r \in Requests,
         Answer(r) \/ Bye(r) \/ Drop(r)
  PROVE  Browser'
<1>1. req' = [req EXCEPT ![r] = NoRequest] /\ UNCHANGED <<tok, mingled>>
      /\ lost \subseteq lost'
  BY DEF Answer, Bye, Drop, Fails, history
<1>2. Sure(NoRequest)'
  BY DEF Sure, NoRequest
<1>3. CASE Drop(r)
  <2>1. jar' = jar
    BY <1>3 DEF Drop
  <2>2. req[r].at \in {"issuing", "answer"} => req[r].fam \in lost'
    BY <1>3 DEF Drop
  <2> QED
    BY <1>1, <1>2, <2>1, <2>2, OneGoesOn
<1>4. CASE Bye(r)
  BY <1>1, <1>2, <1>4, OneGoesOn DEF Bye
<1>5. CASE Answer(r)
  <2>1. /\ jar' = req[r].tok /\ jar' \in Tokens /\ tok[req[r].tok].fam = req[r].fam
        /\ req[r].fam \in mingled \/ tok[req[r].tok].status = "active"
    BY <1>5, FamilyKnown, RefreshTokensAssumption DEF Answer, Relies, Owns
  <2>2. tok'[jar'].fam \in mingled' \/ tok'[jar'].status # "rotated"
    BY <1>1, <2>1
  <2>3. CASE jar' = jar
    <3>1. \A s \in Requests : Sure(req[s])'
      BY <1>1, <1>2, <1>5, BrowserIs DEF Sure, IInv, TypeOK, Answer, history
    <3> QED
      BY <2>2, <3>1 DEF Browser, Sure, ReuseIsNoAccident
  <2>4. CASE jar' # jar
    BY <1>1, <1>2, <2>1, <2>2, <2>4, OneGoesOn
  <2> QED
    BY <2>3, <2>4
<1> QED
  BY <1>3, <1>4, <1>5

LEMMA BrowserWrites ==
  ASSUME IInv, Browser, NEW r \in Requests,
         RefreshExpires(r) \/ ReuseCommit(r) \/ LogoutCommit(r)
  PROVE  Browser'
<1>1. /\ req[r] \in RequestType /\ Owns(req[r])
      /\ req[r].fam \in Families /\ {req[r].tok} \subseteq FamilyOf(req[r].fam)
      /\ req[r].ids \subseteq FamilyOf(req[r].fam)
  BY FamilyKnown, RefreshTokensAssumption
     DEF RefreshExpires, ReuseCommit, LogoutCommit, Owns
<1>2. PICK st \in {"expired", "revoked"}, S \in SUBSET FamilyOf(req[r].fam) :
        Update(S, st)
  BY <1>1 DEF RefreshExpires, ReuseCommit, LogoutCommit
<1>3. \A t \in Tokens : /\ tok'[t].fam = tok[t].fam
                        /\ tok'[t].status = "rotated" => tok[t].status = "rotated"
  BY <1>1, <1>2, UpdateEffect
<1>4. PICK q : req' = [req EXCEPT ![r] = q] /\ q.at \in {"idle", "bye"}
  <2>1. CASE LogoutCommit(r)
    <3>1. PICK q : q = [req[r] EXCEPT !.at = "bye"]
      OBVIOUS
    <3>2. req' = [req EXCEPT ![r] = q] /\ q.at = "bye"
      BY <1>1, <2>1, <3>1 DEF LogoutCommit, Goes, RequestType
    <3> QED
      BY <3>2
  <2>2. CASE RefreshExpires(r) \/ ReuseCommit(r)
    <3>1. req' = [req EXCEPT ![r] = NoRequest] /\ NoRequest.at = "idle"
      BY <2>2 DEF RefreshExpires, ReuseCommit, Fails, NoRequest
    <3> QED
      BY <3>1
  <2> QED
    BY <2>1, <2>2
<1>5. Sure(q)'
  BY <1>4 DEF Sure
<1>6. UNCHANGED <<jar, mingled, lost>> /\ req[r].at \notin {"issuing", "answer"}
  BY DEF RefreshExpires, ReuseCommit, LogoutCommit, history
<1> QED
  BY <1>3, <1>4, <1>5, <1>6, OneGoesOn

\* The rotated token is the browser's perhaps, and its answer on the way.
LEMMA BrowserRotates ==
  ASSUME IInv, Browser, NEW r \in Requests, RefreshRotate(r)
  PROVE  Browser'
<1>1. /\ req[r] \in RequestType /\ Owns(req[r])
      /\ req[r].fam \in Families /\ {req[r].tok} \subseteq FamilyOf(req[r].fam)
  BY FamilyKnown DEF RefreshRotate
<1>2. \A t \in Tokens : /\ tok'[t].fam = tok[t].fam
                        /\ tok'[t].status = IF t = req[r].tok THEN "rotated"
                                            ELSE tok[t].status
  BY <1>1, UpdateEffect DEF RefreshRotate
<1>3. /\ \A s \in Requests \ {r} : req'[s] = req[s]
      /\ req'[r].at = "issuing" /\ req'[r].fam = req[r].fam
      /\ UNCHANGED <<jar, mingled, lost>> /\ req[r].at = "rotating"
  BY <1>1 DEF RefreshRotate, Goes, history, IInv, TypeOK, RequestType
<1>4. ASSUME NEW s \in Requests PROVE Sure(req[s])'
  <2>1. CASE s = r
    BY <2>1, <1>3 DEF Sure
  <2>2. CASE s # r
    <3>1. req'[s] = req[s] /\ Sure(req[s]) /\ Owns(req[s])
      BY <2>2, <1>3, BrowserIs DEF IInv, HandlersSure
    <3>2. ASSUME req[s].at = "called", req[s].fam \notin mingled
          PROVE  req[s].tok \in Tokens /\ req[s].tok # req[r].tok
      BY <1>1, <2>2, <3>1, <3>2 DEF IInv, Alone, Owns, FamilyOf
    <3> QED
      BY <3>1, <3>2, <1>2, <1>3 DEF Sure
  <2> QED
    BY <2>1, <2>2
<1>5. ASSUME jar' # NoToken, tok'[jar'].status = "rotated"
      PROVE  \/ tok'[jar'].fam \in mingled' \cup lost'
             \/ \E s \in Requests : req'[s].fam = tok'[jar'].fam
                                    /\ req'[s].at \in {"issuing", "answer"}
  <2>1. jar \in Tokens /\ jar' = jar /\ tok'[jar].fam = tok[jar].fam
    BY <1>2, <1>3, <1>5 DEF IInv, TypeOK
  <2>2. CASE jar = req[r].tok
    BY <2>1, <2>2, <1>1, <1>3 DEF FamilyOf
  <2>3. CASE jar # req[r].tok
    <3>1. tok[jar].status = "rotated"
      BY <2>1, <2>3, <1>2, <1>5
    <3>2. \/ tok[jar].fam \in mingled \cup lost
          \/ \E s \in Requests : req[s].fam = tok[jar].fam
                                 /\ req[s].at \in {"issuing", "answer"}
      BY <2>1, <3>1, <1>5, BrowserIs
    <3> QED
      BY <3>2, <2>1, <1>3
  <2> QED
    BY <2>2, <2>3
<1> QED
  BY <1>4, <1>5 DEF Browser, Sure, ReuseIsNoAccident

LEMMA BrowserInserts ==
  ASSUME IInv, Browser, NEW r \in Requests, NEW t \in Tokens, NEW f \in Families,
         Insert(r, t, f), req[r].at = "issuing" => req[r].fam = f,
         req[r].at \in {"idle", "issuing"},
         UNCHANGED <<enabled, jar, history, drops>>
  PROVE  Browser'
<1>1. PICK q : q = [at |-> "answer", tok |-> t, fam |-> f, ids |-> {}]
  OBVIOUS
<1>2. req' = [req EXCEPT ![r] = q] /\ q.at = "answer" /\ q.fam = f
  BY <1>1 DEF Insert
<1>3. \A u \in Tokens : /\ tok[u].status # "none" => tok'[u].fam = tok[u].fam
                        /\ tok'[u].status = "rotated" => tok[u].status = "rotated"
  <2>1. NotIssued.status = "none"
    BY DEF NotIssued
  <2> QED
    BY <2>1 DEF Insert, IInv, TypeOK
<1>4. Sure(q)'
  BY <1>2 DEF Sure
<1> QED
  BY <1>2, <1>3, <1>4, OneGoesOn DEF history

LEMMA BrowserElse ==
  ASSUME IInv, Browser,
         Deactivate \/ UNCHANGED vars \/ \E t \in Tokens : Ages(t)
  PROVE  Browser'
<1>1. UNCHANGED <<req, jar, mingled, lost>>
  BY DEF Deactivate, Ages, vars, history
<1>2. \A u \in Tokens : tok'[u].fam = tok[u].fam /\ tok'[u].status = tok[u].status
  <2>1. \A u \in Tokens : tok[u] \in TokenType
    BY DEF IInv, TypeOK
  <2> QED
    BY <2>1 DEF Deactivate, Ages, vars, IInv, TypeOK, TokenType
<1>3. \A s \in Requests : req[s].at = "called" => req[s].tok \in Tokens
  BY FamilyKnown
<1>4. jar # NoToken => jar \in Tokens
  BY DEF IInv, TypeOK
<1> QED
  BY <1>1, <1>2, <1>3, <1>4 DEF Browser, ReuseIsNoAccident

LEMMA BrowserKeeps ==
  ASSUME Attaches, IInv, Browser, [Next]_vars PROVE Browser'
<1>1. ASSUME NEW r \in Requests, Handles(r) PROVE Browser'
  <2>1. ASSUME NEW t \in Tokens, RefreshIssue(r, t) PROVE Browser'
    BY <2>1, FamilyKnown, BrowserInserts DEF RefreshIssue
  <2> QED
    BY <1>1, <2>1, BrowserReads, BrowserWrites, BrowserRotates, BrowserEnds
       DEF Handles
<1>2. ASSUME NEW r \in Requests, Refresh(r) \/ Logout(r) \/ LogoutStale(r) \/ Drop(r)
      PROVE  Browser'
  BY <1>2, BrowserCalls, BrowserReads, BrowserEnds DEF Refresh, Logout
<1>3. ASSUME NEW r \in Requests, NEW t \in Tokens, NEW f \in Families,
             Login(r, t, f)
      PROVE  Browser'
  BY <1>3, BrowserInserts DEF Login
<1> QED
  BY <1>1, <1>2, <1>3, BrowserElse DEF Next

\* With a cookie that follows every rotation, the theft response is never
\* taken against a browser that sends one request at a time and gets its answers.
THEOREM ReuseHasACause ==
  ASSUME Attaches PROVE Spec => []ReuseIsNoAccident
<1>1. Init => Browser
  BY DEF Init, Browser, ReuseIsNoAccident, NoRequest
<1>2. IInv /\ Browser /\ [Next]_vars => Browser'
  BY BrowserKeeps
<1>3. Browser => ReuseIsNoAccident
  BY DEF Browser
<1> QED
  BY <1>1, <1>2, <1>3, TokensInvariant, PTL DEF Spec
=============================================================================
