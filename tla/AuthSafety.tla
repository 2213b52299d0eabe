----------------------------- MODULE AuthSafety -----------------------------
(***************************************************************************)
(* LogoutIsFinal, SecondUseOverlaps and SpentServes for any number of      *)
(* tokens, sessions and requests, OneUserPerIdentity for any number of     *)
(* users, identities and flows.  None is inductive.  Accounts: a session   *)
(* logged out must be past reviving by what is in flight, and a link's row *)
(* must tell of every request that still works on it.  Sign-ups: what a    *)
(* flow has seen, or not seen, is still so, because rows are added by Link *)
(* only and never taken away.                                              *)
(***************************************************************************)
EXTENDS Auth, FiniteSetTheorems, TLAPS

Session(r) == request[r].session
Token(r) == request[r].token
OnSession(r) == request[r].at \in {"auth", "expired", "read", "authed", "admitted", "leaving"}
OnLink(r) == request[r].at \in {"generated", "clicked", "valid", "spent", "linked"}

\* The row a login inserts is nobody else's yet.
LoginsAreAlone ==
    \A r \in Requests : request[r].at = "login" =>
        /\ Session(r) \in Sessions /\ session[Session(r)].status = "absent"
        /\ \A q \in Requests \ {r} : Session(q) # Session(r)

\* Everything else is about rows that were inserted.
RowsExist ==
    /\ \A r \in Requests : OnSession(r) =>
            Session(r) \in Sessions /\ session[Session(r)].status # "absent"
    /\ \A s \in doomed \cup dead : session[s].status # "absent"

\* A session whose logout was answered is not active, or its cookie has aged.
DeadIsUseless == \A s \in dead : session[s].status # "active" \/ ~Unsigns(s)

\* A request that came after gets no further than reading the row.
LateIsRefused ==
    \A r \in Requests : request[r].late =>
        /\ request[r].at = "auth" /\ Session(r) \in Sessions
        /\ session[Session(r)].status \notin {"absent", "active"}

\* A row that is not inserted yet has one asker, no link and no takers.
AskersAreAlone ==
    /\ \A r \in Requests : request[r].at = "asked" =>
            /\ Token(r) \in Tokens /\ token[Token(r)].kind = "none" /\ request[r].kind \in Kinds
            /\ \A q \in Requests \ {r} : Token(q) # Token(r)
    /\ \A t \in Tokens : token[t].kind = "none" => t \notin links /\ takes[t] = 0

\* What a request knows of its link's kind is what the row says.
KindsAgree ==
    \A r \in Requests : OnLink(r) =>
        Token(r) \in Tokens /\ request[r].kind = token[Token(r)].kind /\ request[r].kind \in Kinds

\* A link that no two requests held at once is held by one, then stamped.
Holds(r, t) == Token(r) = t /\ request[r].at = "valid"
OneTaker ==
    \A t \in Tokens \ crossed :
        /\ \A q, r \in Requests : Holds(q, t) /\ Holds(r, t) => q = r
        /\ takes[t] # 0 => takes[t] = 1 /\ token[t].used /\ \A r \in Requests : ~Holds(r, t)

AccountsInv ==
    /\ AccountsTypeOK
    /\ LoginsAreAlone /\ RowsExist /\ DeadIsUseless /\ LateIsRefused
    /\ AskersAreAlone /\ KindsAgree /\ OneTaker /\ SpentServes

-----------------------------------------------------------------------------
(* The initial states, and one lemma per action.                            *)

TokenRow == [kind : Kinds \cup {"none"}, expires : Nat, used : BOOLEAN]

LEMMA CountUp ==
    ASSUME NEW S, NEW f \in [S -> Nat], NEW x \in S
    PROVE  [f EXCEPT ![x] = @ + 1] \in [S -> Nat]
OBVIOUS

LEMMA ConstantsAreNat == LinkTTL \in Nat /\ TTL \in Nat /\ Grace \in Nat
BY AccountsAssumption

LEMMA NoneIsNoKind == "none" \notin Kinds
BY DEF Kinds, Sound, Unawaited

LEMMA NoRequestIsRequest == NoRequest \in RequestType
BY DEF NoRequest, RequestType, Stages

\* What a step of r leaves of the requests, as far as the invariant asks.
Others(r) == \A q \in Requests \ {r} : request'[q] = request[q]
SameLink(r) == request'[r].kind = request[r].kind /\ request'[r].token = request[r].token
SameRest(r) == request'[r].session = request[r].session /\ request'[r].late = request[r].late
Moved(r, stage) == Others(r) /\ request'[r].at = stage /\ SameLink(r) /\ SameRest(r)
Stopped(r) == Others(r) /\ request'[r].at = "idle" /\ ~request'[r].late
              /\ request'[r].token \notin Tokens /\ request'[r].session \notin Sessions
Passed == \A r \in Requests : request'[r].at = request[r].at /\ SameLink(r) /\ SameRest(r)

LEMMA GoingOn ==
    ASSUME AccountsTypeOK, NEW r \in Requests, NEW stage, Goes(r, stage)
    PROVE  Moved(r, stage) /\ (stage \in Stages => request' \in [Requests -> RequestType])
<1>1. request \in [Requests -> RequestType]
  BY DEF AccountsTypeOK
<1>2. stage \in Stages => [request[r] EXCEPT !.at = stage] \in RequestType
  BY <1>1 DEF RequestType
<1>3. request' = [request EXCEPT ![r] = [request[r] EXCEPT !.at = stage]]
  BY <1>1 DEF Goes
<1>4. /\ [request[r] EXCEPT !.at = stage].at = stage
      /\ [request[r] EXCEPT !.at = stage].kind = request[r].kind
      /\ [request[r] EXCEPT !.at = stage].token = request[r].token
      /\ [request[r] EXCEPT !.at = stage].session = request[r].session
      /\ [request[r] EXCEPT !.at = stage].late = request[r].late
  BY <1>1 DEF RequestType
<1> QED BY <1>1, <1>2, <1>3, <1>4 DEF Moved, Others, SameLink, SameRest

LEMMA Stopping ==
    ASSUME AccountsTypeOK, NEW r \in Requests, Ends(r)
    PROVE  Stopped(r) /\ request' \in [Requests -> RequestType]
BY NoRequestIsRequest, AccountsAssumption DEF AccountsTypeOK, Ends, NoRequest, Stopped, Others

LEMMA Ticking ==
    ASSUME AccountsTypeOK, Tick
    PROVE  Passed /\ request' \in [Requests -> RequestType]
<1>1. request \in [Requests -> RequestType]
  BY DEF AccountsTypeOK
<1>2. ASSUME NEW q \in Requests, NEW b \in BOOLEAN
      PROVE  /\ [request[q] EXCEPT !.old = b] \in RequestType
             /\ [request[q] EXCEPT !.old = b].at = request[q].at
             /\ [request[q] EXCEPT !.old = b].kind = request[q].kind
             /\ [request[q] EXCEPT !.old = b].token = request[q].token
             /\ [request[q] EXCEPT !.old = b].session = request[q].session
             /\ [request[q] EXCEPT !.old = b].late = request[q].late
  BY <1>1 DEF RequestType
<1>3. request' = [q \in Requests |-> [request[q] EXCEPT !.old = ~At(q, "idle")]]
  BY DEF Tick
<1>4. \A q \in Requests : (~At(q, "idle")) \in BOOLEAN
  BY DEF At
<1> QED BY <1>2, <1>3, <1>4 DEF Passed, SameLink, SameRest

LEMMA AccountsInitially == AccountsInit => AccountsInv
<1> SUFFICES ASSUME AccountsInit PROVE AccountsInv
  OBVIOUS
<1>1. AccountsTypeOK
  BY NoRequestIsRequest DEF AccountsInit, AccountsTypeOK
<1>2. LoginsAreAlone /\ RowsExist /\ DeadIsUseless /\ LateIsRefused
  BY DEF AccountsInit, LoginsAreAlone, RowsExist, DeadIsUseless, LateIsRefused, OnSession, NoRequest
<1>3. AskersAreAlone /\ KindsAgree
  BY DEF AccountsInit, AskersAreAlone, KindsAgree, OnLink, NoRequest
<1>4. OneTaker /\ SpentServes
  BY DEF AccountsInit, OneTaker, SpentServes, Holds, Token, NoRequest
<1> QED BY <1>1, <1>2, <1>3, <1>4 DEF AccountsInv

LEMMA AccountsStutter == AccountsInv /\ UNCHANGED accounts => AccountsInv'
BY DEF accounts, links_vars, session_vars, AccountsInv, AccountsTypeOK, LoginsAreAlone, RowsExist,
       DeadIsUseless, LateIsRefused, AskersAreAlone, KindsAgree, OneTaker, SpentServes,
       OnSession, OnLink, Session, Token, Unsigns, Holds

LEMMA AskKeepsAccounts ==
    ASSUME NEW r \in Requests, NEW k \in Kinds, NEW t \in Tokens, AccountsInv, Ask(r, k, t)
    PROVE  AccountsInv'
<1> USE DEF AccountsInv, links_vars, session_vars,
           Ask, At, Unclaimed
<1>1. AccountsTypeOK'
  BY NoRequestIsRequest DEF AccountsTypeOK, RequestType, Stages
<1>2. LoginsAreAlone'
  BY AccountsAssumption, NoneIsNoKind DEF LoginsAreAlone, Session, NoRequest
<1>3. RowsExist'
  BY DEF RowsExist, Session, OnSession, NoRequest
<1>4. DeadIsUseless'
  BY DEF DeadIsUseless, Unsigns, NoRequest
<1>5. LateIsRefused'
  BY DEF LateIsRefused, Session, NoRequest
<1>6. AskersAreAlone'
  BY DEF AskersAreAlone, Token, NoRequest
<1>7. KindsAgree'
  BY DEF KindsAgree, Token, OnLink, NoRequest
<1>8. OneTaker'
  BY DEF OneTaker, Holds, Token, NoRequest
<1>9. SpentServes'
  BY DEF SpentServes, Sound, NoRequest
<1> QED BY <1>1, <1>2, <1>3, <1>4, <1>5, <1>6, <1>7, <1>8, <1>9

LEMMA GenerateKeepsAccounts ==
    ASSUME NEW r \in Requests, AccountsInv, Generate(r)
    PROVE  AccountsInv'
<1> USE DEF AccountsInv, links_vars, session_vars,
           Generate, At, LinkExpiry
<1>1. Goes(r, "generated") => Moved(r, "generated") /\ request' \in [Requests -> RequestType]
  BY GoingOn DEF AccountsInv, Stages
<1>2. AccountsTypeOK'
  BY ConstantsAreNat, <1>1 DEF AccountsTypeOK, AskersAreAlone, Token
<1>3. LoginsAreAlone'
  BY <1>1 DEF LoginsAreAlone, Session, Moved, Others, SameLink, SameRest
<1>4. RowsExist'
  BY <1>1 DEF RowsExist, Session, OnSession, Moved, Others, SameLink, SameRest
<1>5. DeadIsUseless'
  BY <1>1 DEF DeadIsUseless, Unsigns, Moved, Others, SameLink, SameRest
<1>6. LateIsRefused'
  BY <1>1 DEF LateIsRefused, Session, Moved, Others, SameLink, SameRest
<1>7. AskersAreAlone'
  BY <1>1 DEF AskersAreAlone, Token, Moved, Others, SameLink, SameRest
<1>8. KindsAgree'
  <2>1. /\ Token(r) \in Tokens /\ request[r].kind \in Kinds
        /\ token'[Token(r)].kind = request[r].kind
        /\ \A t \in Tokens \ {Token(r)} : token'[t] = token[t]
        /\ \A q \in Requests \ {r} : Token(q) # Token(r)
    BY DEF AskersAreAlone, Token, AccountsTypeOK
  <2> QED BY <1>1, <2>1 DEF KindsAgree, OnLink, Token, Moved, Others, SameLink, SameRest
<1>9. OneTaker'
  <2>1. /\ Token(r) \in Tokens /\ takes[Token(r)] = 0
        /\ \A t \in Tokens \ {Token(r)} : token'[t] = token[t]
    BY DEF AskersAreAlone, Token, AccountsTypeOK
  <2>2. \A q \in Requests, t \in Tokens : Holds(q, t)' => Holds(q, t)
    BY <1>1 DEF Holds, Token, Moved, Others, SameLink, SameRest
  <2>3. OneTaker /\ UNCHANGED <<takes, crossed>>
    OBVIOUS
  <2> HIDE DEF Generate, AccountsInv
  <2> QED BY <2>1, <2>2, <2>3 DEF OneTaker
<1>10. SpentServes'
  BY <1>1 DEF SpentServes, Sound, Moved, Others, SameLink, SameRest
<1> QED BY <1>2, <1>3, <1>4, <1>5, <1>6, <1>7, <1>8, <1>9, <1>10

LEMMA MailKeepsAccounts ==
    ASSUME NEW r \in Requests, AccountsInv, Mail(r)
    PROVE  AccountsInv'
<1> USE DEF AccountsInv, links_vars, session_vars,
           Mail, At
<1>1. Ends(r) => Stopped(r) /\ request' \in [Requests -> RequestType]
  BY Stopping DEF AccountsInv
<1>2. AccountsTypeOK'
  BY <1>1 DEF AccountsTypeOK, KindsAgree, OnLink, Token
<1>3. LoginsAreAlone'
  BY <1>1 DEF LoginsAreAlone, Session, Stopped, Others
<1>4. RowsExist'
  BY <1>1 DEF RowsExist, Session, OnSession, Stopped, Others
<1>5. DeadIsUseless'
  BY <1>1 DEF DeadIsUseless, Unsigns, Stopped, Others
<1>6. LateIsRefused'
  BY <1>1 DEF LateIsRefused, Session, Stopped, Others
<1>7. AskersAreAlone'
  <2>1. token[Token(r)].kind # "none"
    BY NoneIsNoKind DEF KindsAgree, OnLink, Token
  <2> QED BY <1>1, <2>1 DEF AskersAreAlone, Token, Stopped, Others
<1>8. KindsAgree'
  BY <1>1 DEF KindsAgree, Token, OnLink, Stopped, Others
<1>9. OneTaker'
  BY <1>1 DEF OneTaker, Holds, Token, Stopped, Others
<1>10. SpentServes'
  BY <1>1 DEF SpentServes, Sound, Stopped, Others
<1> QED BY <1>2, <1>3, <1>4, <1>5, <1>6, <1>7, <1>8, <1>9, <1>10

LEMMA ClickKeepsAccounts ==
    ASSUME NEW r \in Requests, NEW t \in Tokens, AccountsInv, Click(r, t)
    PROVE  AccountsInv'
<1> USE DEF AccountsInv, links_vars, session_vars,
           Click, At
<1>1. AccountsTypeOK'
  BY NoRequestIsRequest DEF AccountsTypeOK, RequestType, Stages
<1>2. LoginsAreAlone'
  BY AccountsAssumption DEF LoginsAreAlone, Session, NoRequest
<1>3. RowsExist'
  BY DEF RowsExist, Session, OnSession, NoRequest
<1>4. DeadIsUseless'
  BY DEF DeadIsUseless, Unsigns, NoRequest
<1>5. LateIsRefused'
  BY DEF LateIsRefused, Session, NoRequest
<1>6. AskersAreAlone'
  BY DEF AskersAreAlone, Token, NoRequest
<1>7. KindsAgree'
  <2>1. token[t].kind \in Kinds
    BY DEF AskersAreAlone, AccountsTypeOK
  <2>2. /\ request'[r].at = "clicked" /\ request'[r].kind = token[t].kind /\ request'[r].token = t
        /\ \A q \in Requests \ {r} : request'[q] = request[q]
    BY DEF AccountsTypeOK, NoRequest
  <2> QED BY <2>1, <2>2 DEF KindsAgree, OnLink, Token
<1>8. OneTaker'
  BY DEF OneTaker, Holds, Token, NoRequest
<1>9. SpentServes'
  BY DEF SpentServes, Sound, NoRequest
<1> QED BY <1>1, <1>2, <1>3, <1>4, <1>5, <1>6, <1>7, <1>8, <1>9

LEMMA ConsumeReadKeepsAccounts ==
    ASSUME NEW r \in Requests, AccountsInv, ConsumeRead(r)
    PROVE  AccountsInv'
<1> USE DEF AccountsInv, links_vars, session_vars,
           ConsumeRead, At, Acceptable
<1>1. /\ Goes(r, "valid") => Moved(r, "valid") /\ request' \in [Requests -> RequestType]
      /\ Ends(r) => Stopped(r) /\ request' \in [Requests -> RequestType]
  BY GoingOn, Stopping DEF AccountsInv, Stages
<1>2. AccountsTypeOK'
  BY <1>1 DEF AccountsTypeOK, KindsAgree, OnLink, Token
<1>3. LoginsAreAlone'
  BY <1>1 DEF LoginsAreAlone, Session, Moved, Others, SameLink, SameRest, Stopped
<1>4. RowsExist'
  BY <1>1 DEF RowsExist, Session, OnSession, Moved, Others, SameLink, SameRest, Stopped
<1>5. DeadIsUseless'
  BY <1>1 DEF DeadIsUseless, Unsigns, Moved, Others, SameLink, SameRest, Stopped
<1>6. LateIsRefused'
  BY <1>1 DEF LateIsRefused, Session, Moved, Others, SameLink, SameRest, Stopped
<1>7. AskersAreAlone'
  BY <1>1 DEF AskersAreAlone, Token, Moved, Others, SameLink, SameRest, Stopped
<1>8. KindsAgree'
  BY <1>1 DEF KindsAgree, Token, OnLink, Moved, Others, SameLink, SameRest, Stopped
<1>9. OneTaker'
  <2> DEFINE t == Token(r)
  <2>1. \A q \in Requests \ {r} : request'[q] = request[q]
    BY <1>1 DEF Moved, Others, SameLink, SameRest, Stopped
  <2>2. CASE Acceptable(t) /\ t \notin crossed'
    <3>1. \A q \in Requests : ~Holds(q, t)
      BY <2>2 DEF Holds, Token, Holders
    <3>2. takes[t] = 0
      BY <2>2 DEF OneTaker, KindsAgree, OnLink, Token
    <3> QED BY <1>1, <2>1, <2>2, <3>1, <3>2
       DEF OneTaker, Holds, Token, Moved, Others, SameLink, SameRest, Stopped
  <2>3. CASE ~Acceptable(t)
    BY <1>1, <2>1, <2>3 DEF OneTaker, Holds, Token, Moved, Others, SameLink, SameRest, Stopped
  <2>4. CASE t \in crossed'
    BY <1>1, <2>1, <2>4 DEF OneTaker, Holds, Token, Moved, Others, SameLink, SameRest, Stopped
  <2> QED BY <2>2, <2>3, <2>4
<1>10. SpentServes'
  BY <1>1 DEF SpentServes, Sound, Moved, Others, SameLink, SameRest, Stopped
<1> QED BY <1>2, <1>3, <1>4, <1>5, <1>6, <1>7, <1>8, <1>9, <1>10

LEMMA ConsumeStampKeepsAccounts ==
    ASSUME NEW r \in Requests, AccountsInv, ConsumeStamp(r)
    PROVE  AccountsInv'
<1> USE DEF AccountsInv, links_vars, session_vars,
           ConsumeStamp, At
<1>1. Goes(r, "spent") => Moved(r, "spent") /\ request' \in [Requests -> RequestType]
  BY GoingOn DEF AccountsInv, Stages
<1>2. AccountsTypeOK'
  <2>1. Token(r) \in Tokens /\ takes \in [Tokens -> Nat]
    BY DEF KindsAgree, OnLink, Token, AccountsTypeOK
  <2>2. takes' \in [Tokens -> Nat]
    <3>1. takes' = [takes EXCEPT ![Token(r)] = @ + 1]
      BY DEF Token
    <3> HIDE DEF AccountsInv, ConsumeStamp
    <3>2. [takes EXCEPT ![Token(r)] = @ + 1] \in [Tokens -> Nat]
      BY <2>1, CountUp
    <3> QED BY <3>1, <3>2
  <2>3. token' \in [Tokens -> TokenRow]
    <3>1. token \in [Tokens -> TokenRow]
      BY DEF AccountsTypeOK, TokenRow
    <3>2. [token[Token(r)] EXCEPT !.used = TRUE] \in TokenRow
      BY <2>1, <3>1 DEF TokenRow
    <3>3. token' = [token EXCEPT ![Token(r)] = [token[Token(r)] EXCEPT !.used = TRUE]]
      BY DEF Token
    <3> HIDE DEF AccountsInv, ConsumeStamp
    <3> QED BY <3>1, <3>2, <3>3
  <2> QED BY <1>1, <2>2, <2>3 DEF AccountsTypeOK, TokenRow
<1>3. LoginsAreAlone'
  BY <1>1 DEF LoginsAreAlone, Session, Moved, Others, SameLink, SameRest
<1>4. RowsExist'
  BY <1>1 DEF RowsExist, Session, OnSession, Moved, Others, SameLink, SameRest
<1>5. DeadIsUseless'
  BY <1>1 DEF DeadIsUseless, Unsigns, Moved, Others, SameLink, SameRest
<1>6. LateIsRefused'
  BY <1>1 DEF LateIsRefused, Session, Moved, Others, SameLink, SameRest
<1>7. AskersAreAlone'
  <2>1. /\ token[Token(r)].kind # "none"
        /\ \A t \in Tokens : token'[t].kind = token[t].kind
        /\ \A t \in Tokens \ {Token(r)} : takes'[t] = takes[t]
    BY NoneIsNoKind DEF KindsAgree, OnLink, Token, AccountsTypeOK
  <2> QED BY <1>1, <2>1 DEF AskersAreAlone, Token, Moved, Others, SameLink, SameRest
<1>8. KindsAgree'
  BY <1>1 DEF KindsAgree, Token, OnLink, Moved, Others, SameLink, SameRest
<1>9. OneTaker'
  <2>1. /\ Token(r) \in Tokens /\ Holds(r, Token(r))
        /\ token'[Token(r)].used /\ takes'[Token(r)] = takes[Token(r)] + 1
        /\ \A t \in Tokens \ {Token(r)} : takes'[t] = takes[t] /\ token'[t] = token[t]
    BY DEF KindsAgree, OnLink, Token, Holds, AccountsTypeOK
  <2>2. \A q \in Requests, t \in Tokens : Holds(q, t)' => Holds(q, t) /\ q # r
    BY <1>1 DEF Holds, Token, Moved, Others, SameLink, SameRest
  <2>3. OneTaker /\ crossed' = crossed
    OBVIOUS
  <2> HIDE DEF AccountsInv, ConsumeStamp
  <2> QED BY <2>1, <2>2, <2>3 DEF OneTaker
<1>10. SpentServes'
  BY <1>1 DEF SpentServes, Sound, Moved, Others, SameLink, SameRest
<1> QED BY <1>2, <1>3, <1>4, <1>5, <1>6, <1>7, <1>8, <1>9, <1>10

LEMMA RaisesKeepsAccounts ==
    ASSUME NEW r \in Requests, AccountsInv, Raises(r)
    PROVE  AccountsInv'
<1> USE DEF AccountsInv, links_vars, session_vars,
           Raises, At
<1>1. Ends(r) => Stopped(r) /\ request' \in [Requests -> RequestType]
  BY Stopping DEF AccountsInv
<1>2. AccountsTypeOK'
  BY <1>1 DEF AccountsTypeOK
<1>3. LoginsAreAlone'
  BY <1>1 DEF LoginsAreAlone, Session, Stopped, Others
<1>4. RowsExist'
  BY <1>1 DEF RowsExist, Session, OnSession, Stopped, Others
<1>5. DeadIsUseless'
  BY <1>1 DEF DeadIsUseless, Unsigns, Stopped, Others
<1>6. LateIsRefused'
  BY <1>1 DEF LateIsRefused, Session, Stopped, Others
<1>7. AskersAreAlone'
  BY <1>1 DEF AskersAreAlone, Token, Stopped, Others
<1>8. KindsAgree'
  BY <1>1 DEF KindsAgree, Token, OnLink, Stopped, Others
<1>9. OneTaker'
  BY <1>1 DEF OneTaker, Holds, Token, Stopped, Others
<1>10. SpentServes'
  <2>1. token[Token(r)].kind \notin Sound
    BY DEF KindsAgree, OnLink, Token, Sound, Unawaited
  <2> QED BY <1>1, <2>1 DEF SpentServes, Token, Stopped, Others
<1> QED BY <1>2, <1>3, <1>4, <1>5, <1>6, <1>7, <1>8, <1>9, <1>10

LEMMA MagicUserKeepsAccounts ==
    ASSUME NEW r \in Requests, AccountsInv, MagicUser(r)
    PROVE  AccountsInv'
<1> USE DEF AccountsInv, links_vars, session_vars,
           MagicUser, At, Results
<1>1. /\ Goes(r, "linked") => Moved(r, "linked") /\ request' \in [Requests -> RequestType]
      /\ Ends(r) => Stopped(r) /\ request' \in [Requests -> RequestType]
  BY GoingOn, Stopping DEF AccountsInv, Stages
<1>2. AccountsTypeOK'
  BY <1>1 DEF AccountsTypeOK
<1>3. LoginsAreAlone'
  BY <1>1 DEF LoginsAreAlone, Session, Moved, Others, SameLink, SameRest, Stopped
<1>4. RowsExist'
  BY <1>1 DEF RowsExist, Session, OnSession, Moved, Others, SameLink, SameRest, Stopped
<1>5. DeadIsUseless'
  BY <1>1 DEF DeadIsUseless, Unsigns, Moved, Others, SameLink, SameRest, Stopped
<1>6. LateIsRefused'
  BY <1>1 DEF LateIsRefused, Session, Moved, Others, SameLink, SameRest, Stopped
<1>7. AskersAreAlone'
  BY <1>1 DEF AskersAreAlone, Token, Moved, Others, SameLink, SameRest, Stopped
<1>8. KindsAgree'
  BY <1>1 DEF KindsAgree, Token, OnLink, Moved, Others, SameLink, SameRest, Stopped
<1>9. OneTaker'
  BY <1>1 DEF OneTaker, Holds, Token, Moved, Others, SameLink, SameRest, Stopped
<1>10. SpentServes'
  BY <1>1 DEF SpentServes, Sound, AccountsTypeOK, Moved, Others, SameLink, SameRest, Stopped
<1> QED BY <1>2, <1>3, <1>4, <1>5, <1>6, <1>7, <1>8, <1>9, <1>10

LEMMA MagicLoginKeepsAccounts ==
    ASSUME NEW r \in Requests, AccountsInv, MagicLogin(r)
    PROVE  AccountsInv'
<1> USE DEF AccountsInv, links_vars, session_vars,
           MagicLogin, At, Results
<1>1. Ends(r) => Stopped(r) /\ request' \in [Requests -> RequestType]
  BY Stopping DEF AccountsInv
<1>2. AccountsTypeOK'
  BY <1>1 DEF AccountsTypeOK
<1>3. LoginsAreAlone'
  BY <1>1 DEF LoginsAreAlone, Session, Stopped, Others
<1>4. RowsExist'
  BY <1>1 DEF RowsExist, Session, OnSession, Stopped, Others
<1>5. DeadIsUseless'
  BY <1>1 DEF DeadIsUseless, Unsigns, Stopped, Others
<1>6. LateIsRefused'
  BY <1>1 DEF LateIsRefused, Session, Stopped, Others
<1>7. AskersAreAlone'
  BY <1>1 DEF AskersAreAlone, Token, Stopped, Others
<1>8. KindsAgree'
  BY <1>1 DEF KindsAgree, Token, OnLink, Stopped, Others
<1>9. OneTaker'
  BY <1>1 DEF OneTaker, Holds, Token, Stopped, Others
<1>10. SpentServes'
  BY <1>1 DEF SpentServes, Sound, LoginsAreAlone, Session, AccountsTypeOK, Stopped, Others
<1> QED BY <1>2, <1>3, <1>4, <1>5, <1>6, <1>7, <1>8, <1>9, <1>10

LEMMA RecoverKeepsAccounts ==
    ASSUME NEW r \in Requests, AccountsInv, Recover(r)
    PROVE  AccountsInv'
<1> USE DEF AccountsInv, links_vars, session_vars,
           Recover, At, Results
<1>1. Ends(r) => Stopped(r) /\ request' \in [Requests -> RequestType]
  BY Stopping DEF AccountsInv
<1>2. AccountsTypeOK'
  BY <1>1 DEF AccountsTypeOK
<1>3. LoginsAreAlone'
  BY <1>1 DEF LoginsAreAlone, Session, Stopped, Others
<1>4. RowsExist'
  BY <1>1 DEF RowsExist, Session, OnSession, Stopped, Others
<1>5. DeadIsUseless'
  BY <1>1 DEF DeadIsUseless, Unsigns, Stopped, Others
<1>6. LateIsRefused'
  BY <1>1 DEF LateIsRefused, Session, Stopped, Others
<1>7. AskersAreAlone'
  BY <1>1 DEF AskersAreAlone, Token, Stopped, Others
<1>8. KindsAgree'
  BY <1>1 DEF KindsAgree, Token, OnLink, Stopped, Others
<1>9. OneTaker'
  BY <1>1 DEF OneTaker, Holds, Token, Stopped, Others
<1>10. SpentServes'
  BY <1>1 DEF SpentServes, Sound, AccountsTypeOK, Stopped, Others
<1> QED BY <1>2, <1>3, <1>4, <1>5, <1>6, <1>7, <1>8, <1>9, <1>10

LEMMA LoginKeepsAccounts ==
    ASSUME NEW r \in Requests, NEW s \in Sessions, AccountsInv, Login(r, s)
    PROVE  AccountsInv'
<1> USE DEF AccountsInv, links_vars, session_vars,
           Login, At
<1>1. AccountsTypeOK'
  BY NoRequestIsRequest DEF AccountsTypeOK, RequestType, Stages
<1>2. LoginsAreAlone'
  BY DEF LoginsAreAlone, Session, NoRequest
<1>3. RowsExist'
  BY DEF RowsExist, Session, OnSession, NoRequest
<1>4. DeadIsUseless'
  BY DEF DeadIsUseless, Unsigns, NoRequest
<1>5. LateIsRefused'
  BY DEF LateIsRefused, Session, NoRequest
<1>6. AskersAreAlone'
  BY AccountsAssumption DEF AskersAreAlone, Token, NoRequest
<1>7. KindsAgree'
  BY DEF KindsAgree, Token, OnLink, NoRequest
<1>8. OneTaker'
  BY DEF OneTaker, Holds, Token, NoRequest
<1>9. SpentServes'
  BY DEF SpentServes, Sound, NoRequest
<1> QED BY <1>1, <1>2, <1>3, <1>4, <1>5, <1>6, <1>7, <1>8, <1>9

LEMMA LoginInsertKeepsAccounts ==
    ASSUME NEW r \in Requests, AccountsInv, LoginInsert(r)
    PROVE  AccountsInv'
<1> USE DEF AccountsInv, links_vars, session_vars,
           LoginInsert, At
<1>1. Ends(r) => Stopped(r) /\ request' \in [Requests -> RequestType]
  BY Stopping DEF AccountsInv
<1>2. AccountsTypeOK'
  <2>1. /\ now + TTL \in Nat /\ now \in Nat
        /\ session \in [Sessions -> [status : {"absent", "active", "revoked", "expired", "swept"},
                                     expires : Nat, signed : Nat]]
    BY ConstantsAreNat DEF AccountsTypeOK
  <2>2. session' \in [Sessions -> [status : {"absent", "active", "revoked", "expired", "swept"},
                                     expires : Nat, signed : Nat]]
    BY <2>1
  <2> QED BY <1>1, <2>2 DEF AccountsTypeOK
<1>3. LoginsAreAlone'
  BY <1>1 DEF LoginsAreAlone, Session, Stopped, Others
<1>4. RowsExist'
  BY <1>1 DEF RowsExist, Session, OnSession, Stopped, Others
<1>5. DeadIsUseless'
  <2>1. \A s \in dead : session'[s] = session[s]
    BY DEF LoginsAreAlone, RowsExist, Session, AccountsTypeOK
  <2> QED BY <2>1 DEF DeadIsUseless, Unsigns
<1>6. LateIsRefused'
  BY <1>1 DEF LateIsRefused, Session, LoginsAreAlone, Stopped, Others
<1>7. AskersAreAlone'
  BY <1>1 DEF AskersAreAlone, Token, Stopped, Others
<1>8. KindsAgree'
  BY <1>1 DEF KindsAgree, Token, OnLink, Stopped, Others
<1>9. OneTaker'
  BY <1>1 DEF OneTaker, Holds, Token, Stopped, Others
<1>10. SpentServes'
  BY <1>1 DEF SpentServes, Sound, Stopped, Others
<1> QED BY <1>2, <1>3, <1>4, <1>5, <1>6, <1>7, <1>8, <1>9, <1>10

LEMMA AuthenticateKeepsAccounts ==
    ASSUME NEW r \in Requests, NEW s \in Sessions, NEW out \in BOOLEAN,
           AccountsInv, Authenticate(r, s, out)
    PROVE  AccountsInv'
<1> USE DEF AccountsInv, links_vars, session_vars,
           Authenticate, At
<1>1. AccountsTypeOK'
  <2> DEFINE new == [NoRequest EXCEPT !.at = "auth", !.session = s, !.logout = out, !.late = s \in dead]
  <2>1. new \in RequestType
    <3>1. (s \in dead) \in BOOLEAN
      OBVIOUS
    <3>2. \A late \in BOOLEAN :
            [NoRequest EXCEPT !.at = "auth", !.session = s, !.logout = out, !.late = late] \in RequestType
      BY NoRequestIsRequest DEF RequestType, Stages
    <3> QED BY <3>1, <3>2
  <2>2. request' \in [Requests -> RequestType]
    BY <2>1 DEF AccountsTypeOK
  <2> QED BY <2>2 DEF AccountsTypeOK
<1>2. LoginsAreAlone'
  BY DEF LoginsAreAlone, Session, NoRequest
<1>3. RowsExist'
  BY DEF RowsExist, Session, OnSession, NoRequest
<1>4. DeadIsUseless'
  BY DEF DeadIsUseless, Unsigns, NoRequest
<1>5. LateIsRefused'
  <2>1. /\ request'[r].at = "auth" /\ request'[r].session = s /\ (request'[r].late => s \in dead)
        /\ \A q \in Requests \ {r} : request'[q] = request[q]
    BY DEF AccountsTypeOK, NoRequest
  <2> QED BY <2>1 DEF LateIsRefused, DeadIsUseless, Session
<1>6. AskersAreAlone'
  BY AccountsAssumption DEF AskersAreAlone, Token, NoRequest
<1>7. KindsAgree'
  BY DEF KindsAgree, Token, OnLink, NoRequest
<1>8. OneTaker'
  BY DEF OneTaker, Holds, Token, NoRequest
<1>9. SpentServes'
  BY DEF SpentServes, Sound, NoRequest
<1> QED BY <1>1, <1>2, <1>3, <1>4, <1>5, <1>6, <1>7, <1>8, <1>9

LEMMA AuthReadKeepsAccounts ==
    ASSUME NEW r \in Requests, AccountsInv, AuthRead(r)
    PROVE  AccountsInv'
<1> USE DEF AccountsInv, links_vars, session_vars,
           AuthRead, At
<1>1. /\ Goes(r, "expired") => Moved(r, "expired") /\ request' \in [Requests -> RequestType]
      /\ Goes(r, "read") => Moved(r, "read") /\ request' \in [Requests -> RequestType]
      /\ Ends(r) => Stopped(r) /\ request' \in [Requests -> RequestType]
  BY GoingOn, Stopping DEF AccountsInv, Stages
<1>2. AccountsTypeOK'
  BY <1>1 DEF AccountsTypeOK
<1>3. LoginsAreAlone'
  BY <1>1 DEF LoginsAreAlone, Session, Moved, Others, SameLink, SameRest, Stopped
<1>4. RowsExist'
  BY <1>1 DEF RowsExist, Session, OnSession, Moved, Others, SameLink, SameRest, Stopped
<1>5. DeadIsUseless'
  BY <1>1 DEF DeadIsUseless, Unsigns, Moved, Others, SameLink, SameRest, Stopped
<1>6. LateIsRefused'
  BY <1>1 DEF LateIsRefused, Session, Moved, Others, SameLink, SameRest, Stopped
<1>7. AskersAreAlone'
  BY <1>1 DEF AskersAreAlone, Token, Moved, Others, SameLink, SameRest, Stopped
<1>8. KindsAgree'
  BY <1>1 DEF KindsAgree, Token, OnLink, Moved, Others, SameLink, SameRest, Stopped
<1>9. OneTaker'
  BY <1>1 DEF OneTaker, Holds, Token, Moved, Others, SameLink, SameRest, Stopped
<1>10. SpentServes'
  BY <1>1 DEF SpentServes, Sound, Moved, Others, SameLink, SameRest, Stopped
<1> QED BY <1>2, <1>3, <1>4, <1>5, <1>6, <1>7, <1>8, <1>9, <1>10

LEMMA AuthExpiresKeepsAccounts ==
    ASSUME NEW r \in Requests, AccountsInv, AuthExpires(r)
    PROVE  AccountsInv'
<1> USE DEF AccountsInv, links_vars, session_vars,
           AuthExpires, At
<1>1. Ends(r) => Stopped(r) /\ request' \in [Requests -> RequestType]
  BY Stopping DEF AccountsInv
<1>2. AccountsTypeOK'
  BY <1>1 DEF AccountsTypeOK
<1>3. LoginsAreAlone'
  BY <1>1 DEF LoginsAreAlone, Session, Stopped, Others
<1>4. RowsExist'
  BY <1>1 DEF RowsExist, Session, OnSession, Stopped, Others
<1>5. DeadIsUseless'
  BY <1>1 DEF DeadIsUseless, Unsigns, Stopped, Others
<1>6. LateIsRefused'
  BY <1>1 DEF LateIsRefused, Session, Stopped, Others
<1>7. AskersAreAlone'
  BY <1>1 DEF AskersAreAlone, Token, Stopped, Others
<1>8. KindsAgree'
  BY <1>1 DEF KindsAgree, Token, OnLink, Stopped, Others
<1>9. OneTaker'
  BY <1>1 DEF OneTaker, Holds, Token, Stopped, Others
<1>10. SpentServes'
  BY <1>1 DEF SpentServes, Sound, Stopped, Others
<1> QED BY <1>2, <1>3, <1>4, <1>5, <1>6, <1>7, <1>8, <1>9, <1>10

LEMMA AuthUserKeepsAccounts ==
    ASSUME NEW r \in Requests, AccountsInv, AuthUser(r)
    PROVE  AccountsInv'
<1> USE DEF AccountsInv, links_vars, session_vars,
           AuthUser, At
<1>1. /\ Goes(r, "authed") => Moved(r, "authed") /\ request' \in [Requests -> RequestType]
      /\ Ends(r) => Stopped(r) /\ request' \in [Requests -> RequestType]
  BY GoingOn, Stopping DEF AccountsInv, Stages
<1>2. AccountsTypeOK'
  BY <1>1 DEF AccountsTypeOK
<1>3. LoginsAreAlone'
  BY <1>1 DEF LoginsAreAlone, Session, Moved, Others, SameLink, SameRest, Stopped
<1>4. RowsExist'
  BY <1>1 DEF RowsExist, Session, OnSession, Moved, Others, SameLink, SameRest, Stopped
<1>5. DeadIsUseless'
  BY <1>1 DEF DeadIsUseless, Unsigns, Moved, Others, SameLink, SameRest, Stopped
<1>6. LateIsRefused'
  BY <1>1 DEF LateIsRefused, Session, Moved, Others, SameLink, SameRest, Stopped
<1>7. AskersAreAlone'
  BY <1>1 DEF AskersAreAlone, Token, Moved, Others, SameLink, SameRest, Stopped
<1>8. KindsAgree'
  BY <1>1 DEF KindsAgree, Token, OnLink, Moved, Others, SameLink, SameRest, Stopped
<1>9. OneTaker'
  BY <1>1 DEF OneTaker, Holds, Token, Moved, Others, SameLink, SameRest, Stopped
<1>10. SpentServes'
  BY <1>1 DEF SpentServes, Sound, Moved, Others, SameLink, SameRest, Stopped
<1> QED BY <1>2, <1>3, <1>4, <1>5, <1>6, <1>7, <1>8, <1>9, <1>10

LEMMA AuthCommitKeepsAccounts ==
    ASSUME NEW r \in Requests, AccountsInv, AuthCommit(r)
    PROVE  AccountsInv'
<1> USE DEF AccountsInv, links_vars, session_vars,
           AuthCommit, At, Slid
<1>1. /\ Goes(r, "admitted") => Moved(r, "admitted") /\ request' \in [Requests -> RequestType]
      /\ Ends(r) => Stopped(r) /\ request' \in [Requests -> RequestType]
  BY GoingOn, Stopping DEF AccountsInv, Stages
<1>2. AccountsTypeOK'
  BY ConstantsAreNat, <1>1 DEF AccountsTypeOK
<1>3. LoginsAreAlone'
  BY <1>1 
     DEF LoginsAreAlone, Session, RowsExist, OnSession, AccountsTypeOK, Moved, Others,
         SameLink, SameRest, Stopped
<1>4. RowsExist'
  <2>1. doomed \cup dead \subseteq Sessions
        /\ \A s \in Sessions : session'[s].status = session[s].status
    BY DEF AccountsTypeOK
  <2> QED BY <1>1, <2>1
     DEF RowsExist, Session, OnSession, Moved, Others, SameLink, SameRest, Stopped
<1>5. DeadIsUseless'
  BY <1>1 
     DEF DeadIsUseless, Unsigns, LoginsAreAlone, Session, AccountsTypeOK, Moved, Others,
         SameLink, SameRest, Stopped
<1>6. LateIsRefused'
  BY <1>1 DEF LateIsRefused, Session, AccountsTypeOK, Moved, Others, SameLink, SameRest, Stopped
<1>7. AskersAreAlone'
  BY <1>1 DEF AskersAreAlone, Token, Moved, Others, SameLink, SameRest, Stopped
<1>8. KindsAgree'
  BY <1>1 DEF KindsAgree, Token, OnLink, Moved, Others, SameLink, SameRest, Stopped
<1>9. OneTaker'
  BY <1>1 DEF OneTaker, Holds, Token, Moved, Others, SameLink, SameRest, Stopped
<1>10. SpentServes'
  BY <1>1 DEF SpentServes, Sound, Moved, Others, SameLink, SameRest, Stopped
<1> QED BY <1>2, <1>3, <1>4, <1>5, <1>6, <1>7, <1>8, <1>9, <1>10

LEMMA ServeKeepsAccounts ==
    ASSUME NEW r \in Requests, AccountsInv, Serve(r)
    PROVE  AccountsInv'
<1> USE DEF AccountsInv, links_vars, session_vars,
           Serve, At
<1>1. Ends(r) => Stopped(r) /\ request' \in [Requests -> RequestType]
  BY Stopping DEF AccountsInv
<1>2. AccountsTypeOK'
  BY <1>1 DEF AccountsTypeOK
<1>3. LoginsAreAlone'
  BY <1>1 DEF LoginsAreAlone, Session, Stopped, Others
<1>4. RowsExist'
  BY <1>1 DEF RowsExist, Session, OnSession, Stopped, Others
<1>5. DeadIsUseless'
  BY <1>1 DEF DeadIsUseless, Unsigns, Stopped, Others
<1>6. LateIsRefused'
  BY <1>1 DEF LateIsRefused, Session, Stopped, Others
<1>7. AskersAreAlone'
  BY <1>1 DEF AskersAreAlone, Token, Stopped, Others
<1>8. KindsAgree'
  BY <1>1 DEF KindsAgree, Token, OnLink, Stopped, Others
<1>9. OneTaker'
  BY <1>1 DEF OneTaker, Holds, Token, Stopped, Others
<1>10. SpentServes'
  BY <1>1 DEF SpentServes, Sound, Stopped, Others
<1> QED BY <1>2, <1>3, <1>4, <1>5, <1>6, <1>7, <1>8, <1>9, <1>10

LEMMA LogoutReadKeepsAccounts ==
    ASSUME NEW r \in Requests, AccountsInv, LogoutRead(r)
    PROVE  AccountsInv'
<1> USE DEF AccountsInv, links_vars, session_vars,
           LogoutRead, At
<1>1. /\ Goes(r, "leaving") => Moved(r, "leaving") /\ request' \in [Requests -> RequestType]
      /\ Ends(r) => Stopped(r) /\ request' \in [Requests -> RequestType]
  BY GoingOn, Stopping DEF AccountsInv, Stages
<1>2. AccountsTypeOK'
  BY <1>1 DEF AccountsTypeOK, RowsExist, OnSession, Session
<1>3. LoginsAreAlone'
  BY <1>1 DEF LoginsAreAlone, Session, Moved, Others, SameLink, SameRest, Stopped
<1>4. RowsExist'
  BY <1>1 DEF RowsExist, Session, OnSession, Moved, Others, SameLink, SameRest, Stopped
<1>5. DeadIsUseless'
  BY <1>1 DEF DeadIsUseless, Unsigns, Moved, Others, SameLink, SameRest, Stopped
<1>6. LateIsRefused'
  BY <1>1 DEF LateIsRefused, Session, Moved, Others, SameLink, SameRest, Stopped
<1>7. AskersAreAlone'
  BY <1>1 DEF AskersAreAlone, Token, Moved, Others, SameLink, SameRest, Stopped
<1>8. KindsAgree'
  BY <1>1 DEF KindsAgree, Token, OnLink, Moved, Others, SameLink, SameRest, Stopped
<1>9. OneTaker'
  BY <1>1 DEF OneTaker, Holds, Token, Moved, Others, SameLink, SameRest, Stopped
<1>10. SpentServes'
  BY <1>1 DEF SpentServes, Sound, Moved, Others, SameLink, SameRest, Stopped
<1> QED BY <1>2, <1>3, <1>4, <1>5, <1>6, <1>7, <1>8, <1>9, <1>10

LEMMA LogoutCommitKeepsAccounts ==
    ASSUME NEW r \in Requests, AccountsInv, LogoutCommit(r)
    PROVE  AccountsInv'
<1> USE DEF AccountsInv, links_vars, session_vars,
           LogoutCommit, At
<1>1. Ends(r) => Stopped(r) /\ request' \in [Requests -> RequestType]
  BY Stopping DEF AccountsInv
<1>2. AccountsTypeOK'
  BY <1>1 DEF AccountsTypeOK, RowsExist, OnSession, Session
<1>3. LoginsAreAlone'
  BY <1>1 DEF LoginsAreAlone, Session, Stopped, Others
<1>4. RowsExist'
  BY <1>1 DEF RowsExist, Session, OnSession, Stopped, Others
<1>5. DeadIsUseless'
  BY <1>1 
     DEF DeadIsUseless, Unsigns, RowsExist, Session, OnSession, AccountsTypeOK, Stopped, Others
<1>6. LateIsRefused'
  BY <1>1 DEF LateIsRefused, Session, Stopped, Others
<1>7. AskersAreAlone'
  BY <1>1 DEF AskersAreAlone, Token, Stopped, Others
<1>8. KindsAgree'
  BY <1>1 DEF KindsAgree, Token, OnLink, Stopped, Others
<1>9. OneTaker'
  BY <1>1 DEF OneTaker, Holds, Token, Stopped, Others
<1>10. SpentServes'
  BY <1>1 DEF SpentServes, Sound, Stopped, Others
<1> QED BY <1>2, <1>3, <1>4, <1>5, <1>6, <1>7, <1>8, <1>9, <1>10

LEMMA SweepReadKeepsAccounts ==
    ASSUME AccountsInv, SweepRead
    PROVE  AccountsInv'
<1> USE DEF AccountsInv, links_vars, session_vars,
           SweepRead
<1>1. AccountsTypeOK'
  BY DEF AccountsTypeOK
<1>2. LoginsAreAlone'
  BY DEF LoginsAreAlone, Session
<1>3. RowsExist'
  BY DEF RowsExist, Session, OnSession, Stale
<1>4. DeadIsUseless'
  BY DEF DeadIsUseless, Unsigns
<1>5. LateIsRefused'
  BY DEF LateIsRefused, Session
<1>6. AskersAreAlone'
  BY DEF AskersAreAlone, Token
<1>7. KindsAgree'
  BY DEF KindsAgree, Token, OnLink
<1>8. OneTaker'
  BY DEF OneTaker, Holds, Token
<1>9. SpentServes'
  BY DEF SpentServes, Sound
<1> QED BY <1>1, <1>2, <1>3, <1>4, <1>5, <1>6, <1>7, <1>8, <1>9

LEMMA SweepCommitKeepsAccounts ==
    ASSUME AccountsInv, SweepCommit
    PROVE  AccountsInv'
<1> USE DEF AccountsInv, links_vars, session_vars,
           SweepCommit
<1>1. AccountsTypeOK'
  BY DEF AccountsTypeOK
<1>2. LoginsAreAlone'
  BY DEF LoginsAreAlone, Session, RowsExist, OnSession
<1>3. RowsExist'
  BY DEF RowsExist, Session, OnSession, AccountsTypeOK
<1>4. DeadIsUseless'
  BY DEF DeadIsUseless, Unsigns, AccountsTypeOK
<1>5. LateIsRefused'
  BY DEF LateIsRefused, Session
<1>6. AskersAreAlone'
  BY DEF AskersAreAlone, Token
<1>7. KindsAgree'
  BY DEF KindsAgree, Token, OnLink
<1>8. OneTaker'
  BY DEF OneTaker, Holds, Token
<1>9. SpentServes'
  BY DEF SpentServes, Sound
<1> QED BY <1>1, <1>2, <1>3, <1>4, <1>5, <1>6, <1>7, <1>8, <1>9

LEMMA BreaksKeepsAccounts ==
    ASSUME NEW r \in Requests, AccountsInv, Breaks(r)
    PROVE  AccountsInv'
<1> USE DEF AccountsInv, links_vars, session_vars,
           Breaks, At
<1>1. Ends(r) => Stopped(r) /\ request' \in [Requests -> RequestType]
  BY Stopping DEF AccountsInv
<1>2. AccountsTypeOK'
  <2>1. outcome' \in [Tokens -> {"none", "applied", "denied", "lost"}]
    BY DEF AccountsTypeOK
  <2>2. breaks' \in Nat
    BY DEF AccountsTypeOK
  <2> QED BY <1>1, <2>1, <2>2 DEF AccountsTypeOK
<1>3. LoginsAreAlone'
  BY <1>1 DEF LoginsAreAlone, Session, Stopped, Others
<1>4. RowsExist'
  BY <1>1 DEF RowsExist, Session, OnSession, Stopped, Others
<1>5. DeadIsUseless'
  BY <1>1 DEF DeadIsUseless, Unsigns, Stopped, Others
<1>6. LateIsRefused'
  BY <1>1 DEF LateIsRefused, Session, Stopped, Others
<1>7. AskersAreAlone'
  BY <1>1 DEF AskersAreAlone, Token, Stopped, Others
<1>8. KindsAgree'
  BY <1>1 DEF KindsAgree, Token, OnLink, Stopped, Others
<1>9. OneTaker'
  BY <1>1 DEF OneTaker, Holds, Token, Stopped, Others
<1>10. SpentServes'
  BY <1>1 DEF SpentServes, Sound, AccountsTypeOK, Stopped, Others
<1> QED BY <1>2, <1>3, <1>4, <1>5, <1>6, <1>7, <1>8, <1>9, <1>10

LEMMA ClosesKeepsAccounts ==
    ASSUME AccountsInv, Closes
    PROVE  AccountsInv'
<1> USE DEF AccountsInv, links_vars, session_vars,
           Closes
<1>1. AccountsTypeOK'
  BY DEF AccountsTypeOK
<1>2. LoginsAreAlone'
  BY DEF LoginsAreAlone, Session
<1>3. RowsExist'
  BY DEF RowsExist, Session, OnSession
<1>4. DeadIsUseless'
  BY DEF DeadIsUseless, Unsigns
<1>5. LateIsRefused'
  BY DEF LateIsRefused, Session
<1>6. AskersAreAlone'
  BY DEF AskersAreAlone, Token
<1>7. KindsAgree'
  BY DEF KindsAgree, Token, OnLink
<1>8. OneTaker'
  BY DEF OneTaker, Holds, Token
<1>9. SpentServes'
  BY DEF SpentServes, Sound
<1> QED BY <1>1, <1>2, <1>3, <1>4, <1>5, <1>6, <1>7, <1>8, <1>9

LEMMA TickKeepsAccounts ==
    ASSUME AccountsInv, Tick
    PROVE  AccountsInv'
<1> USE DEF AccountsInv, links_vars, session_vars
<1>1. /\ Passed /\ request' \in [Requests -> RequestType]
      /\ now' = now + 1 /\ UNCHANGED <<aware, user, links_vars, session_vars, breaks>>
  BY Ticking DEF AccountsInv, Tick
<1>2. AccountsTypeOK'
  BY <1>1 DEF AccountsTypeOK
<1>3. LoginsAreAlone'
  BY <1>1 DEF LoginsAreAlone, Session, Passed, SameLink, SameRest
<1>4. RowsExist'
  BY <1>1 DEF RowsExist, Session, OnSession, Passed, SameLink, SameRest
<1>5. DeadIsUseless'
  BY ConstantsAreNat, <1>1 
     DEF DeadIsUseless, Unsigns, AccountsTypeOK, Passed, SameLink, SameRest
<1>6. LateIsRefused'
  BY <1>1 DEF LateIsRefused, Session, Passed, SameLink, SameRest
<1>7. AskersAreAlone'
  BY <1>1 DEF AskersAreAlone, Token, Passed, SameLink, SameRest
<1>8. KindsAgree'
  BY <1>1 DEF KindsAgree, Token, OnLink, Passed, SameLink, SameRest
<1>9. OneTaker'
  BY <1>1 DEF OneTaker, Holds, Token, Passed, SameLink, SameRest
<1>10. SpentServes'
  BY <1>1 DEF SpentServes, Sound, Passed, SameLink, SameRest
<1> QED BY <1>2, <1>3, <1>4, <1>5, <1>6, <1>7, <1>8, <1>9, <1>10

-----------------------------------------------------------------------------
(* The sign-ups' own steps leave the accounts alone.                        *)

LEMMA AccountsStep ==
    ASSUME AccountsInv, [Next]_vars
    PROVE  AccountsInv'
<1> USE AccountsAssumption
<1>1. CASE UNCHANGED accounts
  BY <1>1, AccountsStutter
<1>2. ASSUME NEW r \in Requests, NEW k \in Offered[aware], NEW t \in Tokens, Ask(r, k, t)
      PROVE  AccountsInv'
  <2>1. k \in Kinds
    BY DEF AccountsInv, AccountsTypeOK
  <2> QED BY <1>2, <2>1, AskKeepsAccounts
<1>3. ASSUME NEW r \in Requests, NEW t \in Tokens, Click(r, t)
      PROVE  AccountsInv'
  BY <1>3, ClickKeepsAccounts
<1>4. ASSUME NEW r \in Requests, NEW s \in Sessions, Login(r, s)
      PROVE  AccountsInv'
  BY <1>4, LoginKeepsAccounts
<1>5. ASSUME NEW r \in Requests, NEW s \in Sessions, NEW out \in BOOLEAN, Authenticate(r, s, out)
      PROVE  AccountsInv'
  BY <1>5, AuthenticateKeepsAccounts
<1>6. ASSUME NEW r \in Requests, Proceeds(r)
      PROVE  AccountsInv'
  BY <1>6, GenerateKeepsAccounts, MailKeepsAccounts, ConsumeReadKeepsAccounts,
     ConsumeStampKeepsAccounts, RaisesKeepsAccounts, MagicUserKeepsAccounts,
     MagicLoginKeepsAccounts, RecoverKeepsAccounts, LoginInsertKeepsAccounts,
     AuthReadKeepsAccounts, AuthExpiresKeepsAccounts, AuthUserKeepsAccounts,
     AuthCommitKeepsAccounts, ServeKeepsAccounts, LogoutReadKeepsAccounts,
     LogoutCommitKeepsAccounts DEF Proceeds
<1>7. ASSUME NEW r \in Requests, Breaks(r)
      PROVE  AccountsInv'
  BY <1>7, BreaksKeepsAccounts
<1>8. CASE SweepRead \/ SweepCommit
  BY <1>8, SweepReadKeepsAccounts, SweepCommitKeepsAccounts
<1>9. CASE Closes \/ Tick
  BY <1>9, ClosesKeepsAccounts, TickKeepsAccounts
<1> QED
  BY <1>1, <1>2, <1>3, <1>4, <1>5, <1>6, <1>7, <1>8, <1>9 DEF Next, InAccounts, AccountsNext, vars

LEMMA AccountsAlways == Spec => []AccountsInv
<1>1. Init => AccountsInv
  BY AccountsInitially DEF Init
<1>2. AccountsInv /\ [Next]_vars => AccountsInv'
  BY AccountsStep
<1> QED BY <1>1, <1>2, PTL DEF Spec

(***************************************************************************)
(* For any number of sessions and requests: after a logout was answered,   *)
(* no request that starts later is let in with that session.               *)
(***************************************************************************)
THEOREM LogoutHolds == Spec => []LogoutIsFinal
<1>1. AccountsInv => LogoutIsFinal
  BY DEF AccountsInv, LateIsRefused, LogoutIsFinal
<1> QED BY <1>1, AccountsAlways, PTL

(***************************************************************************)
(* For any number of links and requests: a second use of a link needs two  *)
(* requests that read it before either stamped it.                         *)
(***************************************************************************)
THEOREM LinksAreSingleUse == Spec => []SecondUseOverlaps
<1>1. AccountsInv => SecondUseOverlaps
  BY DEF AccountsInv, AccountsTypeOK, OneTaker, SecondUseOverlaps
<1> QED BY <1>1, AccountsAlways, PTL

(***************************************************************************)
(* A spent link of a route that works has logged its user in or recovered  *)
(* the account, or been denied or lost; it is never just used up.          *)
(***************************************************************************)
THEOREM LinksServe == Spec => []SpentServes
<1>1. AccountsInv => SpentServes
  BY DEF AccountsInv
<1> QED BY <1>1, AccountsAlways, PTL

-----------------------------------------------------------------------------
(* Sign-ups.                                                                *)

OneRow ==
    \A i \in Identities \ raced : \A a, b \in linked : a.who = i /\ b.who = i => a = b

\* A flow that found its account, or made one, is of that account's user.
FoundIsLinked ==
    \A f \in Flows : flow[f].at \in {"linked", "known"}
        => [who |-> flow[f].who, person |-> flow[f].person] \in linked

\* A flow that found none is the only one of its identity, and there is none.
Searching(f) == flow[f].at \in {"unlinked", "decided"}
UnfoundIsAlone ==
    \A f \in Flows : Searching(f) /\ flow[f].who \notin raced =>
        /\ \A a \in linked : a.who # flow[f].who
        /\ \A g \in Flows : Searching(g) /\ flow[g].who = flow[f].who => g = f

AnsweredIsLinked ==
    \A i \in Identities : \A u \in answered[i] : [who |-> i, person |-> u] \in linked

SignUpsInv ==
    /\ SignUpsTypeOK /\ OneRow /\ FoundIsLinked /\ UnfoundIsAlone /\ AnsweredIsLinked

-----------------------------------------------------------------------------
(* The initial states, and one lemma per action.                            *)

LEMMA NoFlowIsFlow == NoFlow \in FlowType /\ SomeEmail \in Emails
<1>1. Someone \in Identities /\ SomeEmail \in Emails
  BY SignUpsAssumption DEF Someone, SomeEmail
<1> QED BY <1>1 DEF NoFlow, FlowType

LEMMA SaysAreMails ==
    ASSUME SignUpsTypeOK, NEW i \in Identities, NEW says \in Says(i), says # Refused
    PROVE  says \in Emails \cup {NoMail}
BY DEF SignUpsTypeOK, Says, GoogleSays, GitHubSays, AppleSays, ProviderNames

LEMMA SignUpsInitially == SignUpsInit => SignUpsInv
<1> SUFFICES ASSUME SignUpsInit PROVE SignUpsInv
  OBVIOUS
<1>1. SignUpsTypeOK
  BY NoFlowIsFlow, SignUpsAssumption DEF SignUpsInit, ProvidersInit, SignUpsTypeOK
<1>2. OneRow /\ FoundIsLinked /\ UnfoundIsAlone /\ AnsweredIsLinked
  BY DEF SignUpsInit, OneRow, FoundIsLinked, UnfoundIsAlone, AnsweredIsLinked, Searching, NoFlow
<1> QED BY <1>1, <1>2 DEF SignUpsInv

LEMMA SignUpsStutter == SignUpsInv /\ UNCHANGED signups => SignUpsInv'
BY DEF signups, providers, SignUpsInv, SignUpsTypeOK, OneRow, FoundIsLinked, UnfoundIsAlone,
       AnsweredIsLinked, Searching

LEMMA RegisterReadKeepsSignUps ==
    ASSUME NEW r \in Forms, NEW e \in Emails, SignUpsInv, RegisterRead(r, e)
    PROVE  SignUpsInv'
<1> USE SignUpsAssumption DEF SignUpsInv, SignUpsTypeOK, FlowType, providers, RegisterRead
<1>1. SignUpsTypeOK'
  OBVIOUS
<1>2. OneRow'
  BY DEF OneRow
<1>3. FoundIsLinked'
  BY DEF FoundIsLinked
<1>4. UnfoundIsAlone'
  BY DEF UnfoundIsAlone, Searching
<1>5. AnsweredIsLinked'
  BY DEF AnsweredIsLinked
<1> QED BY <1>1, <1>2, <1>3, <1>4, <1>5

LEMMA CreateUsersKeepsSignUps ==
    ASSUME NEW r \in Forms, NEW batch \in SUBSET Emails, SignUpsInv, CreateUsers(r, batch)
    PROVE  SignUpsInv'
<1> USE SignUpsAssumption DEF SignUpsInv, SignUpsTypeOK, FlowType, CreateUsers, providers
<1>1. SignUpsTypeOK'
  OBVIOUS
<1>2. OneRow'
  BY DEF OneRow
<1>3. FoundIsLinked'
  BY DEF FoundIsLinked
<1>4. UnfoundIsAlone'
  BY DEF UnfoundIsAlone, Searching
<1>5. AnsweredIsLinked'
  BY DEF AnsweredIsLinked
<1> QED BY <1>1, <1>2, <1>3, <1>4, <1>5

LEMMA RegisterInsertKeepsSignUps ==
    ASSUME NEW r \in Forms, SignUpsInv, RegisterInsert(r)
    PROVE  SignUpsInv'
<1> USE SignUpsAssumption DEF SignUpsInv, SignUpsTypeOK, FlowType, providers, RegisterInsert
<1>1. SignUpsTypeOK'
  <2>1. \A emails : Inserted(emails) \subseteq [People -> Emails \cup {"unborn", "deleted"}]
    BY DEF Inserted
  <2>2. people' \in [People -> Emails \cup {"unborn", "deleted"}]
    BY <2>1
  <2> QED BY <2>2
<1>2. OneRow'
  BY DEF OneRow
<1>3. FoundIsLinked'
  BY DEF FoundIsLinked
<1>4. UnfoundIsAlone'
  BY DEF UnfoundIsAlone, Searching
<1>5. AnsweredIsLinked'
  BY DEF AnsweredIsLinked
<1> QED BY <1>1, <1>2, <1>3, <1>4, <1>5

LEMMA DeletePersonKeepsSignUps ==
    ASSUME NEW u \in People, SignUpsInv, DeletePerson(u)
    PROVE  SignUpsInv'
<1> USE SignUpsAssumption DEF SignUpsInv, SignUpsTypeOK, FlowType, providers, DeletePerson
<1>1. SignUpsTypeOK'
  OBVIOUS
<1>2. OneRow'
  BY DEF OneRow
<1>3. FoundIsLinked'
  BY DEF FoundIsLinked
<1>4. UnfoundIsAlone'
  BY DEF UnfoundIsAlone, Searching
<1>5. AnsweredIsLinked'
  BY DEF AnsweredIsLinked
<1> QED BY <1>1, <1>2, <1>3, <1>4, <1>5

LEMMA RedirectKeepsSignUps ==
    ASSUME NEW f \in Flows, NEW p \in Processes, NEW i \in Identities, SignUpsInv,
           Redirect(f, p, i)
    PROVE  SignUpsInv'
<1>0. /\ flow' = [flow EXCEPT ![f].at = "away"] /\ flow \in [Flows -> FlowType]
      /\ started < MaxFlows /\ started' = started + 1 /\ started \in 0..MaxFlows
  BY DEF Redirect, Steps, SignUpsInv, SignUpsTypeOK
<1>1. flow' \in [Flows -> FlowType] /\ started' \in 0..MaxFlows
  <2>1. [flow[f] EXCEPT !.at = "away"] \in FlowType
    BY <1>0 DEF FlowType
  <2> QED BY <1>0, <2>1, SignUpsAssumption
<1> USE SignUpsAssumption DEF SignUpsInv, SignUpsTypeOK, FlowType, providers, Redirect, FlowAt, Steps
<1>6. SignUpsTypeOK'
  <2>1. SignedState(f, p) \in [flow : Flows, secret : {Secret[q] : q \in Processes}]
    BY DEF SignedState
  <2>2. cookie' \in [ProviderNames ->
                      {NoCookie} \cup [flow : Flows, secret : {Secret[q] : q \in Processes}]]
    BY <2>1
  <2> QED BY <2>2, <1>1
<1>2. OneRow'
  BY DEF OneRow
<1>3. FoundIsLinked'
  BY DEF FoundIsLinked
<1>4. UnfoundIsAlone'
  BY DEF UnfoundIsAlone, Searching
<1>5. AnsweredIsLinked'
  BY DEF AnsweredIsLinked
<1> QED BY <1>6, <1>2, <1>3, <1>4, <1>5

LEMMA CalledBackKeepsSignUps ==
    ASSUME NEW f \in Flows, NEW p \in Processes, NEW i \in Identities,
           NEW c, NEW says \in Says(i), SignUpsInv, CalledBack(f, p, i, c, says)
    PROVE  SignUpsInv'
<1> USE SignUpsAssumption DEF SignUpsInv, SignUpsTypeOK, FlowType, providers, CalledBack, FlowAt
<1>1. SignUpsTypeOK'
  <2>1. CASE says # Refused /\ Verified(f, p, c)
    <3>1. [NoFlow EXCEPT !.at = "back", !.who = i, !.email = says] \in FlowType
      BY <2>1, SaysAreMails, NoFlowIsFlow DEF NoFlow
    <3>2. flow' \in [Flows -> FlowType]
      BY <2>1, <3>1
    <3> QED BY <3>2
  <2>2. CASE Quits(f)
    BY <2>2, NoFlowIsFlow DEF Quits
  <2> QED BY <2>1, <2>2
<1>2. OneRow'
  BY DEF OneRow
<1>3. FoundIsLinked'
  <2>1. CASE flow' = [flow EXCEPT ![f] = [NoFlow EXCEPT !.at = "back", !.who = i, !.email = says]]
    BY <2>1 DEF FoundIsLinked, NoFlow
  <2>2. CASE Quits(f)
    BY <2>2 DEF Quits, FoundIsLinked, NoFlow
  <2> QED BY <2>1, <2>2
<1>4. UnfoundIsAlone'
  <2>1. CASE flow' = [flow EXCEPT ![f] = [NoFlow EXCEPT !.at = "back", !.who = i, !.email = says]]
    BY <2>1 DEF UnfoundIsAlone, Searching, NoFlow
  <2>2. CASE Quits(f)
    BY <2>2 DEF Quits, UnfoundIsAlone, Searching, NoFlow
  <2> QED BY <2>1, <2>2
<1>5. AnsweredIsLinked'
  BY DEF AnsweredIsLinked
<1> QED BY <1>1, <1>2, <1>3, <1>4, <1>5

LEMMA FindAccountKeepsSignUps ==
    ASSUME NEW f \in Flows, SignUpsInv, FindAccount(f)
    PROVE  SignUpsInv'
<1> USE SignUpsAssumption DEF SignUpsInv, SignUpsTypeOK, FlowType, providers, FindAccount, FlowAt, Steps, Rows
<1>1. SignUpsTypeOK'
  OBVIOUS
<1>2. OneRow'
  BY DEF OneRow
<1>3. FoundIsLinked'
  BY DEF FoundIsLinked
<1>4. UnfoundIsAlone'
  <2>1. \A g \in Flows : g # f => flow'[g] = flow[g]
    OBVIOUS
  <2>2. CASE \E row \in Rows(f) : /\ flow' = [flow EXCEPT ![f].at = "linked", ![f].person = row.person]
                                  /\ UNCHANGED raced
    <3>1. PICK row \in linked : flow' = [flow EXCEPT ![f].at = "linked", ![f].person = row.person]
      BY <2>2
    <3>0. flow \in [Flows -> FlowType]
      OBVIOUS
    <3>2. flow'[f].at = "linked"
      <4> HIDE DEF SignUpsInv, SignUpsTypeOK, FindAccount
      <4>1. flow'[f] = [flow[f] EXCEPT !.at = "linked", !.person = row.person]
        BY <3>0, <3>1
      <4> QED BY <3>0, <4>1
    <3>3. UnfoundIsAlone /\ linked' = linked /\ raced' = raced
      BY <2>2
    <3> HIDE DEF SignUpsInv, SignUpsTypeOK, FindAccount, FlowType
    <3> QED BY <2>1, <3>2, <3>3 DEF UnfoundIsAlone, Searching
  <2>3. CASE /\ Rows(f) = {} /\ flow' = [flow EXCEPT ![f].at = "unlinked"]
             /\ raced' = IF \E g \in Flows : flow[g].who = flow[f].who
                                             /\ flow[g].at \in {"unlinked", "decided"}
                         THEN raced \cup {flow[f].who} ELSE raced
    <3>1. flow'[f].at = "unlinked" /\ flow'[f].who = flow[f].who
      BY <2>3
    <3>2. raced \subseteq raced' /\ \A a \in linked : a.who # flow[f].who
      BY <2>3
    <3>3. \A g \in Flows : flow[f].who \notin raced' => ~(flow[g].who = flow[f].who /\ Searching(g))
      BY <2>3 DEF Searching
    <3> QED BY <2>1, <3>1, <3>2, <3>3 DEF UnfoundIsAlone, Searching
  <2> QED BY <2>2, <2>3
<1>5. AnsweredIsLinked'
  BY DEF AnsweredIsLinked
<1> QED BY <1>1, <1>2, <1>3, <1>4, <1>5

LEMMA KnownUserKeepsSignUps ==
    ASSUME NEW f \in Flows, SignUpsInv, KnownUser(f)
    PROVE  SignUpsInv'
<1> USE SignUpsAssumption DEF SignUpsInv, SignUpsTypeOK, FlowType, providers, KnownUser, FlowAt, Steps, Quits
<1>1. SignUpsTypeOK'
  BY NoFlowIsFlow
<1>2. OneRow'
  BY DEF OneRow, NoFlow
<1>3. FoundIsLinked'
  BY DEF FoundIsLinked, NoFlow
<1>4. UnfoundIsAlone'
  <2>1. \A g \in Flows : g # f => flow'[g] = flow[g]
    OBVIOUS
  <2>2. flow'[f].at \in {"idle", "known"}
    BY DEF NoFlow
  <2> QED BY <2>1, <2>2 DEF UnfoundIsAlone, Searching
<1>5. AnsweredIsLinked'
  BY DEF AnsweredIsLinked, NoFlow
<1> QED BY <1>1, <1>2, <1>3, <1>4, <1>5

LEMMA FindUserKeepsSignUps ==
    ASSUME NEW f \in Flows, SignUpsInv, FindUser(f)
    PROVE  SignUpsInv'
<1>1. SignUpsTypeOK'
  <2>1. ASSUME NEW p \in People \cup {NoPerson},
               flow' = [flow EXCEPT ![f].at = "decided", ![f].person = p]
        PROVE  flow' \in [Flows -> FlowType]
    <3>1. flow \in [Flows -> FlowType]
      BY DEF SignUpsInv, SignUpsTypeOK
    <3>2. [flow[f] EXCEPT !.at = "decided", !.person = p] \in FlowType
      BY <3>1 DEF FlowType
    <3> QED BY <2>1, <3>1, <3>2
  <2> DEFINE same == Owner(flow[f].email)
             found == IF same = {} THEN NoPerson ELSE CHOOSE u \in same : TRUE
  <2>2. same # {} => (CHOOSE u \in same : TRUE) \in People
    BY DEF Owner
  <2>3. found \in People \cup {NoPerson}
    BY <2>2
  <2>4. /\ flow' = [flow EXCEPT ![f].at = "decided", ![f].person = found]
        /\ UNCHANGED <<people, linked, providers, form, started, moves, answered, raced>>
    BY DEF FindUser
  <2> HIDE DEF found
  <2>5. flow' \in [Flows -> FlowType]
    BY <2>1, <2>3, <2>4
  <2> QED BY <2>4, <2>5 DEF SignUpsInv, SignUpsTypeOK, providers
<1> USE SignUpsAssumption DEF SignUpsInv, SignUpsTypeOK, FlowType, providers, FindUser, FlowAt
<1>2. OneRow'
  BY DEF OneRow
<1>3. FoundIsLinked'
  BY DEF FoundIsLinked
<1>4. UnfoundIsAlone'
  BY DEF UnfoundIsAlone, Searching
<1>5. AnsweredIsLinked'
  BY DEF AnsweredIsLinked
<1> QED BY <1>1, <1>2, <1>3, <1>4, <1>5

LEMMA LinkKeepsSignUps ==
    ASSUME NEW f \in Flows, SignUpsInv, Link(f)
    PROVE  SignUpsInv'
<1> USE SignUpsAssumption DEF SignUpsInv, SignUpsTypeOK, FlowType, providers, Link, FlowAt, Steps, Quits
<1>1. SignUpsTypeOK'
  <2>1. flow' \in [Flows -> FlowType]
    BY NoFlowIsFlow
  <2>2. linked' \subseteq [who : Identities, person : People]
    OBVIOUS
  <2> QED BY <2>1, <2>2
<1>2. OneRow'
  BY DEF OneRow, UnfoundIsAlone, Searching, NoFlow
<1>3. FoundIsLinked'
  BY DEF FoundIsLinked, NoFlow
<1>4. UnfoundIsAlone'
  BY DEF UnfoundIsAlone, Searching, NoFlow
<1>5. AnsweredIsLinked'
  BY DEF AnsweredIsLinked, NoFlow
<1> QED BY <1>1, <1>2, <1>3, <1>4, <1>5

LEMMA WelcomeKeepsSignUps ==
    ASSUME NEW f \in Flows, SignUpsInv, Welcome(f)
    PROVE  SignUpsInv'
<1> USE SignUpsAssumption DEF SignUpsInv, SignUpsTypeOK, FlowType, providers, Welcome, FlowAt, Quits
<1>1. SignUpsTypeOK'
  <2>1. flow[f].who \in Identities /\ flow[f].person \in People
    BY DEF FoundIsLinked
  <2>2. answered' \in [Identities -> SUBSET People]
    BY <2>1
  <2>3. flow' \in [Flows -> FlowType]
    BY NoFlowIsFlow
  <2> QED BY <2>2, <2>3
<1>2. OneRow'
  BY DEF OneRow, NoFlow
<1>3. FoundIsLinked'
  BY DEF FoundIsLinked, NoFlow
<1>4. UnfoundIsAlone'
  BY DEF UnfoundIsAlone, Searching, NoFlow
<1>5. AnsweredIsLinked'
  BY DEF AnsweredIsLinked, FoundIsLinked, NoFlow
<1> QED BY <1>1, <1>2, <1>3, <1>4, <1>5

LEMMA FlowFailsKeepsSignUps ==
    ASSUME NEW f \in Flows, SignUpsInv, FlowFails(f)
    PROVE  SignUpsInv'
<1> USE SignUpsAssumption DEF SignUpsInv, SignUpsTypeOK, FlowType, providers, FlowFails, Quits
<1>1. SignUpsTypeOK'
  BY NoFlowIsFlow
<1>2. OneRow'
  BY DEF OneRow, NoFlow
<1>3. FoundIsLinked'
  BY DEF FoundIsLinked, NoFlow
<1>4. UnfoundIsAlone'
  BY DEF UnfoundIsAlone, Searching, NoFlow
<1>5. AnsweredIsLinked'
  BY DEF AnsweredIsLinked, NoFlow
<1> QED BY <1>1, <1>2, <1>3, <1>4, <1>5

LEMMA MovesKeepsSignUps ==
    ASSUME NEW i \in Identities, NEW e \in Emails, SignUpsInv, Moves(i, e)
    PROVE  SignUpsInv'
<1> USE SignUpsAssumption DEF SignUpsInv, SignUpsTypeOK, FlowType, providers, Moves
<1>1. SignUpsTypeOK'
  OBVIOUS
<1>2. OneRow'
  BY DEF OneRow
<1>3. FoundIsLinked'
  BY DEF FoundIsLinked
<1>4. UnfoundIsAlone'
  BY DEF UnfoundIsAlone, Searching
<1>5. AnsweredIsLinked'
  BY DEF AnsweredIsLinked
<1> QED BY <1>1, <1>2, <1>3, <1>4, <1>5

-----------------------------------------------------------------------------
(* The accounts' own steps leave the sign-ups alone.                        *)

LEMMA SignUpsStep ==
    ASSUME SignUpsInv, [Next]_vars
    PROVE  SignUpsInv'
<1>1. CASE UNCHANGED signups
  BY <1>1, SignUpsStutter
<1>2. ASSUME NEW f \in Flows, FlowNext(f)
      PROVE  SignUpsInv'
  BY <1>2, RedirectKeepsSignUps, CalledBackKeepsSignUps, FindAccountKeepsSignUps,
     KnownUserKeepsSignUps, FindUserKeepsSignUps, LinkKeepsSignUps, WelcomeKeepsSignUps,
     FlowFailsKeepsSignUps DEF FlowNext
<1>3. ASSUME NEW r \in Forms, \/ \E e \in Emails : RegisterRead(r, e)
                              \/ \E batch \in SUBSET Emails : CreateUsers(r, batch)
      PROVE  SignUpsInv'
  BY <1>3, RegisterReadKeepsSignUps, CreateUsersKeepsSignUps
<1>4. ASSUME NEW r \in Forms, RegisterInsert(r)
      PROVE  SignUpsInv'
  BY <1>4, RegisterInsertKeepsSignUps
<1>5. ASSUME NEW u \in People, DeletePerson(u)
      PROVE  SignUpsInv'
  BY <1>5, DeletePersonKeepsSignUps
<1>6. ASSUME NEW i \in Identities, NEW e \in Emails, Moves(i, e)
      PROVE  SignUpsInv'
  BY <1>6, MovesKeepsSignUps
<1> QED
  BY <1>1, <1>2, <1>3, <1>4, <1>5, <1>6 DEF Next, InAccounts, SignUpsNext, vars

LEMMA SignUpsAlways == Spec => []SignUpsInv
<1>1. Init => SignUpsInv
  BY SignUpsInitially DEF Init
<1>2. SignUpsInv /\ [Next]_vars => SignUpsInv'
  BY SignUpsStep
<1> QED BY <1>1, <1>2, PTL DEF Spec

\* All answers name the user of the one row there is.
LEMMA OneAnswer == SignUpsInv => OneUserPerIdentity
<1> SUFFICES ASSUME SignUpsInv, NEW i \in Identities \ raced
             PROVE  Cardinality(answered[i]) <= 1
  BY DEF OneUserPerIdentity
<1>1. CASE answered[i] = {}
  BY <1>1, FS_EmptySet
<1>2. ASSUME NEW u \in answered[i]
      PROVE  Cardinality(answered[i]) <= 1
  <2>1. \A v \in answered[i] : v = u
    <3> TAKE v \in answered[i]
    <3>1. [who |-> i, person |-> u] \in linked /\ [who |-> i, person |-> v] \in linked
      BY DEF SignUpsInv, AnsweredIsLinked
    <3>2. [who |-> i, person |-> u] = [who |-> i, person |-> v]
      BY <3>1 DEF SignUpsInv, OneRow
    <3> QED BY <3>2
  <2>2. answered[i] = {u}
    BY <2>1
  <2> QED BY <2>2, FS_Singleton
<1> QED BY <1>1, <1>2

(***************************************************************************)
(* An identity at the provider logs in as one user, for any number of      *)
(* users, identities and concurrent flows, unless two of its flows both    *)
(* found it unlinked.                                                      *)
(***************************************************************************)
THEOREM IdentityIsOneUser == Spec => []OneUserPerIdentity
<1> QED BY SignUpsAlways, OneAnswer, PTL

(***************************************************************************)
(* The account routes keep their types, for any number of users, tokens,   *)
(* sessions and requests.                                                  *)
(***************************************************************************)
THEOREM AuthTyped == Spec => []TypeOK
<1>1. AccountsInv /\ SignUpsInv => TypeOK
  BY DEF AccountsInv, SignUpsInv, TypeOK
<1> QED BY <1>1, AccountsAlways, SignUpsAlways, PTL
=============================================================================
