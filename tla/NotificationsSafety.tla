------------------------- MODULE NotificationsSafety -------------------------
(***************************************************************************)
(* Theorems about Notifications for every choice of its constants: whose    *)
(* the push subscriptions are, what a publish reaches, what a client that    *)
(* pages sees and what a job that is done has finished.                    *)
(***************************************************************************)
EXTENDS Notifications, FiniteSetTheorems, SequenceTheorems, TLAPS

-----------------------------------------------------------------------------
(* Push subscriptions.                                                      *)

RowOk(e) ==
  /\ sub[e].keys = sub[e].owner /\ sub[e].owner \in Users \cup {NoUser}
  /\ sub[e].id \in 0..rows
  /\ sub[e].id = 0 <=> sub[e].owner = NoUser
  /\ sub[e] = [id |-> sub[e].id, owner |-> sub[e].owner, keys |-> sub[e].keys]

\* A row that transaction c is about to leave at e, which nobody else writes:
\* none; the one there is; or a new one, with an id no request has read.
LeavesRow(c, e) ==
  /\ e \in Endpoints /\ sub[e].owner \in {NoUser, caller[c].user}
  /\ \/ tx[c][e] = NoSub
     \/ /\ tx[c][e] = [id |-> tx[c][e].id, owner |-> caller[c].user, keys |-> caller[c].user]
        /\ tx[c][e].id \in 1..rows
        /\ \/ tx[c][e].id = sub[e].id
           \/ \A d \in Callers : caller[d].endpoint = e => caller[d].id # tx[c][e].id

\* A request that found a row under an id found its own user's: while the id is
\* there, so is the owner.
FoundOwn(c) ==
  caller[c].at = "found" /\ caller[c].what # "unregister_all" =>
    /\ caller[c].what = "unregister" => caller[c].id # 0
    /\ caller[c].id # 0 /\ sub[caller[c].endpoint].id = caller[c].id =>
          sub[caller[c].endpoint].owner = caller[c].user

IsCaller(r) ==
  r = [at |-> r.at, what |-> r.what, user |-> r.user, endpoint |-> r.endpoint, id |-> r.id]

CallerOk(c) ==
  /\ IsCaller(caller[c]) /\ caller[c].user \in Users
  /\ caller[c].what \in {"register", "unregister", "unregister_all"}
  /\ caller[c].at # "idle" => caller[c].endpoint \in Endpoints
  /\ caller[c].id \in 0..rows
  /\ caller[c].at # "flushed" => tx[c] = Nothing
  /\ caller[c].at = "flushed" => \A e \in DOMAIN tx[c] : LeavesRow(c, e)
  /\ FoundOwn(c)

PushInv ==
  /\ rows \in Nat /\ wronged = {}
  /\ sub = [e \in Endpoints |-> sub[e]]
  /\ caller = [c \in Callers |-> caller[c]] /\ tx = [c \in Callers |-> tx[c]]
  /\ \A e \in Endpoints : RowOk(e)
  /\ \A c \in Callers : CallerOk(c)
  /\ \A c, d \in Callers : c # d => DOMAIN tx[c] \cap DOMAIN tx[d] = {}

LEMMA NothingWritten == DOMAIN Nothing = {}
BY DEF Nothing

\* A row that some transaction leaves is left as well after a request c went on.
LEMMA StillLeaves ==
  ASSUME PushInv, NEW c \in Callers, NEW n, NEW d \in Callers \ {c}, NEW e,
         caller' = [caller EXCEPT ![c] = n], tx'[d] = tx[d], sub' = sub,
         rows' \in Nat, rows <= rows',
         \/ n.id = 0
         \/ n.endpoint = caller[c].endpoint /\ n.id = caller[c].id
         \/ n.id = sub[n.endpoint].id,
         LeavesRow(d, e)
  PROVE  LeavesRow(d, e)'
<1>1. /\ caller'[c] = n /\ \A x \in Callers \ {c} : caller'[x] = caller[x]
      /\ rows \in Nat
  BY DEF PushInv
<1>2. CASE tx[d][e] = NoSub
  BY <1>1, <1>2 DEF LeavesRow, NoSub
<1>3. CASE tx[d][e].id \in 1..rows /\ tx[d][e].id = sub[e].id
  BY <1>1, <1>3 DEF LeavesRow, NoSub
<1>4. CASE /\ tx[d][e].id \in 1..rows /\ tx[d][e].id # sub[e].id
           /\ \A x \in Callers : caller[x].endpoint = e => caller[x].id # tx[d][e].id
  <2>1. \A x \in Callers : caller'[x].endpoint = e => caller'[x].id # tx[d][e].id
    BY <1>1, <1>4
  <2> QED
    BY <1>1, <1>4, <2>1 DEF LeavesRow, NoSub
<1> QED
  BY <1>2, <1>3, <1>4 DEF LeavesRow

\* A request goes on, and no row changes yet.
LEMMA RequestGoesOn ==
  ASSUME PushInv, NEW c \in Callers, NEW n, NEW w,
         caller' = [caller EXCEPT ![c] = n], tx' = [tx EXCEPT ![c] = w],
         sub' = sub, wronged' = wronged, rows' \in Nat, rows <= rows',
         \/ n.id = 0
         \/ n.endpoint = caller[c].endpoint /\ n.id = caller[c].id
         \/ n.id = sub[n.endpoint].id,
         \A d \in Callers \ {c} : DOMAIN w \cap DOMAIN tx[d] = {},
         CallerOk(c)'
  PROVE  PushInv'
<1>1. /\ caller'[c] = n /\ \A x \in Callers \ {c} : caller'[x] = caller[x]
      /\ tx'[c] = w /\ \A x \in Callers \ {c} : tx'[x] = tx[x]
      /\ caller' = [x \in Callers |-> caller'[x]] /\ tx' = [x \in Callers |-> tx'[x]]
      /\ rows \in Nat
  BY DEF PushInv
<1>2. \A e \in Endpoints : RowOk(e)'
  BY <1>1 DEF PushInv, RowOk
<1>3. ASSUME NEW d \in Callers \ {c} PROVE CallerOk(d)'
  <2>1. CallerOk(d) /\ caller'[d] = caller[d] /\ tx'[d] = tx[d]
    BY <1>1 DEF PushInv
  <2>2. caller[d].at = "flushed" => \A e \in DOMAIN tx'[d] : LeavesRow(d, e)'
    BY <2>1, StillLeaves DEF CallerOk
  <2> QED
    BY <1>1, <2>1, <2>2 DEF CallerOk, IsCaller, FoundOwn, Nothing, NoSub
<1>4. \A x, d \in Callers : x # d => DOMAIN tx'[x] \cap DOMAIN tx'[d] = {}
  BY <1>1 DEF PushInv
<1> QED
  BY <1>1, <1>2, <1>3, <1>4 DEF PushInv

LEMMA EndsKeep ==
  ASSUME PushInv, NEW c \in Callers, Ends(c), UNCHANGED <<sub, rows, wronged>>
  PROVE  PushInv'
<1>1. PICK n : n = NoCaller
  OBVIOUS
<1>2. /\ n.at = "idle" /\ n.user = Recipient /\ n.id = 0 /\ IsCaller(n)
      /\ n.what = "register"
  BY <1>1 DEF NoCaller, IsCaller
<1>3. caller'[c] = n /\ tx'[c] = Nothing /\ rows' \in Nat /\ rows' = rows
  BY <1>1 DEF Ends, PushInv
<1>4. CallerOk(c)'
  BY <1>2, <1>3, PushAssumption DEF CallerOk, IsCaller, FoundOwn, Nothing, NoSub
<1>5. /\ caller' = [caller EXCEPT ![c] = n] /\ tx' = [tx EXCEPT ![c] = Nothing]
      /\ sub' = sub /\ wronged' = wronged /\ rows <= rows'
  BY <1>1, <1>3 DEF Ends, PushInv
<1>6. \A d \in Callers \ {c} : DOMAIN Nothing \cap DOMAIN tx[d] = {}
  BY NothingWritten
<1>7. n.id = 0 /\ rows' \in Nat
  BY <1>2, <1>3
<1> QED
  BY <1>4, <1>5, <1>6, <1>7, RequestGoesOn

LEMMA AskKeeps ==
  ASSUME PushInv, NEW c \in Callers, NEW u \in Users, NEW e \in Endpoints,
         NEW what \in {"register", "unregister", "unregister_all"},
         AskPush(c, what, u, e)
  PROVE  PushInv'
<1>1. PICK n : n = [at |-> "asked", what |-> what, user |-> u, endpoint |-> e, id |-> 0]
  OBVIOUS
<1>2. /\ caller' = [caller EXCEPT ![c] = n] /\ tx' = tx /\ sub' = sub
      /\ rows' = rows /\ wronged' = wronged /\ rows \in Nat
      /\ tx = [tx EXCEPT ![c] = Nothing] /\ tx[c] = Nothing
  BY <1>1 DEF AskPush, PushInv, CallerOk
<1>3. CallerOk(c)'
  BY <1>1, <1>2 DEF PushInv, CallerOk, IsCaller, FoundOwn, Nothing, NoSub
<1>4. \A d \in Callers \ {c} : DOMAIN Nothing \cap DOMAIN tx[d] = {}
  BY NothingWritten
<1>5. n.id = 0 /\ tx' = [tx EXCEPT ![c] = Nothing] /\ rows' \in Nat /\ rows <= rows'
  BY <1>1, <1>2
<1> QED
  BY <1>2, <1>3, <1>4, <1>5, RequestGoesOn

LEMMA FindKeeps ==
  ASSUME PushInv, NEW c \in Callers, Find(c)
  PROVE  PushInv'
<1>1. CASE Refused(c)
  BY <1>1, EndsKeep DEF Find
<1>2. CASE ~Refused(c)
  <2>1. PICK r : r = caller[c] /\ IsCaller(r) /\ r.user \in Users /\ r.endpoint \in Endpoints
                 /\ r.what \in {"register", "unregister", "unregister_all"}
    BY DEF Find, PushInv, CallerOk
  <2>2. PICK n : n = [at |-> "found", what |-> r.what, user |-> r.user,
                      endpoint |-> r.endpoint, id |-> sub[r.endpoint].id]
    OBVIOUS
  <2>3. caller' = [caller EXCEPT ![c] = n]
    <3>1. caller' = [caller EXCEPT ![c] = [[r EXCEPT !.at = "found"] EXCEPT !.id = sub[r.endpoint].id]]
      BY <1>2, <2>1 DEF Find, PushInv
    <3>2. PICK m : m = [r EXCEPT !.at = "found"]
      OBVIOUS
    <3>3. m = [at |-> "found", what |-> r.what, user |-> r.user, endpoint |-> r.endpoint,
               id |-> r.id]
      BY <2>1, <3>2 DEF IsCaller
    <3>4. [m EXCEPT !.id = sub[r.endpoint].id] = n
      BY <2>2, <3>3
    <3> QED
      BY <3>1, <3>2, <3>4
  <2>4. /\ UNCHANGED <<tx, sub, rows, wronged>> /\ rows \in Nat
        /\ tx[c] = Nothing /\ tx = [tx EXCEPT ![c] = Nothing]
    BY <1>2 DEF Find, PushInv, CallerOk
  <2>5. RowOk(r.endpoint)
    BY <2>1 DEF PushInv
  <2>6. /\ r.what = "register" => sub[r.endpoint].owner \in {NoUser, r.user}
        /\ r.what = "unregister" => sub[r.endpoint].owner = r.user
    BY <1>2, <2>1 DEF Refused
  <2>7. CallerOk(c)'
    <3>1. caller'[c] = n /\ IsCaller(n)
      BY <2>2, <2>3 DEF PushInv, IsCaller
    <3>2. /\ n.what = "unregister" => n.id # 0
          /\ n.what # "unregister_all" /\ n.id # 0 => sub[n.endpoint].owner = n.user
      BY <2>1, <2>2, <2>5, <2>6, PushAssumption DEF RowOk
    <3>3. n.id \in 0..rows
      BY <2>2, <2>5 DEF RowOk
    <3> QED
      BY <2>1, <2>2, <2>4, <3>1, <3>2, <3>3 DEF CallerOk, IsCaller, FoundOwn, Nothing, NoSub
  <2>8. \A d \in Callers \ {c} : DOMAIN Nothing \cap DOMAIN tx[d] = {}
    BY NothingWritten
  <2>9. /\ n.id = sub[n.endpoint].id /\ tx' = [tx EXCEPT ![c] = Nothing]
        /\ rows' \in Nat /\ rows <= rows'
    BY <2>2, <2>4
  <2> QED
    BY <2>3, <2>4, <2>7, <2>8, <2>9, RequestGoesOn
<1> QED
  BY <1>1, <1>2


\* A request flushes what it is about to leave.
LEMMA FlushesKeep ==
  ASSUME PushInv, NEW c \in Callers, NEW w, caller[c].at = "found",
         Flushes(c, w), UNCHANGED <<sub, wronged>>, rows' \in Nat, rows <= rows',
         \A d \in Callers \ {c} : DOMAIN w \cap DOMAIN tx[d] = {},
         \A e \in DOMAIN w :
            /\ e \in Endpoints /\ sub[e].owner \in {NoUser, caller[c].user}
            /\ \/ w[e] = NoSub
               \/ /\ w[e] = [id |-> w[e].id, owner |-> caller[c].user, keys |-> caller[c].user]
                  /\ w[e].id \in 1..rows'
                  /\ \/ w[e].id = sub[e].id
                     \/ \A d \in Callers : caller[d].endpoint = e => caller[d].id # w[e].id
  PROVE  PushInv'
<1>1. PICK r : /\ r = caller[c] /\ IsCaller(r) /\ r.user \in Users /\ r.endpoint \in Endpoints
               /\ r.what \in {"register", "unregister", "unregister_all"}
               /\ r.id \in 0..rows
  BY DEF PushInv, CallerOk
<1>2. PICK n : n = [r EXCEPT !.at = "flushed"]
  OBVIOUS
<1>3. n = [at |-> "flushed", what |-> r.what, user |-> r.user, endpoint |-> r.endpoint,
           id |-> r.id]
  BY <1>1, <1>2 DEF IsCaller
<1>4. /\ caller' = [caller EXCEPT ![c] = n] /\ tx' = [tx EXCEPT ![c] = w]
      /\ sub' = sub /\ wronged' = wronged
  BY <1>1, <1>2 DEF Flushes, Goes
<1>5. /\ caller'[c] = n /\ \A d \in Callers \ {c} : caller'[d] = caller[d]
      /\ tx'[c] = w /\ rows \in Nat
  BY <1>4 DEF PushInv
<1>6. \A d \in Callers : caller'[d].endpoint = caller[d].endpoint /\ caller'[d].id = caller[d].id
  BY <1>1, <1>3, <1>5
<1>7. \A e \in DOMAIN w : LeavesRow(c, e)'
  <2> SUFFICES ASSUME NEW e \in DOMAIN w PROVE LeavesRow(c, e)'
    OBVIOUS
  <2>1. caller'[c].user = caller[c].user
    BY <1>1, <1>3, <1>5
  <2>2. CASE w[e] = NoSub
    BY <1>4, <1>5, <2>1, <2>2 DEF LeavesRow, NoSub
  <2>3. CASE /\ w[e] = [id |-> w[e].id, owner |-> caller[c].user, keys |-> caller[c].user]
             /\ w[e].id \in 1..rows'
             /\ w[e].id = sub[e].id
    BY <1>4, <1>5, <2>1, <2>3 DEF LeavesRow
  <2>4. CASE /\ w[e] = [id |-> w[e].id, owner |-> caller[c].user, keys |-> caller[c].user]
             /\ w[e].id \in 1..rows'
             /\ \A d \in Callers : caller[d].endpoint = e => caller[d].id # w[e].id
    BY <1>4, <1>5, <1>6, <2>1, <2>4 DEF LeavesRow
  <2> QED
    BY <2>2, <2>3, <2>4
<1>8. CallerOk(c)'
  BY <1>1, <1>3, <1>5, <1>7 DEF CallerOk, IsCaller, FoundOwn
<1>9. n.endpoint = caller[c].endpoint /\ n.id = caller[c].id
  BY <1>1, <1>3
<1> QED
  BY <1>4, <1>8, <1>9, RequestGoesOn

LEMMA FlushInsertKeeps ==
  ASSUME PushInv, NEW c \in Callers, FlushInsert(c)
  PROVE  PushInv'
<1> DEFINE e == caller[c].endpoint
           u == caller[c].user
<1>1. CASE sub[e].id # 0
  BY <1>1, EndsKeep DEF FlushInsert
<1>2. CASE sub[e].id = 0
  <2>1. PICK k : k = rows + 1
    OBVIOUS
  <2>2. PICK row : row = [id |-> k, owner |-> u, keys |-> u]
    OBVIOUS
  <2>3. PICK w : w = [x \in {e} |-> row]
    OBVIOUS
  <2>4. DOMAIN w = {e} /\ w[e] = row /\ row.id = k
    BY <2>2, <2>3
  <2>5. /\ caller[c].at = "found" /\ Flushes(c, w) /\ UNCHANGED <<sub, wronged>>
        /\ rows' = k /\ ~Waits(c, {e})
    BY <1>2, <2>1, <2>2, <2>3 DEF FlushInsert
  <2>6. e \in Endpoints /\ sub[e].owner = NoUser /\ rows \in Nat
    BY <1>2, <2>5 DEF PushInv, CallerOk, RowOk
  <2>7. rows' \in Nat /\ rows <= rows' /\ k \in 1..rows'
    BY <2>1, <2>5, <2>6
  <2>8. \A d \in Callers : caller[d].id # k
    BY <2>1, <2>6 DEF PushInv, CallerOk
  <2>9. \A d \in Callers \ {c} : DOMAIN w \cap DOMAIN tx[d] = {}
    BY <2>4, <2>5 DEF Waits
  <2>10. \A x \in DOMAIN w :
            /\ x \in Endpoints /\ sub[x].owner \in {NoUser, caller[c].user}
            /\ \/ w[x] = NoSub
               \/ /\ w[x] = [id |-> w[x].id, owner |-> caller[c].user, keys |-> caller[c].user]
                  /\ w[x].id \in 1..rows'
                  /\ \/ w[x].id = sub[x].id
                     \/ \A d \in Callers : caller[d].endpoint = x => caller[d].id # w[x].id
    BY <2>2, <2>4, <2>6, <2>7, <2>8
  <2> HIDE DEF e, u
  <2> QED
    BY <2>5, <2>7, <2>9, <2>10, FlushesKeep
<1> QED
  BY <1>1, <1>2

LEMMA FlushUpdateKeeps ==
  ASSUME PushInv, NEW c \in Callers, FlushUpdate(c)
  PROVE  PushInv'
<1> DEFINE e == caller[c].endpoint
           u == caller[c].user
<1>1. CASE ~StillThere(c)
  BY <1>1, EndsKeep DEF FlushUpdate
<1>2. CASE StillThere(c)
  <2>1. PICK s : s = sub[e]
    OBVIOUS
  <2>2. PICK row : row = [s EXCEPT !.keys = u]
    OBVIOUS
  <2>3. PICK w : w = [x \in {e} |-> row]
    OBVIOUS
  <2>4. DOMAIN w = {e} /\ w[e] = row
    BY <2>3
  <2>5. /\ caller[c].at = "found" /\ Flushes(c, w) /\ UNCHANGED <<sub, rows, wronged>>
        /\ ~Waits(c, {e}) /\ caller[c].what = "register" /\ caller[c].id # 0
    BY <1>2, <2>1, <2>2, <2>3 DEF FlushUpdate
  <2>6. /\ e \in Endpoints /\ RowOk(e) /\ rows \in Nat /\ FoundOwn(c)
    BY <2>5 DEF PushInv, CallerOk
  <2>7. s.id = caller[c].id /\ s.owner = u /\ s.id \in 1..rows
    BY <1>2, <2>1, <2>5, <2>6 DEF StillThere, FoundOwn, RowOk
  <2>8. row = [id |-> s.id, owner |-> u, keys |-> u]
    BY <2>1, <2>2, <2>6, <2>7 DEF RowOk
  <2>9. \A d \in Callers \ {c} : DOMAIN w \cap DOMAIN tx[d] = {}
    BY <2>4, <2>5 DEF Waits
  <2>10. \A x \in DOMAIN w :
            /\ x \in Endpoints /\ sub[x].owner \in {NoUser, caller[c].user}
            /\ \/ w[x] = NoSub
               \/ /\ w[x] = [id |-> w[x].id, owner |-> caller[c].user, keys |-> caller[c].user]
                  /\ w[x].id \in 1..rows'
                  /\ \/ w[x].id = sub[x].id
                     \/ \A d \in Callers : caller[d].endpoint = x => caller[d].id # w[x].id
    BY <2>1, <2>4, <2>5, <2>6, <2>7, <2>8
  <2>11. rows' \in Nat /\ rows <= rows'
    BY <2>5, <2>6
  <2> HIDE DEF e, u
  <2> QED
    BY <2>5, <2>9, <2>10, <2>11, FlushesKeep
<1> QED
  BY <1>1, <1>2

LEMMA FlushDeleteKeeps ==
  ASSUME PushInv, NEW c \in Callers, FlushDelete(c)
  PROVE  PushInv'
<1>1. PICK E : /\ E = IF caller[c].what = "unregister_all" THEN Owned(caller[c].user)
                      ELSE {x \in {caller[c].endpoint} : StillThere(c)}
               /\ ~Waits(c, E) /\ Flushes(c, [x \in E |-> NoSub])
               /\ UNCHANGED <<sub, rows, wronged>>
  BY DEF FlushDelete
<1>2. PICK w : w = [x \in E |-> NoSub]
  OBVIOUS
<1>3. /\ caller[c].at = "found" /\ caller[c].what # "register" /\ rows \in Nat
      /\ caller[c].endpoint \in Endpoints /\ FoundOwn(c)
      /\ caller[c].what \in {"register", "unregister", "unregister_all"}
  BY DEF FlushDelete, PushInv, CallerOk
<1>4. \A x \in E : x \in Endpoints /\ sub[x].owner = caller[c].user
  <2>1. CASE caller[c].what = "unregister_all"
    BY <1>1, <2>1 DEF Owned
  <2>2. CASE caller[c].what = "unregister"
    BY <1>1, <1>3, <2>2 DEF StillThere, FoundOwn
  <2> QED
    BY <1>3, <2>1, <2>2
<1>5. Flushes(c, w) /\ DOMAIN w = E /\ \A x \in E : w[x] = NoSub
  BY <1>1, <1>2
<1>6. \A d \in Callers \ {c} : DOMAIN w \cap DOMAIN tx[d] = {}
  BY <1>1, <1>5 DEF Waits
<1>7. \A x \in DOMAIN w :
         /\ x \in Endpoints /\ sub[x].owner \in {NoUser, caller[c].user}
         /\ \/ w[x] = NoSub
            \/ /\ w[x] = [id |-> w[x].id, owner |-> caller[c].user, keys |-> caller[c].user]
               /\ w[x].id \in 1..rows'
               /\ \/ w[x].id = sub[x].id
                  \/ \A d \in Callers : caller[d].endpoint = x => caller[d].id # w[x].id
  BY <1>4, <1>5
<1>8. rows' \in Nat /\ rows <= rows' /\ UNCHANGED <<sub, wronged>>
  BY <1>1, <1>3
<1> QED
  BY <1>3, <1>5, <1>6, <1>7, <1>8, FlushesKeep

\* Rows get what transaction c leaves, or what a prune does.
LEMMA OthersGoOn ==
  ASSUME PushInv, NEW d \in Callers, caller'[d] = caller[d], tx'[d] = tx[d], rows' = rows,
         \A x \in Callers : caller'[x] = caller[x] \/ caller'[x].id = 0,
         \A e \in DOMAIN tx[d] : sub'[e] = sub[e],
         \A e \in Endpoints :
            \/ sub'[e].id = 0
            \/ sub'[e].id = sub[e].id /\ sub'[e].owner = sub[e].owner
            \/ \A x \in Callers : caller[x].endpoint = e => caller[x].id # sub'[e].id
  PROVE  CallerOk(d)'
<1>1. CallerOk(d) /\ rows \in Nat
  BY DEF PushInv
<1>2. ASSUME NEW e \in DOMAIN tx[d], LeavesRow(d, e) PROVE LeavesRow(d, e)'
  <2>1. sub'[e] = sub[e]
    OBVIOUS
  <2>2. CASE tx[d][e] = NoSub
    BY <1>2, <2>1, <2>2 DEF LeavesRow, NoSub
  <2>3. CASE tx[d][e].id \in 1..rows /\ tx[d][e].id = sub[e].id
    BY <1>2, <2>1, <2>3 DEF LeavesRow, NoSub
  <2>4. CASE /\ tx[d][e].id \in 1..rows
             /\ \A x \in Callers : caller[x].endpoint = e => caller[x].id # tx[d][e].id
    <3>1. \A x \in Callers : caller'[x].endpoint = e => caller'[x].id # tx[d][e].id
      BY <1>1, <2>4
    <3> QED
      BY <1>2, <2>1, <2>4, <3>1 DEF LeavesRow, NoSub
  <2> QED
    BY <1>2, <2>2, <2>3, <2>4 DEF LeavesRow
<1>3. caller'[d].at = "flushed" => \A e \in DOMAIN tx'[d] : LeavesRow(d, e)'
  BY <1>1, <1>2 DEF CallerOk
<1>4. FoundOwn(d)'
  BY <1>1 DEF CallerOk, FoundOwn
<1> QED
  BY <1>1, <1>3, <1>4 DEF CallerOk, IsCaller, Nothing, NoSub

LEMMA FinishKeeps ==
  ASSUME PushInv, NEW c \in Callers, Finish(c)
  PROVE  PushInv'
<1>1. PICK E : /\ E = (IF Commits THEN DOMAIN tx[c] ELSE {})
               /\ sub' = [e \in Endpoints |-> IF e \in E THEN tx[c][e] ELSE sub[e]]
               /\ wronged' = wronged \cup ({sub[e].owner : e \in E} \ {caller[c].user, NoUser})
  BY DEF Finish
<1>2. PICK n : n = NoCaller
  OBVIOUS
<1>3. /\ caller' = [caller EXCEPT ![c] = n] /\ tx' = [tx EXCEPT ![c] = Nothing]
      /\ rows' = rows /\ rows \in Nat
      /\ caller'[c] = n /\ \A x \in Callers \ {c} : caller'[x] = caller[x]
      /\ tx'[c] = Nothing /\ \A x \in Callers \ {c} : tx'[x] = tx[x]
  BY <1>2 DEF Finish, Ends, PushInv
<1>4. /\ n.at = "idle" /\ n.user = Recipient /\ n.id = 0 /\ IsCaller(n)
      /\ n.what = "register"
  BY <1>2 DEF NoCaller, IsCaller
<1>5. \A e \in E : e \in DOMAIN tx[c] /\ LeavesRow(c, e)
  BY <1>1 DEF Finish, PushInv, CallerOk
<1>6. wronged' = {}
  <2>1. \A e \in E : sub[e].owner \in {NoUser, caller[c].user}
    BY <1>5 DEF LeavesRow
  <2>2. wronged = {}
    BY DEF PushInv
  <2> QED
    BY <1>1, <2>1, <2>2
<1>7. \A e \in Endpoints : RowOk(e)'
  <2> SUFFICES ASSUME NEW e \in Endpoints PROVE RowOk(e)'
    OBVIOUS
  <2>1. CASE e \notin E
    BY <1>1, <1>3, <2>1 DEF PushInv, RowOk
  <2>2. CASE e \in E
    <3>1. LeavesRow(c, e) /\ sub'[e] = tx[c][e] /\ caller[c].user \in Users
      BY <1>1, <1>5, <2>2 DEF PushInv, CallerOk
    <3>2. CASE tx[c][e] = NoSub
      BY <1>3, <3>1, <3>2 DEF RowOk, NoSub
    <3>3. CASE /\ tx[c][e] = [id |-> tx[c][e].id, owner |-> caller[c].user,
                              keys |-> caller[c].user]
               /\ tx[c][e].id \in 1..rows
      <4>1. PICK k : k = tx[c][e].id /\ k \in 1..rows
        BY <3>3
      <4>2. sub'[e] = [id |-> k, owner |-> caller[c].user, keys |-> caller[c].user]
        BY <3>1, <3>3, <4>1
      <4> QED
        BY <1>3, <3>1, <4>1, <4>2, PushAssumption DEF RowOk
    <3> QED
      BY <3>1, <3>2, <3>3 DEF LeavesRow
  <2> QED
    BY <2>1, <2>2
<1>8. \A e \in Endpoints :
         \/ sub'[e].id = 0
         \/ sub'[e].id = sub[e].id /\ sub'[e].owner = sub[e].owner
         \/ \A x \in Callers : caller[x].endpoint = e => caller[x].id # sub'[e].id
  <2> SUFFICES ASSUME NEW e \in Endpoints
               PROVE  \/ sub'[e].id = 0
                      \/ sub'[e].id = sub[e].id /\ sub'[e].owner = sub[e].owner
                      \/ \A x \in Callers : caller[x].endpoint = e => caller[x].id # sub'[e].id
    OBVIOUS
  <2>1. CASE e \notin E
    BY <1>1, <2>1
  <2>2. CASE e \in E
    <3>1. LeavesRow(c, e) /\ sub'[e] = tx[c][e] /\ RowOk(e) /\ RowOk(e)'
      BY <1>1, <1>5, <1>7, <2>2 DEF PushInv
    <3>2. CASE tx[c][e] = NoSub
      BY <3>1, <3>2 DEF NoSub
    <3>3. CASE sub'[e].id = sub[e].id /\ sub'[e].id # 0 /\ sub'[e].owner = caller[c].user
      BY <3>1, <3>3 DEF LeavesRow, RowOk
    <3> QED
      BY <3>1, <3>2, <3>3 DEF LeavesRow
  <2> QED
    BY <2>1, <2>2
<1>9. CallerOk(c)'
  BY <1>3, <1>4, PushAssumption DEF CallerOk, IsCaller, FoundOwn, Nothing, NoSub
<1>10. ASSUME NEW d \in Callers \ {c} PROVE CallerOk(d)'
  <2>1. caller'[d] = caller[d] /\ tx'[d] = tx[d] /\ rows' = rows
    BY <1>3
  <2>2. \A x \in Callers : caller'[x] = caller[x] \/ caller'[x].id = 0
    BY <1>3, <1>4
  <2>3. \A e \in DOMAIN tx[d] : e \in Endpoints /\ e \notin E
    BY <1>5, NothingWritten DEF PushInv, CallerOk, LeavesRow
  <2>4. \A e \in DOMAIN tx[d] : sub'[e] = sub[e]
    BY <1>1, <2>3
  <2> QED
    BY <1>8, <2>1, <2>2, <2>4, OthersGoOn
<1>11. \A x, d \in Callers : x # d => DOMAIN tx'[x] \cap DOMAIN tx'[d] = {}
  BY <1>3, NothingWritten DEF PushInv
<1>12. /\ sub' = [e \in Endpoints |-> sub'[e]] /\ caller' = [x \in Callers |-> caller'[x]]
       /\ tx' = [x \in Callers |-> tx'[x]]
  BY <1>1, <1>3 DEF PushInv
<1> QED
  BY <1>3, <1>6, <1>7, <1>9, <1>10, <1>11, <1>12 DEF PushInv

LEMMA PruneKeeps ==
  ASSUME PushInv, PushPrune
  PROVE  PushInv'
<1>1. PICK E : /\ \A d \in Callers : E \cap DOMAIN tx[d] = {}
               /\ sub' = [e \in Endpoints |-> IF e \in E THEN NoSub ELSE sub[e]]
  <2>1. push.to \cap Owned(Recipient) \subseteq push.to
    OBVIOUS
  <2> QED
    BY <2>1 DEF PushPrune
<1>2. /\ caller' = caller /\ tx' = tx /\ rows' = rows /\ wronged' = wronged
      /\ rows \in Nat
  BY DEF PushPrune, PushInv
<1>3. \A e \in Endpoints : RowOk(e)'
  BY <1>1, <1>2 DEF PushInv, RowOk, NoSub
<1>4. \A e \in Endpoints :
         \/ sub'[e].id = 0
         \/ sub'[e].id = sub[e].id /\ sub'[e].owner = sub[e].owner
         \/ \A x \in Callers : caller[x].endpoint = e => caller[x].id # sub'[e].id
  BY <1>1 DEF NoSub
<1>5. ASSUME NEW d \in Callers PROVE CallerOk(d)'
  <2>1. \A e \in DOMAIN tx[d] : e \in Endpoints /\ e \notin E
    BY <1>1, NothingWritten DEF PushInv, CallerOk, LeavesRow
  <2>2. \A e \in DOMAIN tx[d] : sub'[e] = sub[e]
    BY <1>1, <2>1
  <2> QED
    BY <1>2, <1>4, <2>2, OthersGoOn
<1>6. sub' = [e \in Endpoints |-> sub'[e]]
  BY <1>1
<1> QED
  BY <1>2, <1>3, <1>5, <1>6 DEF PushInv

LEMMA PushesUnchanged ==
  ASSUME PushInv, UNCHANGED <<sub, caller, tx, rows, wronged>>
  PROVE  PushInv'
<1>1. sub' = sub /\ caller' = caller /\ tx' = tx /\ rows' = rows /\ wronged' = wronged
  OBVIOUS
<1>2. \A e \in Endpoints : RowOk(e) => RowOk(e)'
  BY <1>1 DEF RowOk
<1>3. ASSUME NEW c \in Callers PROVE CallerOk(c) => CallerOk(c)'
  <2>1. \A e : LeavesRow(c, e) => LeavesRow(c, e)'
    BY <1>1 DEF LeavesRow, NoSub
  <2>2. FoundOwn(c) => FoundOwn(c)'
    BY <1>1 DEF FoundOwn
  <2> QED
    BY <1>1, <2>1, <2>2 DEF CallerOk, IsCaller, Nothing, NoSub
<1> QED
  BY <1>1, <1>2, <1>3 DEF PushInv

LEMMA PushInvInit ==
  ASSUME PushInit
  PROVE  PushInv
<1>1. PICK n : n = NoCaller
  OBVIOUS
<1>2. /\ n.at = "idle" /\ n.user = Recipient /\ n.id = 0 /\ IsCaller(n)
      /\ n.what = "register"
  BY <1>1 DEF NoCaller, IsCaller
<1>3. /\ caller = [c \in Callers |-> n] /\ tx = [c \in Callers |-> Nothing]
      /\ sub = [e \in Endpoints |-> NoSub] /\ rows = 0 /\ wronged = {}
  BY <1>1 DEF PushInit
<1>4. \A e \in Endpoints : RowOk(e)
  BY <1>3 DEF RowOk, NoSub
<1>5. \A c \in Callers : CallerOk(c)
  BY <1>2, <1>3, PushAssumption DEF CallerOk, IsCaller, FoundOwn
<1>6. \A c, d \in Callers : c # d => DOMAIN tx[c] \cap DOMAIN tx[d] = {}
  BY <1>3, NothingWritten
<1>7. /\ sub = [e \in Endpoints |-> sub[e]] /\ caller = [c \in Callers |-> caller[c]]
      /\ tx = [c \in Callers |-> tx[c]]
  BY <1>3
<1> QED
  BY <1>3, <1>4, <1>5, <1>6, <1>7 DEF PushInv

LEMMA PushKept ==
  ASSUME PushInv, [Next]_vars
  PROVE  PushInv'
<1>1. CASE UNCHANGED vars
  BY <1>1, PushesUnchanged DEF vars, pushes
<1>2. CASE WebPushGoesOn
  <2>1. CASE PushPrune
    BY <2>1, PruneKeeps
  <2>2. CASE ~PushPrune
    BY <1>2, <2>2, PushesUnchanged
       DEF WebPushGoesOn, Pushing, PushLoad, PushSend, PruneFails
  <2> QED
    BY <2>1, <2>2
<1>3. CASE Subscribes
  <2>1. PICK c \in Callers :
          \/ \E what \in {"register", "unregister", "unregister_all"},
                u \in Users, e \in Endpoints : AskPush(c, what, u, e)
          \/ Find(c) \/ FlushInsert(c) \/ FlushUpdate(c) \/ FlushDelete(c)
          \/ Finish(c) \/ Breaks(c)
    BY <1>3 DEF Subscribes, CallersNext
  <2>2. CASE \E what \in {"register", "unregister", "unregister_all"},
                u \in Users, e \in Endpoints : AskPush(c, what, u, e)
    BY <2>2, AskKeeps
  <2>3. CASE Find(c)
    BY <2>3, FindKeeps
  <2>4. CASE FlushInsert(c)
    BY <2>4, FlushInsertKeeps
  <2>5. CASE FlushUpdate(c)
    BY <2>5, FlushUpdateKeeps
  <2>6. CASE FlushDelete(c)
    BY <2>6, FlushDeleteKeeps
  <2>7. CASE Finish(c)
    BY <2>7, FinishKeeps
  <2>8. CASE Breaks(c)
    BY <2>8, EndsKeep DEF Breaks
  <2> QED
    BY <2>1, <2>2, <2>3, <2>4, <2>5, <2>6, <2>7, <2>8
<1>4. CASE \/ Begin \/ Skip \/ PerformRaises \/ RunEnds \/ WriteSkipped
           \/ SseStarts \/ Publishing \/ SseEnds
  BY <1>4, PushesUnchanged
     DEF Begin, Skip, PerformRaises, Raise, RunEnds, WriteSkipped, FansOut, SseStarts, Publishing, SseEnds, pushes
<1>5. CASE \E i \in Ids : Write(i)
  BY <1>5, PushesUnchanged DEF Write, FansOut
<1>6. CASE \E committed \in BOOLEAN : WriteFails(committed)
  BY <1>6, PushesUnchanged DEF WriteFails, FansOut, Raise
<1>7. CASE \E d \in Devices : FcmEnqueues(d)
  BY <1>7, PushesUnchanged DEF FcmEnqueues, pushes
<1>8. CASE \E t \in Beside : TransportFails(t)
  BY <1>8, PushesUnchanged DEF TransportFails, Raise
<1>9. CASE Kill \/ Reads \/ Listens \/ \E d \in Devices, i \in Records : FcmJobEnds(d, i)
  BY <1>9, PushesUnchanged DEF Kill, Reads, Listens, FcmJobEnds, pushes
<1> QED
  BY <1>1, <1>2, <1>3, <1>4, <1>5, <1>6, <1>7, <1>8, <1>9 DEF Next, Delivers

\* However requests of several users for one endpoint, prunes and failures
\* overlap, no request changes or removes another user's subscription, and what
\* is sent to a user is encrypted with keys that user registered.
THEOREM SubscriptionsStayHome == Spec => []KeysStayHome
<1>1. Init => PushInv
  BY PushInvInit DEF Init
<1>2. PushInv /\ [Next]_vars => PushInv'
  BY PushKept
<1>3. PushInv => KeysStayHome
  BY DEF PushInv, KeysStayHome, RowOk
<1> QED
  BY <1>1, <1>2, <1>3, PTL DEF Spec

-----------------------------------------------------------------------------
(* Event streams.                                                           *)

\* What the publish under way still owes lies ahead of it in the list it loops
\* on, unless a queue it had passed was removed.
PublishAhead ==
  pub.on /\ ~pub.upset =>
    /\ pub.over => pub.owed = {}
    /\ \A s \in pub.owed : \E i \in 1..Len(list) : pub.next <= i /\ list[i] = s

StreamsInv ==
  /\ list \in Seq(Streams)
  /\ pub.next \in Nat \ {0}
  /\ pub = [on |-> pub.on, next |-> pub.next, msg |-> pub.msg, over |-> pub.over,
            owed |-> pub.owed, upset |-> pub.upset]
  /\ PublishAhead
  /\ OpenStreamsAreServed


LEMMA WithoutOne ==
  ASSUME NEW S, NEW s \in Seq(S), NEW i \in DOMAIN s
  PROVE  /\ RemoveAt(s, i) \in Seq(S) /\ Len(RemoveAt(s, i)) = Len(s) - 1
         /\ \A j \in 1..Len(s) - 1 :
               RemoveAt(s, i)[j] = IF j < i THEN s[j] ELSE s[j + 1]
<1>1. PICK n \in Nat : n = Len(s) /\ i \in 1..n
  BY LenProperties
<1> DEFINE a == SubSeq(s, 1, i - 1)
           b == SubSeq(s, i + 1, n)
<1>2. /\ a \in Seq(S) /\ Len(a) = i - 1
      /\ \A j \in 1..i - 1 : a[j] = s[j]
  BY <1>1, SubSeqProperties
<1>3. /\ b \in Seq(S) /\ Len(b) = n - i
      /\ \A j \in 1..n - i : b[j] = s[i + j]
  BY <1>1, SubSeqProperties
<1>4. RemoveAt(s, i) = a \o b
  BY <1>1 DEF RemoveAt
<1> HIDE DEF a, b
<1>5. /\ a \o b \in Seq(S) /\ Len(a \o b) = Len(a) + Len(b)
      /\ \A j \in 1..Len(a) + Len(b) :
            (a \o b)[j] = IF j <= Len(a) THEN a[j] ELSE b[j - Len(a)]
  BY <1>2, <1>3, ConcatProperties
<1>6. Len(a) + Len(b) = n - 1
  BY <1>1, <1>2, <1>3
<1>7. ASSUME NEW j \in 1..n - 1
      PROVE  (a \o b)[j] = IF j < i THEN s[j] ELSE s[j + 1]
  <2>1. CASE j < i
    <3>1. (a \o b)[j] = a[j] /\ j \in 1..i - 1
      BY <1>1, <1>2, <1>5, <1>6, <2>1
    <3> QED
      BY <1>2, <2>1, <3>1
  <2>2. CASE ~(j < i)
    <3>1. (a \o b)[j] = b[j - (i - 1)] /\ j - (i - 1) \in 1..n - i
      BY <1>1, <1>2, <1>5, <1>6, <2>2
    <3>2. b[j - (i - 1)] = s[i + (j - (i - 1))] /\ i + (j - (i - 1)) = j + 1
      BY <1>1, <1>3, <3>1
    <3> QED
      BY <2>2, <3>1, <3>2
  <2> QED
    BY <2>1, <2>2
<1> QED
  BY <1>1, <1>4, <1>5, <1>6, <1>7

LEMMA PublishBegins ==
  ASSUME StreamsInv, NEW msg, Publish(msg)
  PROVE  StreamsInv'
<1>1. PICK p : p = [on |-> TRUE, next |-> 1, msg |-> msg, over |-> (list = <<>>),
                    owed |-> ToSet(list), upset |-> FALSE]
  OBVIOUS
<1>2. pub' = p
  <2>1. PICK q : q = NoPub(msg)
    OBVIOUS
  <2>2. q = [on |-> FALSE, next |-> 1, msg |-> msg, over |-> FALSE, owed |-> {},
             upset |-> FALSE]
    BY <2>1 DEF NoPub
  <2>3. PICK b : b = (list = <<>>)
    OBVIOUS
  <2>4. PICK o : o = ToSet(list)
    OBVIOUS
  <2>5. pub' = [q EXCEPT !.on = TRUE, !.owed = o, !.over = b]
    BY <2>1, <2>3, <2>4 DEF Publish
  <2>6. pub' = [on |-> TRUE, next |-> 1, msg |-> msg, over |-> b, owed |-> o, upset |-> FALSE]
    BY <2>2, <2>5
  <2> QED
    BY <1>1, <2>3, <2>4, <2>6
<1>3. list' = list /\ list \in Seq(Streams)
  BY DEF Publish, StreamsInv
<1>4. \A s \in ToSet(list) : \E i \in 1..Len(list) : list[i] = s
  BY <1>3, LenProperties DEF ToSet
<1>5. list = <<>> => ToSet(list) = {}
  BY <1>3, <1>4, EmptySeq
<1>6. p.on /\ p.next = 1 /\ p.over = (list = <<>>) /\ p.owed = ToSet(list) /\ ~p.upset
  BY <1>1
<1>7. \A i \in 1..Len(list) : 1 <= i
  BY <1>3, LenProperties
<1>8. PublishAhead'
  BY <1>2, <1>3, <1>4, <1>5, <1>6, <1>7 DEF PublishAhead
<1>9. p = [on |-> p.on, next |-> p.next, msg |-> p.msg, over |-> p.over,
           owed |-> p.owed, upset |-> p.upset]
  BY <1>1
<1> QED
  BY <1>2, <1>3, <1>6, <1>8, <1>9 DEF StreamsInv, OpenStreamsAreServed

LEMMA PublishGoesOn ==
  ASSUME StreamsInv, PublishNext
  PROVE  StreamsInv'
<1>1. PICK n \in Nat \ {0} : n = pub.next
  BY DEF StreamsInv
<1>2. PICK s : s = list[n]
  OBVIOUS
<1>3. pub.on /\ ~pub.over /\ n <= Len(list) /\ list' = list /\ list \in Seq(Streams)
  BY <1>1 DEF PublishNext, More, StreamsInv
<1>4. PICK p : p = [on |-> pub.on, next |-> n + 1, msg |-> pub.msg, over |-> pub.over,
                    owed |-> pub.owed \ {s}, upset |-> pub.upset]
  OBVIOUS
<1>5. pub' = p
  <2>1. PICK q : /\ q = pub
                 /\ q = [on |-> q.on, next |-> q.next, msg |-> q.msg, over |-> q.over,
                         owed |-> q.owed, upset |-> q.upset]
    BY DEF StreamsInv
  <2>2. PICK m, o : m = n + 1 /\ o = q.owed \ {s}
    OBVIOUS
  <2>3. pub' = [q EXCEPT !.next = m, !.owed = o]
    BY <1>1, <1>2, <2>1, <2>2 DEF PublishNext, AfterThat
  <2>4. PICK r : r = [q EXCEPT !.next = m]
    OBVIOUS
  <2>5. r = [on |-> q.on, next |-> m, msg |-> q.msg, over |-> q.over,
             owed |-> q.owed, upset |-> q.upset]
    BY <2>1, <2>4
  <2>6. [r EXCEPT !.owed = o] = [on |-> q.on, next |-> m, msg |-> q.msg, over |-> q.over,
                                 owed |-> o, upset |-> q.upset]
    BY <2>5
  <2>7. pub' = [r EXCEPT !.owed = o]
    BY <2>3, <2>4
  <2> QED
    BY <1>1, <1>4, <2>1, <2>2, <2>6, <2>7
<1>6. /\ p.on /\ ~p.over /\ p.next = n + 1 /\ p.owed = pub.owed \ {s} /\ p.upset = pub.upset
      /\ p = [on |-> p.on, next |-> p.next, msg |-> p.msg, over |-> p.over,
              owed |-> p.owed, upset |-> p.upset]
  BY <1>3, <1>4
<1>7. ASSUME ~pub.upset, NEW x \in p.owed
      PROVE  \E i \in 1..Len(list) : p.next <= i /\ list[i] = x
  <2>1. PICK i \in 1..Len(list) : n <= i /\ list[i] = x
    BY <1>1, <1>3, <1>6, <1>7 DEF StreamsInv, PublishAhead
  <2>2. x # s
    BY <1>6
  <2>3. i # n
    BY <1>2, <2>1, <2>2
  <2> QED
    BY <1>3, <1>6, <2>1, <2>3, LenProperties
<1>8. PublishAhead'
  BY <1>3, <1>5, <1>6, <1>7 DEF PublishAhead
<1> QED
  BY <1>3, <1>5, <1>6, <1>8 DEF StreamsInv, OpenStreamsAreServed

LEMMA PublishLeaves ==
  ASSUME StreamsInv, PublishEnds
  PROVE  StreamsInv'
<1>1. PICK p : p = [on |-> FALSE, next |-> pub.next, msg |-> pub.msg, over |-> pub.over,
                    owed |-> pub.owed, upset |-> pub.upset]
  OBVIOUS
<1>2. pub' = p
  <2>1. PICK q : /\ q = pub
                 /\ q = [on |-> q.on, next |-> q.next, msg |-> q.msg, over |-> q.over,
                         owed |-> q.owed, upset |-> q.upset]
    BY DEF StreamsInv
  <2>2. PICK b : b = FALSE
    OBVIOUS
  <2>3. pub' = [q EXCEPT !.on = b]
    BY <2>1, <2>2 DEF PublishEnds
  <2>4. [q EXCEPT !.on = b] = [on |-> b, next |-> q.next, msg |-> q.msg,
                               over |-> q.over, owed |-> q.owed, upset |-> q.upset]
    BY <2>1
  <2> QED
    BY <1>1, <2>1, <2>2, <2>3, <2>4
<1>3. pub.on /\ ~More /\ list' = list
  BY DEF PublishEnds
<1>4. /\ p.on = FALSE /\ p.next = pub.next /\ p.owed = pub.owed /\ p.upset = pub.upset
      /\ p = [on |-> p.on, next |-> p.next, msg |-> p.msg, over |-> p.over,
              owed |-> p.owed, upset |-> p.upset]
  BY <1>1
<1>5. ~pub.upset => pub.owed = {}
  <2>1. CASE pub.over
    BY <1>3, <2>1 DEF StreamsInv, PublishAhead
  <2>2. CASE ~(pub.next <= Len(list))
    <3>1. list \in Seq(Streams) /\ pub.next \in Nat
      BY DEF StreamsInv
    <3>2. \A i \in 1..Len(list) : ~(pub.next <= i)
      BY <2>2, <3>1, LenProperties
    <3> QED
      BY <1>3, <3>2 DEF StreamsInv, PublishAhead
  <2> QED
    BY <1>3, <2>1, <2>2 DEF More
<1> QED
  BY <1>2, <1>3, <1>4, <1>5 DEF StreamsInv, PublishAhead, OpenStreamsAreServed

LEMMA CloseKeeps ==
  ASSUME StreamsInv, NEW s \in Streams, Close(s)
  PROVE  StreamsInv'
<1>1. /\ list \in Seq(Streams) /\ list' \in Seq(Streams)
      /\ s \notin ToSet(list) => list' = list
  BY WithoutOne DEF StreamsInv, Close
<1>2. PICK p : p = [on |-> pub.on, next |-> pub.next, msg |-> pub.msg,
                    over |-> (pub.over \/ list = <<s>>),
                    owed |-> pub.owed \ {s}, upset |-> (pub.upset \/ Passed(s))]
  OBVIOUS
<1>3. pub' = p
  <2>1. PICK q : /\ q = pub
                 /\ q = [on |-> q.on, next |-> q.next, msg |-> q.msg, over |-> q.over,
                         owed |-> q.owed, upset |-> q.upset]
    BY DEF StreamsInv
  <2>2. PICK o, b, w : /\ o = q.owed \ {s} /\ b = (q.over \/ list = <<s>>)
                       /\ w = (q.upset \/ Passed(s))
    OBVIOUS
  <2>3. pub' = [q EXCEPT !.owed = o, !.over = b, !.upset = w]
    BY <2>1, <2>2 DEF Close
  <2>4. PICK x : x = [q EXCEPT !.owed = o]
    OBVIOUS
  <2>5. x = [on |-> q.on, next |-> q.next, msg |-> q.msg, over |-> q.over,
             owed |-> o, upset |-> q.upset]
    BY <2>1, <2>4
  <2>6. PICK y : y = [x EXCEPT !.over = b]
    OBVIOUS
  <2>7. y = [on |-> q.on, next |-> q.next, msg |-> q.msg, over |-> b,
             owed |-> o, upset |-> q.upset]
    BY <2>5, <2>6
  <2>8. [y EXCEPT !.upset = w] = [on |-> q.on, next |-> q.next, msg |-> q.msg, over |-> b,
                                  owed |-> o, upset |-> w]
    BY <2>7
  <2>9. pub' = [y EXCEPT !.upset = w]
    BY <2>3, <2>4, <2>6
  <2> QED
    BY <1>2, <2>1, <2>2, <2>8, <2>9
<1>4. /\ p.on = pub.on /\ p.next = pub.next /\ p.owed = pub.owed \ {s}
      /\ p.over = (pub.over \/ list = <<s>>) /\ p.upset = (pub.upset \/ Passed(s))
      /\ p = [on |-> p.on, next |-> p.next, msg |-> p.msg, over |-> p.over,
              owed |-> p.owed, upset |-> p.upset]
  BY <1>2
<1>5. PICK n \in Nat \ {0} : n = pub.next
  BY DEF StreamsInv
<1>6. ASSUME pub.on, ~p.upset, p.over PROVE p.owed = {}
  <2>1. CASE pub.over
    BY <1>4, <1>6, <2>1 DEF StreamsInv, PublishAhead
  <2>2. CASE list = <<s>>
    <3>1. \A x \in pub.owed : x = s
      BY <1>4, <1>6, <2>2 DEF StreamsInv, PublishAhead
    <3> QED
      BY <1>4, <3>1
  <2> QED
    BY <1>4, <1>6, <2>1, <2>2
<1>7. ASSUME pub.on, ~p.upset, NEW x \in p.owed
      PROVE  \E i \in 1..Len(list') : n <= i /\ list'[i] = x
  <2>1. PICK i \in 1..Len(list) : n <= i /\ list[i] = x
    BY <1>4, <1>5, <1>7 DEF StreamsInv, PublishAhead
  <2>2. CASE list' = list
    BY <2>1, <2>2
  <2>3. CASE s \in ToSet(list)
    <3>1. PICK k \in DOMAIN list : list[k] = s /\ list' = RemoveAt(list, k)
      BY <2>3 DEF Close
    <3>2. PICK m \in Nat : m = Len(list) /\ k \in 1..m /\ i \in 1..m
      BY <1>1, <2>1, LenProperties
    <3>3. k # i
      BY <1>4, <2>1, <3>1
    <3>4. n <= k
      <4>1. ~Passed(s)
        BY <1>4, <1>7
      <4>2. ~(k \in 1..n - 1)
        BY <1>5, <3>1, <3>2, <4>1 DEF Passed
      <4> QED
        BY <3>2, <4>2
    <3>5. /\ Len(list') = m - 1
          /\ \A j \in 1..m - 1 : list'[j] = IF j < k THEN list[j] ELSE list[j + 1]
      BY <1>1, <3>1, <3>2, WithoutOne
    <3>6. CASE i < k
      BY <2>1, <3>2, <3>5, <3>6
    <3>7. CASE k < i
      <4>1. i - 1 \in 1..m - 1 /\ n <= i - 1 /\ ~(i - 1 < k) /\ (i - 1) + 1 = i
        BY <3>2, <3>4, <3>7
      <4> QED
        BY <2>1, <3>5, <4>1
    <3> QED
      BY <3>2, <3>3, <3>6, <3>7
  <2> QED
    BY <1>1, <2>2, <2>3
<1>8. PublishAhead'
  BY <1>3, <1>4, <1>5, <1>6, <1>7 DEF PublishAhead
<1>9. OpenStreamsAreServed'
  BY <1>3, <1>4 DEF StreamsInv, OpenStreamsAreServed
<1> QED
  BY <1>1, <1>3, <1>4, <1>5, <1>8, <1>9 DEF StreamsInv

LEMMA RegisterKeeps ==
  ASSUME StreamsInv, NEW s \in Streams, Register(s)
  PROVE  StreamsInv'
<1>1. list \in Seq(Streams) /\ list' = Append(list, s) /\ pub' = pub
  BY DEF StreamsInv, Register
<1>2. PICK m \in Nat : m = Len(list)
  BY <1>1, LenProperties
<1>3. /\ list' \in Seq(Streams) /\ Len(list') = m + 1
      /\ \A i \in 1..m : list'[i] = list[i]
  BY <1>1, <1>2, AppendProperties
<1>4. ASSUME NEW i \in 1..Len(list) PROVE i \in 1..Len(list') /\ list'[i] = list[i]
  BY <1>2, <1>3
<1> QED
  BY <1>1, <1>3, <1>4 DEF StreamsInv, PublishAhead, OpenStreamsAreServed

LEMMA StreamsBegin ==
  ASSUME NEW msg, list' = <<>>, pub' = NoPub(msg)
  PROVE  StreamsInv'
<1>1. PICK p : p = NoPub(msg)
  OBVIOUS
<1>2. /\ p.on = FALSE /\ p.next = 1 /\ p.owed = {}
      /\ p = [on |-> p.on, next |-> p.next, msg |-> p.msg, over |-> p.over,
              owed |-> p.owed, upset |-> p.upset]
  BY <1>1 DEF NoPub
<1>3. <<>> \in Seq(Streams)
  OBVIOUS
<1> QED
  BY <1>1, <1>2, <1>3 DEF StreamsInv, PublishAhead, OpenStreamsAreServed

LEMMA StreamsUnchanged ==
  ASSUME StreamsInv, UNCHANGED <<list, pub>>
  PROVE  StreamsInv'
BY DEF StreamsInv, PublishAhead, OpenStreamsAreServed

LEMMA StreamsKept ==
  ASSUME StreamsInv, [Next]_vars
  PROVE  StreamsInv'
<1>1. CASE UNCHANGED vars
  BY <1>1, StreamsUnchanged DEF vars, streams
<1>2. CASE SseStarts
  BY <1>2, PublishBegins DEF SseStarts
<1>3. CASE Publishing
  BY <1>3, PublishGoesOn DEF Publishing
<1>4. CASE SseEnds
  BY <1>4, PublishLeaves DEF SseEnds
<1>5. CASE Kill
  BY <1>5, StreamsBegin DEF Kill, StreamsDie
<1>6. CASE Listens
  <2>1. PICK s \in Streams : Open(s) \/ Register(s) \/ Receive(s) \/ Close(s)
    BY <1>6 DEF Listens, StreamsNext
  <2> QED
    BY <2>1, RegisterKeeps, CloseKeeps, StreamsUnchanged DEF Open, Receive
<1>7. CASE \/ Begin \/ Skip \/ PerformRaises \/ RunEnds \/ WriteSkipped \/ WebPushGoesOn
           \/ Reads \/ Subscribes
  BY <1>7, StreamsUnchanged
     DEF Begin, Skip, PerformRaises, Raise, RunEnds, WriteSkipped, FansOut, WebPushGoesOn, Reads, Subscribes, streams
<1>8. CASE \E i \in Ids : Write(i)
  BY <1>8, StreamsUnchanged DEF Write, FansOut, streams
<1>9. CASE \E committed \in BOOLEAN : WriteFails(committed)
  BY <1>9, StreamsUnchanged DEF WriteFails, FansOut, Raise, streams
<1>10. CASE \E d \in Devices : FcmEnqueues(d)
  BY <1>10, StreamsUnchanged DEF FcmEnqueues, streams
<1>11. CASE \E t \in Beside : TransportFails(t)
  BY <1>11, StreamsUnchanged DEF TransportFails, Raise, streams
<1>12. CASE \E d \in Devices, i \in Records : FcmJobEnds(d, i)
  BY <1>12, StreamsUnchanged DEF FcmJobEnds, streams
<1> QED
  BY <1>1, <1>2, <1>3, <1>4, <1>5, <1>6, <1>7, <1>8, <1>9, <1>10, <1>11, <1>12
     DEF Next, Delivers

\* A publish reaches every stream that was open when it began and still is, or
\* finds its queue full, unless one that it had served closed meanwhile.
THEOREM PublishReachesOpenStreams == Spec => []OpenStreamsAreServed
<1>1. Init => StreamsInv
  <2> SUFFICES ASSUME Init PROVE StreamsInv
    OBVIOUS
  <2>1. PICK p : p = NoPub(NoRecord)
    OBVIOUS
  <2>2. /\ p.on = FALSE /\ p.next = 1 /\ p.owed = {}
        /\ p = [on |-> p.on, next |-> p.next, msg |-> p.msg, over |-> p.over,
                owed |-> p.owed, upset |-> p.upset]
    BY <2>1 DEF NoPub
  <2>3. list = <<>> /\ <<>> \in Seq(Streams) /\ pub = p
    BY <2>1 DEF Init, StreamsInit
  <2> QED
    BY <2>2, <2>3 DEF StreamsInv, PublishAhead, OpenStreamsAreServed
<1>2. StreamsInv /\ [Next]_vars => StreamsInv'
  BY StreamsKept
<1>3. StreamsInv => OpenStreamsAreServed
  BY DEF StreamsInv
<1> QED
  BY <1>1, <1>2, <1>3, PTL DEF Spec


-----------------------------------------------------------------------------
(* The inbox.                                                               *)

Newer(i) == Cardinality({j \in Listed(record, walk.unread) : j > i})

\* What the client is owed is listed, behind the pages it has seen.
OwedBehind ==
  \A i \in walk.owed : /\ i \in Listed(record, walk.unread)
                       /\ Newer(i) >= (walk.page - 1) * PageSize

InboxInv ==
  /\ record \in [Ids -> Row]
  /\ walk = [at |-> walk.at, unread |-> walk.unread, page |-> walk.page,
             total |-> walk.total, owed |-> walk.owed]
  /\ walk.page \in Nat \ {0}
  /\ OwedBehind
  /\ walk.at = "counted" /\ walk.owed # {} =>
        walk.total = Cardinality(Listed(record, walk.unread))
  /\ PagingMissesNothing


LEMMA IdsFinite == IsFiniteSet(Ids)
<1>1. 1 \in Int /\ MaxRecords \in Int
  BY InboxAssumption
<1> QED
  BY <1>1, FS_Interval DEF Ids

\* More rows of a listing are newer than i when the listing has grown.
LEMMA NewerGrows ==
  ASSUME NEW A \in SUBSET Ids, NEW B \in SUBSET Ids, A \subseteq B, NEW i
  PROVE  /\ Cardinality({j \in A : j > i}) \in Nat
         /\ Cardinality({j \in B : j > i}) \in Nat
         /\ Cardinality({j \in A : j > i}) <= Cardinality({j \in B : j > i})
<1>1. PICK a, b : a = {j \in A : j > i} /\ b = {j \in B : j > i}
  OBVIOUS
<1>2. a \in SUBSET b /\ a \in SUBSET Ids /\ b \in SUBSET Ids
  BY <1>1
<1>3. IsFiniteSet(a) /\ IsFiniteSet(b)
  BY <1>2, IdsFinite, FS_Subset
<1>4. Cardinality(a) \in Nat /\ Cardinality(b) \in Nat /\ Cardinality(a) <= Cardinality(b)
  BY <1>2, <1>3, FS_Subset, FS_CardinalityType
<1> QED
  BY <1>1, <1>4

\* A listed row is newer than fewer rows than are listed.
LEMMA NewerIsLess ==
  ASSUME NEW A \in SUBSET Ids, NEW i \in A
  PROVE  /\ Cardinality({j \in A : j > i}) \in Nat /\ Cardinality(A) \in Nat
         /\ Cardinality({j \in A : j > i}) < Cardinality(A)
<1>1. PICK a : a = {j \in A : j > i}
  OBVIOUS
<1>2. a \in SUBSET A /\ i \notin a /\ i \in Nat
  BY <1>1, InboxAssumption DEF Ids
<1>3. IsFiniteSet(A) /\ IsFiniteSet(a)
  BY <1>2, IdsFinite, FS_Subset
<1>4. a # A
  BY <1>2
<1>5. /\ Cardinality(a) \in Nat /\ Cardinality(A) \in Nat
      /\ Cardinality(a) <= Cardinality(A) /\ Cardinality(a) # Cardinality(A)
  BY <1>2, <1>3, <1>4, FS_Subset, FS_CardinalityType
<1> QED
  BY <1>1, <1>5

LEMMA Products ==
  ASSUME NEW a \in Nat, NEW b \in Nat, NEW p \in Nat, a <= b
  PROVE  a * p <= b * p /\ a * p \in Nat /\ b * p \in Nat
<1>1. (b - a) * p >= 0 /\ b * p = a * p + (b - a) * p
  OBVIOUS
<1> QED
  BY <1>1

LEMMA Quotient ==
  ASSUME NEW n \in Nat, NEW p \in Nat \ {0}
  PROVE  /\ n \div p \in Nat
         /\ (n \div p) * p <= n /\ n < (n \div p + 1) * p
OBVIOUS

\* A row behind k pages that is not on the next one is behind that as well.
LEMMA BehindOneMore ==
  ASSUME NEW n \in Nat, NEW k \in Nat, NEW p \in Nat \ {0},
         n >= k * p, n \div p # k
  PROVE  n >= (k + 1) * p
<1>1. PICK q \in Nat : q = n \div p /\ q * p <= n /\ n < (q + 1) * p
  BY Quotient
<1>2. CASE q < k
  <2>1. (q + 1) * p <= k * p /\ k * p \in Nat /\ (q + 1) * p \in Nat
    BY <1>2, Products
  <2> QED
    BY <1>1, <2>1
<1>3. CASE q > k
  <2>1. (k + 1) * p <= q * p /\ q * p \in Nat /\ (k + 1) * p \in Nat
    BY <1>3, Products
  <2> QED
    BY <1>1, <2>1
<1> QED
  BY <1>1, <1>2, <1>3

\* A listing that does not end with page k has more pages.
LEMMA MorePages ==
  ASSUME NEW total \in Nat, NEW k \in Nat, total > k * PageSize
  PROVE  k < Pages(total)
<1>1. PICK p \in Nat \ {0} : p = PageSize
  BY InboxAssumption
<1>2. PICK n \in Nat : n = total + p - 1
  BY <1>1
<1>3. PICK q \in Nat : q = n \div p /\ q * p <= n /\ n < (q + 1) * p
  BY Quotient
<1>4. total # 0 /\ k * p \in Nat /\ n >= k * p + p
  BY <1>1, <1>2, Products
<1>5. CASE q <= k
  <2>1. (q + 1) * p <= (k + 1) * p /\ (k + 1) * p \in Nat /\ (q + 1) * p \in Nat
    BY <1>5, Products
  <2>2. (k + 1) * p = k * p + p
    OBVIOUS
  <2> QED
    BY <1>3, <1>4, <2>1, <2>2
<1> QED
  BY <1>1, <1>2, <1>3, <1>4, <1>5 DEF Pages

\* The client's walk is as it was, or owes nothing; the listing may have grown.
LEMMA ListingGrows ==
  ASSUME InboxInv, record' \in [Ids -> Row],
         \/ walk' = Disturbed
         \/ /\ walk' = walk
            /\ Listed(record, walk.unread) \subseteq Listed(record', walk.unread)
            /\ walk.at = "counted" => Listed(record', walk.unread) = Listed(record, walk.unread)
  PROVE  InboxInv'
<1>1. CASE walk' = Disturbed
  <2>1. PICK w : /\ w = walk
                 /\ w = [at |-> w.at, unread |-> w.unread, page |-> w.page,
                         total |-> w.total, owed |-> w.owed]
    BY DEF InboxInv
  <2>2. PICK o : o = {} /\ walk' = [w EXCEPT !.owed = o]
    BY <1>1, <2>1 DEF Disturbed
  <2>3. [w EXCEPT !.owed = o] = [at |-> w.at, unread |-> w.unread, page |-> w.page,
                                 total |-> w.total, owed |-> o]
    BY <2>1
  <2>4. PICK v : walk' = v /\ v = [at |-> w.at, unread |-> w.unread, page |-> w.page,
                                   total |-> w.total, owed |-> o]
    BY <2>2, <2>3
  <2>5. /\ v.owed = {} /\ v.page \in Nat \ {0}
        /\ v = [at |-> v.at, unread |-> v.unread, page |-> v.page,
                total |-> v.total, owed |-> v.owed]
    BY <2>1, <2>2, <2>4 DEF InboxInv
  <2> QED
    BY <2>4, <2>5 DEF InboxInv, OwedBehind, PagingMissesNothing
<1>2. CASE /\ walk' = walk
           /\ Listed(record, walk.unread) \subseteq Listed(record', walk.unread)
           /\ walk.at = "counted" => Listed(record', walk.unread) = Listed(record, walk.unread)
  <2>1. PICK A, B : /\ A = Listed(record, walk.unread) /\ B = Listed(record', walk.unread)
                    /\ A \in SUBSET Ids /\ B \in SUBSET Ids /\ A \subseteq B
    BY <1>2 DEF Listed
  <2>2. PICK m \in Nat : m = (walk.page - 1) * PageSize
    BY InboxAssumption, Products DEF InboxInv
  <2>3. ASSUME NEW i \in walk.owed
        PROVE  i \in B /\ Cardinality({j \in B : j > i}) >= m
    <3>1. i \in A /\ Cardinality({j \in A : j > i}) >= m
      BY <2>1, <2>2, <2>3 DEF InboxInv, OwedBehind, Newer
    <3>2. /\ Cardinality({j \in A : j > i}) \in Nat
          /\ Cardinality({j \in B : j > i}) \in Nat
          /\ Cardinality({j \in A : j > i}) <= Cardinality({j \in B : j > i})
      BY <2>1, NewerGrows
    <3> QED
      BY <2>1, <3>1, <3>2
  <2>4. Listed(record', walk'.unread) = B
    BY <1>2, <2>1
  <2>5. OwedBehind'
    BY <1>2, <2>2, <2>3, <2>4 DEF OwedBehind, Newer
  <2>6. walk.at = "counted" => B = A
    BY <1>2, <2>1
  <2> QED
    BY <1>2, <2>1, <2>4, <2>5, <2>6 DEF InboxInv, PagingMissesNothing
<1> QED
  BY <1>1, <1>2

LEMMA InsertKeeps ==
  ASSUME InboxInv, NEW i, Insert(i)
  PROVE  InboxInv'
<1>1. i \in Ids /\ record' = [record EXCEPT ![i].stored = TRUE] /\ record \in [Ids -> Row]
  BY DEF Insert, InboxInv
<1>2. record' \in [Ids -> Row]
  BY <1>1 DEF Row
<1>3. \A j \in Ids : /\ record[j].stored => record'[j].stored
                     /\ record'[j].read = record[j].read
                     /\ record'[j].archived = record[j].archived
  BY <1>1 DEF Row
<1>4. Listed(record, walk.unread) \subseteq Listed(record', walk.unread)
  BY <1>3 DEF Listed
<1>5. walk.at = "counted" => walk' = Disturbed
  BY DEF Insert
<1>6. walk.at # "counted" => walk' = walk
  BY DEF Insert
<1> QED
  BY <1>2, <1>4, <1>5, <1>6, ListingGrows

LEMMA DeskKeeps ==
  ASSUME InboxInv, DeskCommit
  PROVE  InboxInv'
<1>1. record' = Marked /\ record \in [Ids -> Row]
  BY DEF DeskCommit, InboxInv
<1>2. record' \in [Ids -> Row]
  BY <1>1 DEF Marked, Row
<1>3. \/ walk' = Disturbed
      \/ walk' = walk /\ Listed(record', walk.unread) = Listed(record, walk.unread)
  BY <1>1 DEF DeskCommit
<1> QED
  BY <1>2, <1>3, ListingGrows

LEMMA StartKeeps ==
  ASSUME InboxInv, NEW unread \in BOOLEAN, StartWalk(unread)
  PROVE  InboxInv'
<1>1. PICK A : A = Listed(record, unread) /\ A \in SUBSET Ids
  BY DEF Listed
<1>2. PICK u \in BOOLEAN : u = unread
  OBVIOUS
<1>3. PICK f, e : f = FALSE /\ e = {}
  OBVIOUS
<1>4. PICK w : w = Away /\ w = [at |-> "away", unread |-> f, page |-> 1, total |-> 0, owed |-> e]
  BY <1>3 DEF Away
<1>5. PICK x : x = [w EXCEPT !.at = "asks"]
  OBVIOUS
<1>6. x = [at |-> "asks", unread |-> f, page |-> 1, total |-> 0, owed |-> e]
  BY <1>4, <1>5
<1>7. PICK y : y = [x EXCEPT !.unread = u]
  OBVIOUS
<1>8. y = [at |-> "asks", unread |-> u, page |-> 1, total |-> 0, owed |-> e]
  BY <1>6, <1>7
<1>9. [y EXCEPT !.owed = A] = [at |-> "asks", unread |-> u, page |-> 1, total |-> 0, owed |-> A]
  BY <1>8
<1>10. walk' = [y EXCEPT !.owed = A] /\ record' = record
  BY <1>1, <1>2, <1>4, <1>5, <1>7 DEF StartWalk
<1>11. PICK v : /\ walk' = v
                /\ v = [at |-> "asks", unread |-> u, page |-> 1, total |-> 0, owed |-> A]
  BY <1>9, <1>10
<1>12. /\ v.at = "asks" /\ v.unread = unread /\ v.page = 1 /\ v.owed = A
       /\ v = [at |-> v.at, unread |-> v.unread, page |-> v.page,
               total |-> v.total, owed |-> v.owed]
  BY <1>2, <1>11
<1>13. Listed(record', walk'.unread) = A
  BY <1>1, <1>10, <1>11, <1>12
<1>14. PICK p \in Nat \ {0} : p = PageSize
  BY InboxAssumption
<1>15. (walk'.page - 1) * PageSize = 0
  BY <1>11, <1>12, <1>14
<1>16. \A i : Cardinality({j \in A : j > i}) \in Nat
  BY <1>1, NewerGrows
<1>17. walk'.at = "asks" /\ walk'.owed = A /\ walk'.page \in Nat \ {0}
  BY <1>11, <1>12
<1>18. OwedBehind'
  BY <1>13, <1>15, <1>16, <1>17 DEF OwedBehind, Newer
<1>19. walk' = [at |-> walk'.at, unread |-> walk'.unread, page |-> walk'.page,
                total |-> walk'.total, owed |-> walk'.owed]
  BY <1>11, <1>12
<1>20. record' \in [Ids -> Row]
  BY <1>10 DEF InboxInv
<1> QED
  BY <1>17, <1>18, <1>19, <1>20 DEF InboxInv, PagingMissesNothing

LEMMA CountKeeps ==
  ASSUME InboxInv, Count
  PROVE  InboxInv'
<1>1. PICK t : t = Cardinality(Listed(record, walk.unread))
  OBVIOUS
<1>2. PICK w : /\ w = walk
               /\ w = [at |-> w.at, unread |-> w.unread, page |-> w.page,
                       total |-> w.total, owed |-> w.owed]
  BY DEF InboxInv
<1>3. PICK x : x = [w EXCEPT !.at = "counted"]
  OBVIOUS
<1>4. x = [at |-> "counted", unread |-> w.unread, page |-> w.page, total |-> w.total,
           owed |-> w.owed]
  BY <1>2, <1>3
<1>5. [x EXCEPT !.total = t] = [at |-> "counted", unread |-> w.unread, page |-> w.page,
                                total |-> t, owed |-> w.owed]
  BY <1>4
<1>6. walk' = [x EXCEPT !.total = t] /\ record' = record
  BY <1>1, <1>2, <1>3 DEF Count
<1>7. PICK v : /\ walk' = v
               /\ v = [at |-> "counted", unread |-> w.unread, page |-> w.page,
                       total |-> t, owed |-> w.owed]
  BY <1>5, <1>6
<1>8. /\ v.at = "counted" /\ v.unread = walk.unread /\ v.page = walk.page /\ v.total = t
      /\ v.owed = walk.owed
      /\ v = [at |-> v.at, unread |-> v.unread, page |-> v.page,
              total |-> v.total, owed |-> v.owed]
  BY <1>2, <1>7
<1>9. Listed(record', walk'.unread) = Listed(record, walk.unread)
  BY <1>6, <1>7, <1>8
<1>10. OwedBehind'
  BY <1>7, <1>8, <1>9 DEF InboxInv, OwedBehind, Newer
<1> QED
  BY <1>1, <1>6, <1>7, <1>8, <1>9, <1>10 DEF InboxInv, PagingMissesNothing

LEMMA ShowKeeps ==
  ASSUME InboxInv, ShowPage
  PROVE  InboxInv'
<1>1. PICK A : A = Listed(record, walk.unread) /\ A \in SUBSET Ids
  BY DEF Listed
<1>2. PICK k \in Nat : walk.page = k + 1
  <2>1. walk.page - 1 \in Nat /\ walk.page = (walk.page - 1) + 1
    BY DEF InboxInv
  <2> QED
    BY <2>1
<1>3. PICK o, more : /\ o = walk.owed \ OnPage(A, walk.page)
                     /\ more = (walk.page < Pages(walk.total))
  OBVIOUS
<1>4. PICK a, g : /\ a = IF walk.page < Pages(walk.total) THEN "asks" ELSE "done"
                  /\ g = IF walk.page < Pages(walk.total) THEN k + 2 ELSE k + 1
  OBVIOUS
<1>5. PICK w : /\ w = walk
               /\ w = [at |-> w.at, unread |-> w.unread, page |-> w.page,
                       total |-> w.total, owed |-> w.owed]
  BY DEF InboxInv
<1>6. walk' = [w EXCEPT !.owed = o, !.at = a, !.page = g] /\ record' = record
  <2>1. walk' = [w EXCEPT !.owed = w.owed \ OnPage(A, w.page),
                          !.at = IF w.page < Pages(w.total) THEN "asks" ELSE "done",
                          !.page = IF w.page < Pages(w.total) THEN w.page + 1 ELSE w.page]
    BY <1>1, <1>5 DEF ShowPage
  <2>2. k + 1 + 1 = k + 2 /\ w.page = k + 1
    BY <1>2, <1>5
  <2>3. g = (IF w.page < Pages(w.total) THEN w.page + 1 ELSE w.page)
    BY <1>4, <1>5, <2>2
  <2> QED
    BY <1>3, <1>4, <1>5, <2>1, <2>3 DEF ShowPage
<1>7. PICK x : x = [w EXCEPT !.owed = o]
  OBVIOUS
<1>8. x = [at |-> w.at, unread |-> w.unread, page |-> w.page, total |-> w.total, owed |-> o]
  BY <1>5, <1>7
<1>9. PICK y : y = [x EXCEPT !.at = a]
  OBVIOUS
<1>10. y = [at |-> a, unread |-> w.unread, page |-> w.page, total |-> w.total, owed |-> o]
  BY <1>8, <1>9
<1>11. [y EXCEPT !.page = g] = [at |-> a, unread |-> w.unread, page |-> g,
                                total |-> w.total, owed |-> o]
  BY <1>10
<1>12. walk' = [y EXCEPT !.page = g]
  BY <1>6, <1>7, <1>9
<1>13. PICK v : /\ walk' = v
                /\ v = [at |-> a, unread |-> w.unread, page |-> g, total |-> w.total,
                        owed |-> o]
  BY <1>11, <1>12
<1>14. /\ v.at = a /\ v.unread = walk.unread /\ v.page = g /\ v.owed = o
       /\ v = [at |-> v.at, unread |-> v.unread, page |-> v.page,
               total |-> v.total, owed |-> v.owed]
  BY <1>5, <1>13
<1>15. PICK p \in Nat \ {0} : p = PageSize
  BY InboxAssumption
<1>16. /\ walk'.at = a /\ walk'.unread = walk.unread /\ walk'.page = g /\ walk'.owed = o
       /\ walk' = [at |-> walk'.at, unread |-> walk'.unread, page |-> walk'.page,
                   total |-> walk'.total, owed |-> walk'.owed]
       /\ record' \in [Ids -> Row] /\ g \in Nat \ {0}
  <2>1. /\ walk'.at = a /\ walk'.unread = walk.unread /\ walk'.page = g /\ walk'.owed = o
        /\ walk' = [at |-> walk'.at, unread |-> walk'.unread, page |-> walk'.page,
                    total |-> walk'.total, owed |-> walk'.owed]
    BY <1>13, <1>14
  <2>2. record' \in [Ids -> Row]
    BY <1>6 DEF InboxInv
  <2>3. g \in Nat \ {0}
    BY <1>4
  <2> QED
    BY <2>1, <2>2, <2>3
<1>17. ASSUME NEW i \in o
       PROVE  /\ i \in A /\ i \in walk.owed
              /\ Cardinality({j \in A : j > i}) \in Nat
              /\ Cardinality({j \in A : j > i}) >= (k + 1) * p
              /\ Cardinality(A) \in Nat /\ Cardinality({j \in A : j > i}) < Cardinality(A)
  <2>1. i \in walk.owed /\ i \notin OnPage(A, walk.page)
    BY <1>3, <1>17
  <2>2. PICK n : n = Cardinality({j \in A : j > i})
    OBVIOUS
  <2>3. i \in A /\ n >= k * p
    BY <1>1, <1>2, <1>15, <2>1, <2>2 DEF InboxInv, OwedBehind, Newer
  <2>4. n \in Nat /\ Cardinality(A) \in Nat /\ n < Cardinality(A)
    BY <1>1, <2>2, <2>3, NewerIsLess
  <2>5. n \div p # k
    BY <1>2, <1>15, <2>1, <2>2, <2>3 DEF OnPage
  <2>6. n >= (k + 1) * p
    BY <2>3, <2>4, <2>5, BehindOneMore
  <2> QED
    BY <2>1, <2>2, <2>3, <2>4, <2>6
<1>18. CASE walk.page < Pages(walk.total)
  <2>1. a = "asks" /\ walk'.page - 1 = k + 1
    BY <1>4, <1>18, <1>16
  <2>2. Listed(record', walk'.unread) = A
    BY <1>1, <1>6, <1>13, <1>14
  <2>3. OwedBehind'
    BY <1>15, <1>17, <1>16, <2>1, <2>2 DEF OwedBehind, Newer
  <2> QED
    BY <1>16, <2>1, <2>3 DEF InboxInv, PagingMissesNothing
<1>19. CASE ~(walk.page < Pages(walk.total))
  <2>1. a = "done"
    BY <1>4, <1>19
  <2>2. o = {}
    <3> SUFFICES ASSUME NEW i \in o PROVE FALSE
      OBVIOUS
    <3>1. PICK n \in Nat : /\ n = Cardinality({j \in A : j > i}) /\ n >= (k + 1) * p
                           /\ Cardinality(A) \in Nat /\ n < Cardinality(A)
                           /\ i \in walk.owed
      BY <1>17
    <3>2. walk.total = Cardinality(A)
      BY <1>1, <3>1 DEF ShowPage, InboxInv
    <3>3. (k + 1) * p \in Nat /\ k + 1 \in Nat
      BY Products
    <3>4. walk.total \in Nat /\ walk.total > (k + 1) * PageSize
      BY <1>15, <3>1, <3>2, <3>3
    <3>5. k + 1 < Pages(walk.total)
      BY <3>3, <3>4, MorePages
    <3> QED
      BY <1>2, <1>19, <3>5
  <2> QED
    BY <1>16, <2>1, <2>2 DEF InboxInv, OwedBehind, PagingMissesNothing
<1> QED
  BY <1>18, <1>19

LEMMA InboxUnchanged ==
  ASSUME InboxInv, UNCHANGED <<record, walk>>
  PROVE  InboxInv'
<1>1. Listed(record', walk'.unread) = Listed(record, walk.unread)
  OBVIOUS
<1>2. OwedBehind'
  BY <1>1 DEF InboxInv, OwedBehind, Newer
<1> QED
  BY <1>1, <1>2 DEF InboxInv, PagingMissesNothing

LEMMA InboxKept ==
  ASSUME InboxInv, [Next]_vars
  PROVE  InboxInv'
<1>1. CASE UNCHANGED vars
  BY <1>1, InboxUnchanged DEF vars, inbox
<1>2. CASE Reads
  <2>1. CASE \E i \in Ids : MarkRead(i) \/ Archive(i)
    BY <2>1, InboxUnchanged DEF MarkRead, Archive, Loads
  <2>2. CASE MarkAllRead
    BY <2>2, InboxUnchanged DEF MarkAllRead, Loads
  <2>3. CASE DeskCommit
    BY <2>3, DeskKeeps
  <2>4. CASE \E unread \in BOOLEAN : StartWalk(unread)
    BY <2>4, StartKeeps
  <2>5. CASE Count
    BY <2>5, CountKeeps
  <2>6. CASE ShowPage
    BY <2>6, ShowKeeps
  <2> QED
    BY <1>2, <2>1, <2>2, <2>3, <2>4, <2>5, <2>6 DEF Reads, InboxNext
<1>3. CASE \E i \in Ids : Write(i)
  BY <1>3, InsertKeeps DEF Write
<1>4. CASE \E committed \in BOOLEAN : WriteFails(committed)
  <2>1. (\E i \in Ids : Insert(i)) \/ UNCHANGED inbox
    BY <1>4 DEF WriteFails
  <2> QED
    BY <2>1, InsertKeeps, InboxUnchanged DEF inbox
<1>5. CASE \/ Begin \/ Skip \/ PerformRaises \/ RunEnds \/ WriteSkipped \/ SseStarts
           \/ Publishing \/ SseEnds \/ WebPushGoesOn \/ Kill \/ Listens \/ Subscribes
  BY <1>5, InboxUnchanged
     DEF Begin, Skip, PerformRaises, RunEnds, WriteSkipped, SseStarts, Publishing, SseEnds, WebPushGoesOn,
         Kill, Listens, Subscribes, inbox
<1>6. CASE \E d \in Devices : FcmEnqueues(d)
  BY <1>6, InboxUnchanged DEF FcmEnqueues, inbox
<1>7. CASE \E t \in Beside : TransportFails(t)
  BY <1>7, InboxUnchanged DEF TransportFails, inbox
<1>8. CASE \E d \in Devices, i \in Records : FcmJobEnds(d, i)
  BY <1>8, InboxUnchanged DEF FcmJobEnds, inbox
<1> QED
  BY <1>1, <1>2, <1>3, <1>4, <1>5, <1>6, <1>7, <1>8 DEF Next, Delivers

\* A client that pages to the end sees all that was listed when it began, unless
\* one was read or archived, or arrived between the two statements of a page.
THEOREM PagesShowAll == Spec => []PagingMissesNothing
<1>1. Init => InboxInv
  <2> SUFFICES ASSUME Init PROVE InboxInv
    OBVIOUS
  <2>1. PICK v : v = Away /\ walk = v
    BY DEF Init, InboxInit
  <2>2. /\ v.at = "away" /\ v.page = 1 /\ v.owed = {}
        /\ v = [at |-> v.at, unread |-> v.unread, page |-> v.page,
                total |-> v.total, owed |-> v.owed]
    BY <2>1 DEF Away
  <2>3. record \in [Ids -> Row]
    <3>1. \A i \in Ids : (i <= Earlier) \in BOOLEAN
      OBVIOUS
    <3> QED
      BY <3>1 DEF Init, InboxInit, Row
  <2> QED
    BY <2>1, <2>2, <2>3 DEF InboxInv, OwedBehind, PagingMissesNothing
<1>2. InboxInv /\ [Next]_vars => InboxInv'
  BY InboxKept
<1>3. InboxInv => PagingMissesNothing
  BY DEF InboxInv
<1> QED
  BY <1>1, <1>2, <1>3, PTL DEF Spec


-----------------------------------------------------------------------------
(* The delivery.                                                            *)

\* A run that has fanned out has each critical, equipped transport finished or
\* under way.
CriticalCovered ==
  (Critical \cap Equipped) \ {"web_push"} \subseteq run.done \cup run.pending

DeliveryInv ==
  /\ job = [at |-> job.at, attempts |-> job.attempts, kills |-> job.kills]
  /\ run = [record |-> run.record, pending |-> run.pending, done |-> run.done]
  /\ job.at = "fan" => CriticalCovered
  /\ DoneMeansDelivered


LEMMA RaiseKeeps ==
  ASSUME DeliveryInv, Raise
  PROVE  DeliveryInv'
<1>1. PICK j : /\ j = job
               /\ j = [at |-> j.at, attempts |-> j.attempts, kills |-> j.kills]
  BY DEF DeliveryInv
<1>2. PICK m, a : m = j.attempts + 1
                  /\ a = IF j.attempts + 1 >= MaxAttempts THEN "failed" ELSE "waiting"
  OBVIOUS
<1>3. PICK r : r = [j EXCEPT !.attempts = m]
  OBVIOUS
<1>4. r = [at |-> j.at, attempts |-> m, kills |-> j.kills]
  BY <1>1, <1>3
<1>5. [r EXCEPT !.at = a] = [at |-> a, attempts |-> m, kills |-> j.kills]
  BY <1>4
<1>6. job' = [r EXCEPT !.at = a]
  BY <1>1, <1>2, <1>3 DEF Raise
<1>7. PICK k : k = job' /\ k = [at |-> a, attempts |-> m, kills |-> j.kills]
  BY <1>5, <1>6
<1>8. /\ k = [at |-> k.at, attempts |-> k.attempts, kills |-> k.kills]
      /\ k.at # "fan" /\ k.at # "done"
  BY <1>2, <1>7
<1>9. PICK n : n = NoRun /\ run' = n
  BY DEF Raise
<1>10. n = [record |-> n.record, pending |-> n.pending, done |-> n.done]
  BY <1>9 DEF NoRun
<1> QED
  BY <1>7, <1>8, <1>9, <1>10 DEF DeliveryInv, DoneMeansDelivered, Equipped

\* A run that fans out has written what it had to.
LEMMA FansOutKeeps ==
  ASSUME DeliveryInv, NEW i, NEW done, FansOut(i, done),
         "database" \in Critical \cap scene.transports => "database" \in done
  PROVE  DeliveryInv'
<1>1. PICK n : n = [record |-> i, pending |-> Beside, done |-> done]
  OBVIOUS
<1>2. /\ run' = n /\ scene' = scene /\ n.pending = Beside /\ n.done = done
      /\ n = [record |-> n.record, pending |-> n.pending, done |-> n.done]
  BY <1>1 DEF FansOut
<1>3. /\ job'.at = "fan"
      /\ job' = [at |-> job'.at, attempts |-> job'.attempts, kills |-> job'.kills]
  BY DEF FansOut, DeliveryInv
<1>4. CriticalCovered'
  BY <1>2 DEF CriticalCovered, Beside, Equipped
<1> QED
  BY <1>2, <1>3, <1>4 DEF DeliveryInv, DoneMeansDelivered, Equipped

LEMMA FinishedKeeps ==
  ASSUME DeliveryInv, job.at = "fan", NEW t, Finished(t), UNCHANGED <<job, scene>>
  PROVE  DeliveryInv'
<1>1. PICK r : /\ r = run
               /\ r = [record |-> r.record, pending |-> r.pending, done |-> r.done]
  BY DEF DeliveryInv
<1>2. PICK p, d : p = r.pending \ {t} /\ d = r.done \cup {t}
  OBVIOUS
<1>3. PICK s : s = [r EXCEPT !.pending = p]
  OBVIOUS
<1>4. s = [record |-> r.record, pending |-> p, done |-> r.done]
  BY <1>1, <1>3
<1>5. [s EXCEPT !.done = d] = [record |-> r.record, pending |-> p, done |-> d]
  BY <1>4
<1>6. run' = [s EXCEPT !.done = d]
  BY <1>1, <1>2, <1>3 DEF Finished
<1>7. PICK n : run' = n /\ n = [record |-> r.record, pending |-> p, done |-> d]
  BY <1>5, <1>6
<1>8. /\ n.pending = p /\ n.done = d
      /\ n = [record |-> n.record, pending |-> n.pending, done |-> n.done]
  BY <1>7
<1>9. CriticalCovered'
  BY <1>1, <1>2, <1>7, <1>8 DEF DeliveryInv, CriticalCovered, Equipped
<1> QED
  BY <1>7, <1>8, <1>9 DEF DeliveryInv, DoneMeansDelivered, Equipped

LEMMA DeliveryUnchanged ==
  ASSUME DeliveryInv, UNCHANGED <<job, run, scene>>
  PROVE  DeliveryInv'
<1>1. CriticalCovered => CriticalCovered'
  BY DEF CriticalCovered, Equipped
<1> QED
  BY <1>1 DEF DeliveryInv, DoneMeansDelivered, Equipped

LEMMA DeliveryKept ==
  ASSUME DeliveryInv, [Next]_vars
  PROVE  DeliveryInv'
<1>1. CASE UNCHANGED vars \/ SseStarts \/ Publishing \/ Reads \/ Listens \/ Subscribes
  BY <1>1, DeliveryUnchanged DEF vars, SseStarts, Publishing, Reads, Listens, Subscribes
<1>2. CASE \E d \in Devices, i \in Records : FcmJobEnds(d, i)
  BY <1>2, DeliveryUnchanged DEF FcmJobEnds
<1>3. CASE Begin
  <2>1. PICK n : n = NoRun /\ run' = n
    BY <1>3 DEF Begin
  <2>2. n = [record |-> n.record, pending |-> n.pending, done |-> n.done]
    BY <2>1 DEF NoRun
  <2>3. /\ job'.at = "write"
        /\ job' = [at |-> job'.at, attempts |-> job'.attempts, kills |-> job'.kills]
    BY <1>3 DEF Begin, DeliveryInv
  <2> QED
    BY <2>1, <2>2, <2>3 DEF DeliveryInv, DoneMeansDelivered, Equipped
<1>4. CASE Skip
  <2>1. /\ job'.at = "skipped" /\ run' = run
        /\ job' = [at |-> job'.at, attempts |-> job'.attempts, kills |-> job'.kills]
    BY <1>4 DEF Skip, DeliveryInv
  <2> QED
    BY <2>1 DEF DeliveryInv, DoneMeansDelivered, Equipped
<1>5. CASE RunEnds
  <2>1. PICK j : /\ j = job
                 /\ j = [at |-> j.at, attempts |-> j.attempts, kills |-> j.kills]
    BY DEF DeliveryInv
  <2>2. PICK r : r = [j EXCEPT !.at = "done"]
    OBVIOUS
  <2>3. r = [at |-> "done", attempts |-> j.attempts, kills |-> j.kills]
    BY <2>1, <2>2
  <2>4. PICK m : m = j.attempts + 1
    OBVIOUS
  <2>5. [r EXCEPT !.attempts = m] = [at |-> "done", attempts |-> m, kills |-> j.kills]
    BY <2>3
  <2>6. job' = [r EXCEPT !.attempts = m]
    BY <1>5, <2>1, <2>2, <2>4 DEF RunEnds
  <2>7. PICK k : job' = k /\ k = [at |-> k.at, attempts |-> k.attempts, kills |-> k.kills]
                 /\ k.at = "done"
    BY <2>5, <2>6
  <2>8. CriticalCovered /\ run.pending = {} /\ run' = run /\ scene' = scene
    BY <1>5 DEF RunEnds, Between, DeliveryInv
  <2>9. (Critical \cap Equipped) \ {"web_push"} \subseteq run.done
    BY <2>8 DEF CriticalCovered
  <2> QED
    BY <2>7, <2>8, <2>9 DEF DeliveryInv, DoneMeansDelivered, Equipped
<1>6. CASE WriteSkipped \/ PerformRaises
  BY <1>6, FansOutKeeps, RaiseKeeps DEF WriteSkipped, PerformRaises
<1>7. CASE \E i \in Ids : Write(i)
  BY <1>7, FansOutKeeps DEF Write
<1>8. CASE \E committed \in BOOLEAN : WriteFails(committed)
  BY <1>8, FansOutKeeps, RaiseKeeps DEF WriteFails, Raised
<1>9. CASE SseEnds
  BY <1>9, FinishedKeeps DEF SseEnds
<1>10. CASE WebPushGoesOn
  <2>1. job.at = "fan" /\ UNCHANGED <<job, scene>> /\ (Finished("web_push") \/ run' = run)
    BY <1>10 DEF WebPushGoesOn, Between
  <2> QED
    BY <2>1, FinishedKeeps, DeliveryUnchanged
<1>11. CASE \E d \in Devices : FcmEnqueues(d)
  <2>1. job.at = "fan" /\ UNCHANGED <<job, scene>> /\ (Finished("fcm") \/ run' = run)
    BY <1>11 DEF FcmEnqueues
  <2> QED
    BY <2>1, FinishedKeeps, DeliveryUnchanged
<1>12. CASE \E t \in Beside : TransportFails(t)
  <2>1. PICK t : TransportFails(t)
    BY <1>12
  <2>2. CASE t \in Raised
    BY <2>1, <2>2, RaiseKeeps DEF TransportFails
  <2>3. CASE t \notin Raised
    <3>1. PICK p : p = run.pending \ {t}
      OBVIOUS
    <3>2. job.at = "fan" /\ UNCHANGED <<job, scene>> /\ run' = [run EXCEPT !.pending = p]
      BY <2>1, <2>3, <3>1 DEF TransportFails
    <3>3. PICK n : run' = n /\ n = [record |-> run.record, pending |-> p, done |-> run.done]
      BY <3>2 DEF DeliveryInv
    <3>4. /\ n.pending = p /\ n.done = run.done
          /\ n = [record |-> n.record, pending |-> n.pending, done |-> n.done]
      BY <3>3
    <3>5. CriticalCovered'
      BY <2>3, <3>1, <3>2, <3>3, <3>4 DEF DeliveryInv, CriticalCovered, Equipped, Raised
    <3> QED
      BY <3>2, <3>3, <3>4, <3>5 DEF DeliveryInv, DoneMeansDelivered, Equipped
  <2> QED
    BY <2>2, <2>3
<1>13. CASE Kill
  <2>1. PICK n : n = NoRun /\ run' = n
    BY <1>13 DEF Kill
  <2>2. n = [record |-> n.record, pending |-> n.pending, done |-> n.done]
    BY <2>1 DEF NoRun
  <2>3. PICK j : /\ j = job
                 /\ j = [at |-> j.at, attempts |-> j.attempts, kills |-> j.kills]
    BY DEF DeliveryInv
  <2>4. PICK r : r = [j EXCEPT !.at = "waiting"]
    OBVIOUS
  <2>5. r = [at |-> "waiting", attempts |-> j.attempts, kills |-> j.kills]
    BY <2>3, <2>4
  <2>6. PICK m : m = j.kills + 1
    OBVIOUS
  <2>7. [r EXCEPT !.kills = m] = [at |-> "waiting", attempts |-> j.attempts, kills |-> m]
    BY <2>5
  <2>8. job' = [r EXCEPT !.kills = m]
    BY <1>13, <2>3, <2>4, <2>6 DEF Kill
  <2>9. PICK k : job' = k /\ k = [at |-> k.at, attempts |-> k.attempts, kills |-> k.kills]
                 /\ k.at = "waiting"
    BY <2>7, <2>8
  <2> QED
    BY <2>1, <2>2, <2>9 DEF DeliveryInv, DoneMeansDelivered, Equipped
<1> QED
  BY <1>1, <1>2, <1>3, <1>4, <1>5, <1>6, <1>7, <1>8, <1>9, <1>10, <1>11, <1>12, <1>13
     DEF Next, Delivers

\* A job that is done had one run in which every critical, equipped transport
\* but web_push finished, whatever raised, was cancelled, killed and repeated before.
THEOREM DoneIsDelivered == Spec => []DoneMeansDelivered
<1>1. Init => DeliveryInv
  <2> SUFFICES ASSUME Init PROVE DeliveryInv
    OBVIOUS
  <2>1. PICK n : n = NoRun /\ run = n
    BY DEF Init
  <2>2. n = [record |-> n.record, pending |-> n.pending, done |-> n.done]
    BY <2>1 DEF NoRun
  <2>3. PICK j : job = j /\ j = [at |-> "waiting", attempts |-> 0, kills |-> 0]
    BY DEF Init
  <2>4. /\ j.at = "waiting"
        /\ j = [at |-> j.at, attempts |-> j.attempts, kills |-> j.kills]
    BY <2>3
  <2> QED
    BY <2>1, <2>2, <2>3, <2>4 DEF DeliveryInv, DoneMeansDelivered, Equipped
<1>2. DeliveryInv /\ [Next]_vars => DeliveryInv'
  BY DeliveryKept
<1>3. DeliveryInv => DoneMeansDelivered
  BY DEF DeliveryInv
<1> QED
  BY <1>1, <1>2, <1>3, PTL DEF Spec

=============================================================================
