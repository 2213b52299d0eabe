----------------------------- MODULE Throttler ------------------------------
(***************************************************************************)
(* ThrottlerRegistry for one client of one namespace: hit and clear on a   *)
(* RedisStorage, as apply_rate_limit and ThrottlerMiddleware use them.  A  *)
(* limit is the namespace's own or a custom_limit; each has its counter.   *)
(* A client is what the key function or the address says, or "unknown".    *)
(* The moving window of the limits library is the ages of its entries.     *)
(***************************************************************************)
EXTENDS Redis, FiniteSets

CONSTANTS
    Amount,     \* Amount[l]: requests per window under limit l
    Window      \* ticks of a window

Limits == {"namespace", "custom"}

ASSUME ThrottlerAssumption ==
    /\ Amount \in [Limits -> Nat \ {0}]
    /\ Window \in Nat \ {0}

VARIABLES
    registry,   \* "unconfigured", "enabled" or "disabled"
    entries,    \* entries[l]: ages of the hits the storage has counted
    asking,     \* the request under way: its limit, who checks it, and how far
    passed,     \* history: passed[l]: ages of the requests allowed since the
                \* counter was cleared
    opened      \* history: the same for those counted, then let in by an error

throttle == <<registry, entries, asking, passed, opened>>

\* at: the next call of the registry; refused: what hit returned.
AskingType ==
    [limit : Limits \cup {"none"}, by : {"dependency", "middleware"},
     at : {"hit", "stats"}, refused : BOOLEAN]
NotAsking == [limit |-> "none", by |-> "dependency", at |-> "hit", refused |-> FALSE]

ThrottleInit ==
    /\ registry = "unconfigured"
    /\ entries = [l \in Limits |-> <<>>]
    /\ asking = NotAsking
    /\ passed = [l \in Limits |-> <<>>] /\ opened = [l \in Limits |-> <<>>]

\* configure_throttler, at any time: the counters are in Redis and stay.
Configure(enabled) ==
    /\ registry' = IF enabled THEN "enabled" ELSE "disabled"
    /\ UNCHANGED <<entries, asking, passed, opened>>

\* apply_rate_limit and the middleware let a request through at once while the
\* registry is disabled; unconfigured, the first does too and the second cannot
\* be built.
Ask(l, by) ==
    /\ asking = NotAsking /\ registry = "enabled"
    /\ asking' = [limit |-> l, by |-> by, at |-> "hit", refused |-> FALSE]
    /\ UNCHANGED <<registry, entries, passed, opened>>

Noted(log, l) == [log EXCEPT ![l] = <<0>> \o @]

\* Mutant: one request more than the amount.
FullAtNext(l) == Len(entries[l]) > Amount[l]

\* _resolve_limit parses "<count>/<period>".
Full(l) == Len(entries[l]) >= Amount[l]

Hits(l) == asking.limit = l /\ asking.at = "hit" /\ registry # "disabled"

\* hit: the storage tests and counts at once.  The middleware asks for the
\* window's statistics of every request.
HitAllowed(l) ==
    /\ up /\ Hits(l) /\ ~Full(l)
    /\ entries' = Noted(entries, l) /\ passed' = Noted(passed, l)
    /\ asking' = IF asking.by = "middleware" THEN [asking EXCEPT !.at = "stats"] ELSE NotAsking
    /\ UNCHANGED <<registry, opened>>

HitRefused(l) ==
    /\ up /\ Hits(l) /\ Full(l)
    /\ asking' = [asking EXCEPT !.at = "stats", !.refused = TRUE]
    /\ UNCHANGED <<registry, entries, passed, opened>>

\* Disabled since it was asked: hit answers True and counts nothing.
HitDisabled(l) ==
    /\ registry = "disabled" /\ asking.limit = l /\ asking.at = "hit"
    /\ asking' = IF asking.by = "middleware" THEN [asking EXCEPT !.at = "stats"] ELSE NotAsking
    /\ UNCHANGED <<registry, entries, passed, opened>>

\* get_window_stats, then RateLimitExceededError for a refused request.
Stats(l) ==
    /\ up /\ asking.limit = l /\ asking.at = "stats"
    /\ asking' = NotAsking
    /\ UNCHANGED <<registry, entries, passed, opened>>

\* Any other exception fails open: at hit, whose count may have been taken
\* before the connection broke, and at get_window_stats although the hit was
\* refused.
FailOpen(l, counted) ==
    /\ ~up /\ asking.limit = l /\ (asking.at = "hit" => Hits(l))
    /\ IF counted THEN /\ asking.at = "hit" /\ ~Full(l)
                       /\ entries' = Noted(entries, l) /\ opened' = Noted(opened, l)
                  ELSE UNCHANGED <<entries, opened>>
    /\ asking' = NotAsking
    /\ UNCHANGED <<registry, passed>>

\* Mutant: clear names the counter of another limit.
ClearedCustom == {"custom"}

\* clear resolves the namespace's own limit, never a custom_limit: the key of
\* that counter is another one.
Cleared == {"namespace"}

\* A disabled registry clears nothing.
Clear ==
    /\ up /\ registry = "enabled"
    /\ entries' = [l \in Limits |-> IF l \in Cleared THEN <<>> ELSE entries[l]]
    /\ passed' = [passed EXCEPT !["namespace"] = <<>>]
    /\ opened' = [opened EXCEPT !["namespace"] = <<>>]
    /\ UNCHANGED <<registry, asking>>

\* The moving window leaves behind what is older than it: the newest come first.
Aged(log) == [l \in Limits |->
    LET older == [i \in DOMAIN log[l] |-> log[l][i] + 1]
    IN  SubSeq(older, 1, Cardinality({i \in DOMAIN older : older[i] < Window}))]

Slide ==
    /\ \E l \in Limits : entries[l] # <<>>
    /\ entries' = Aged(entries) /\ passed' = Aged(passed) /\ opened' = Aged(opened)
    /\ UNCHANGED <<registry, asking>>

ThrottleNext ==
    \/ \E l \in Limits :
        \/ \E by \in {"dependency", "middleware"} : Ask(l, by)
        \/ HitAllowed(l) \/ HitRefused(l) \/ HitDisabled(l) \/ Stats(l)
        \/ \E counted \in BOOLEAN : FailOpen(l, counted)
    \/ \E enabled \in BOOLEAN : Configure(enabled)
    \/ Clear \/ Slide

-----------------------------------------------------------------------------
(* Properties.                                                              *)

\* The storage's counters, the request and the histories keep their types.
ThrottleTypeOK ==
    /\ {entries, passed, opened} \subseteq [Limits -> Seq(0..Window - 1)]
    /\ asking \in AskingType
    /\ registry \in {"unconfigured", "enabled", "disabled"}

\* In any window at most "<count>" requests are allowed under a limit, however
\* allowed, refused and cleared requests follow each other; those let in by an
\* error come on top.
LimitHolds == \A l \in Limits : Len(passed[l]) <= Amount[l]

\* A request is refused only after the amount was let in within the window and,
\* under the namespace's own limit, since the last clear: "Useful after a
\* successful authentication to reset login attempt counts".
RefusedOnlyWhenUsedUp ==
    [][\A l \in Limits :
          asking'.limit = l /\ asking'.refused /\ ~asking.refused =>
              Len(passed[l]) + Len(opened[l]) >= Amount[l]]_throttle
=============================================================================
