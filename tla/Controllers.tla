---------------------------- MODULE Controllers -----------------------------
(***************************************************************************)
(* lib.ext.fastapi.controllers: classes of route methods and before_action   *)
(* hooks, their registration, and what runs for a request.                  *)
(*                                                                         *)
(* Classes are defined in some order, a class after those it inherits from, *)
(* and registered at any time.  A route method carries one _RouteDefinition, *)
(* which all classes that inherit the method share; the metaclass stores in *)
(* it the hooks that apply.  Parameters of methods are left to FastAPI.      *)
(***************************************************************************)
EXTENDS Naturals, Sequences, FiniteSets, SequencesExt

CONSTANTS
    Controllers,    \* classes
    Lineage,        \* Lineage[c]: reversed __mro__ of c, c last
    OwnRoutes,      \* OwnRoutes[c]: routes its body decorates, in order
    OwnHooks,       \* OwnHooks[c]: hooks its body decorates, in order
    Body,           \* Body[n]: the helper that route method n answers with
    Segments,       \* what is between the slashes of a request's path
    Paths,          \* paths of requests: sequences of segments
    Patterns,       \* Patterns[p]: the segments that p, a segment with a
                    \* parameter in a route's path, matches
    Braced,         \* patterns that start with "{"
    NoHandler,
    Unset,          \* None
    MaxIncluded     \* bound: routers included

Verbs == {"GET", "POST", "PUT", "PATCH", "DELETE", "HEAD", "OPTIONS", "TRACE"}

\* What a decorator leaves on a method; what FastAPI makes of the other options
\* is its own.
RouteDefinition(name, verb, path) == [name |-> name, verb |-> verb, path |-> path]
GetRoute(name, path) == RouteDefinition(name, "GET", path)
PostRoute(name, path) == RouteDefinition(name, "POST", path)
PutRoute(name, path) == RouteDefinition(name, "PUT", path)
PatchRoute(name, path) == RouteDefinition(name, "PATCH", path)
HeadRoute(name, path) == RouteDefinition(name, "HEAD", path)
OptionsRoute(name, path) == RouteDefinition(name, "OPTIONS", path)
TraceRoute(name, path) == RouteDefinition(name, "TRACE", path)
DeleteRoute(name, path) == RouteDefinition(name, "DELETE", path)

\* before_action(only, exclude): with both, only is taken.
BeforeAction(name, only, exclude) ==
    [name |-> name,
     applies |-> CASE only # Unset -> "only" [] exclude # Unset -> "exclude" [] OTHER -> "all",
     routes |-> IF only # Unset THEN only ELSE exclude]

ASSUME ControllersAssumption ==
    /\ \A c \in Controllers :
          /\ \A n \in 1..Len(OwnRoutes[c]) :
                DOMAIN OwnRoutes[c][n] = {"name", "verb", "path"}
                /\ OwnRoutes[c][n].verb \in Verbs
          /\ \A n \in 1..Len(OwnHooks[c]) :
                OwnHooks[c][n].applies \in {"all", "only", "exclude"}
          /\ Last(Lineage[c]) = c
    /\ Paths \subseteq Seq(Segments)
    /\ DOMAIN Patterns \cap Segments = {} /\ Braced \subseteq DOMAIN Patterns
    /\ MaxIncluded \in Nat

VARIABLES
    defined,        \* classes defined, in order
    before,         \* before[d]: before_actions of _RouteDefinition d
    handlers,       \* the application's handlers
    included,       \* routers included so far
    engine,         \* the template engine of Controller
    answer          \* the last request: its handler, what ran, what came of it

controllers == <<defined, before, handlers, included, engine, answer>>

-----------------------------------------------------------------------------
(* The metaclass.                                                           *)

\* A dict updated with pairs: the first occurrence of a name gives its place,
\* the last its value.
AsDict(s) ==
    LET keeps(n) == ~\E m \in 1..(n - 1) : s[m].name = s[n].name
        value(n) == s[CHOOSE m \in 1..Len(s) :
                        s[m].name = s[n].name
                        /\ \A k \in (m + 1)..Len(s) : s[k].name # s[n].name]
        names == SelectSeq([n \in 1..Len(s) |-> n], keeps)
    IN [n \in 1..Len(names) |-> value(names[n])]

\* _route_definitions: each with the class whose body has it.
RoutesOf == [c \in Controllers |->
    AsDict(FlattenSeq([k \in 1..Len(Lineage[c]) |->
        LET own == OwnRoutes[Lineage[c][k]]
        IN [n \in 1..Len(own) |->
              [name |-> own[n].name, verb |-> own[n].verb, path |-> own[n].path,
               def |-> <<Lineage[c][k], own[n].name>>]]]))]

\* _before_action_definitions
HooksOf == [c \in Controllers |->
    AsDict(FlattenSeq([k \in 1..Len(Lineage[c]) |-> OwnHooks[Lineage[c][k]]]))]

Names(s) == [n \in 1..Len(s) |-> s[n].name]

\* The hooks of class c that run before a route.
Applicable(c, route) ==
    Names(SelectSeq(HooksOf[c], LAMBDA h :
        CASE h.applies = "all" -> TRUE
          [] h.applies = "only" -> route \in h.routes
          [] h.applies = "exclude" -> route \notin h.routes))

\* A _RouteDefinition is known by the class and the method it decorates.
DefinitionsOf(c) == {RoutesOf[c][n].def : n \in 1..Len(RoutesOf[c])}
Definitions == UNION {DefinitionsOf(c) : c \in Controllers}

\* set_template_engine, or none of it, at startup.
Engines == {"none", "sync", "async"}
NoAnswer ==
    [by |-> NoHandler, ran |-> <<>>, path |-> <<>>, verb |-> "GET", done |-> FALSE, sent |-> FALSE]

ControllersInit ==
    /\ defined = <<>>
    /\ before = [d \in Definitions |-> <<>>]
    /\ handlers = {}
    /\ included = 0
    /\ engine \in Engines
    /\ answer = NoAnswer

-----------------------------------------------------------------------------
(* Classes are defined.                                                     *)

\* Mutant: a definition keeps the hooks the first class gave it.
DefineOnce(c) ==
    /\ ~Contains(defined, c)
    /\ \A k \in 1..(Len(Lineage[c]) - 1) : Contains(defined, Lineage[c][k])
    /\ defined' = Append(defined, c)
    /\ before' = [d \in Definitions |->
          IF d \in DefinitionsOf(c) /\ before[d] = <<>> THEN Applicable(c, d[2]) ELSE before[d]]
    /\ UNCHANGED <<handlers, included, engine, answer>>

\* class c: the definitions it shares with its bases are overwritten.
Define(c) ==
    /\ ~Contains(defined, c)
    /\ \A k \in 1..(Len(Lineage[c]) - 1) : Contains(defined, Lineage[c][k])
    /\ defined' = Append(defined, c)
    /\ before' = [d \in Definitions |->
          IF d \in DefinitionsOf(c) THEN Applicable(c, d[2]) ELSE before[d]]
    /\ UNCHANGED <<handlers, included, engine, answer>>

-----------------------------------------------------------------------------
(* as_router and register.                                                  *)

\* A segment with a parameter counts as one when it starts with it.
Params(path) == Cardinality({n \in 1..Len(path) : path[n] \in Braced})

\* Mutant: shorter paths first, as they are written.
SortKeyByLength(path) == <<0, 0, Len(path)>>

\* _route_sort_key: fewer parameters first, then more static segments.
SortKey(path) == <<Params(path), Len(path) - Params(path), Len(path)>>
Sooner(p, q) ==
    \/ p[1] < q[1]
    \/ p[1] = q[1] /\ p[2] > q[2]
    \/ p[1] = q[1] /\ p[2] = q[2] /\ p[3] < q[3]

\* Routers are tried in the order they were included, and the routes of one as
\* sorted() leaves them, which is stable.
Tried(g, h) ==
    \/ g.router < h.router
    \/ /\ g.router = h.router
       /\ \/ Sooner(SortKey(g.path), SortKey(h.path))
          \/ SortKey(g.path) = SortKey(h.path) /\ g.place < h.place

Methods(c) == {Names(HooksOf[c])[n] : n \in 1..Len(HooksOf[c])}

\* _build_handler keeps the definition's hooks of now; one the class does not
\* have is an AttributeError.
Builds(c, d) == \A n \in 1..Len(before[d]) : before[d][n] \in Methods(c)
Handler(c, n) ==
    LET route == RoutesOf[c][n] IN
    [of |-> c, name |-> route.def[2], def |-> route.def, verb |-> route.verb,
     path |-> route.path, before |-> before[route.def], router |-> included,
     place |-> n, when |-> defined]

\* register(app, only=[...]) or exclude; unknown names are a ValueError.
Register(c, kept) ==
    /\ Contains(defined, c)
    /\ included < MaxIncluded /\ included' = included + 1
    /\ LET built == {Handler(c, n) :
                       n \in {n \in 1..Len(RoutesOf[c]) : RoutesOf[c][n].name \in kept}}
       IN handlers' = IF \A h \in built : Builds(c, h.def) THEN handlers \cup built
                                                        ELSE handlers
    /\ UNCHANGED <<defined, before, engine, answer>>

-----------------------------------------------------------------------------
(* A request.                                                               *)

Matches(path, asked) ==
    /\ Len(path) = Len(asked)
    /\ \A n \in 1..Len(path) :
          \/ path[n] = asked[n]
          \/ path[n] \in DOMAIN Patterns /\ asked[n] \in Patterns[path[n]]

\* What a route answers with: json, text, a redirect, a stream, raw bytes or
\* nothing, or a template.
Helpers == {"plain", "render", "fragment", "block", "macro"}

\* Rendering needs an engine, all but a whole page an asynchronous one; the
\* template may raise, and so may the callback that is told of the rendering.
Rendered(helper) ==
    CASE helper = "plain" -> {TRUE}
      [] engine = "none" -> {FALSE}
      [] helper # "render" /\ engine = "sync" -> {FALSE}
      [] OTHER -> BOOLEAN

\* The first handler that matches takes it.  Hooks run in order on a new
\* instance; one that raises or returns a Response ends it, and after the last
\* the route method runs.
Request(verb, path) ==
    LET fits == {h \in handlers : h.verb = verb /\ Matches(h.path, path)}
        answered(h, ran, done, sent) ==
            answer' = [by |-> h, ran |-> ran, path |-> path, verb |-> verb,
                       done |-> done, sent |-> sent]
    IN /\ \E h \in fits :
            /\ \A g \in fits \ {h} : Tried(h, g)
            /\ \/ \E stop \in 1..Len(h.before) :
                     answered(h, SubSeq(h.before, 1, stop), FALSE, TRUE)
               \/ \E sent \in Rendered(Body[h.name]) : answered(h, h.before, TRUE, sent)
       /\ UNCHANGED <<defined, before, handlers, included, engine>>

ControllersNext ==
    \/ \E c \in Controllers :
          \/ Define(c)
          \/ \E kept \in SUBSET {r.name : r \in {RoutesOf[c][n] : n \in 1..Len(RoutesOf[c])}} :
                kept # {} /\ Register(c, kept)
    \/ \E verb \in Verbs, path \in Paths : Request(verb, path)

ControllersSpec == ControllersInit /\ [][ControllersNext]_controllers
-----------------------------------------------------------------------------
(* Properties.                                                              *)

\* A class that shares the route's definition was defined after h's class and
\* before h was built.
Redefined(h) ==
    \E n, m \in 1..Len(h.when) :
        n < m /\ h.when[n] = h.of /\ h.def \in DefinitionsOf(h.when[m])

\* The classes, up to when h was built, that share the route's definition.
Sharers(h) == {n \in 1..Len(h.when) : h.def \in DefinitionsOf(h.when[n])}

\* A route method runs only after every hook its class declares for it, in
\* whatever order classes are defined and registered: unless a class that
\* inherits the route was defined between the class and its registration.  Then
\* it runs after the hooks that the last such class declares for it, which may
\* be fewer.
HooksGuardRoutes ==
    answer.done =>
        /\ ~Redefined(answer.by) => answer.ran = Applicable(answer.by.of, answer.by.name)
        /\ \E k \in Sharers(answer.by) :
              /\ \A n \in Sharers(answer.by) : n <= k
              /\ answer.ran = Applicable(answer.by.when[k], answer.by.name)

\* A path without parameters is answered by the route declared for it, not by
\* one of the same router that has a segment "{...}" in its place: "/new" is not
\* taken for an id, in whatever order the methods are written.  (A segment that
\* has its parameter further back, as "/n{...}", counts as static, and goes
\* before "/new" if it is written first.)
StaticRoutesFirst ==
    answer.done /\ Params(answer.by.path) > 0 =>
        ~\E h \in handlers :
            /\ h.router = answer.by.router
            /\ h.verb = answer.verb
            /\ h.path = answer.path
=============================================================================
