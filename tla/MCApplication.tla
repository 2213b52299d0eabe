---------------------------- MODULE MCApplication ----------------------------
(* Instances of Application for TLC. *)
EXTENDS Application

CONSTANT Second     \* a worker

\* An order that is paid for, or goes back to pending; one that does not go
\* back.
MCBodies ==
    <<<<State("pending", TRUE), State("paying", FALSE), State("paid", FALSE),
        TransitionTo("pending", {"paying"}), TransitionTo("paying", {"pending", "paid"}),
        GuardTransition(NoState, "paid"), BeforeTransition("pending", "paying"),
        AfterTransition(NoState, "paid"), AfterTransitionFailure(NoState, NoState),
        AfterGuardFailure(NoState, "paid")>>,
      <<State("held", FALSE), TransitionTo("paying", {"held"}), RemoveState("held"),
        RemoveTransitions("paying", "pending"), BeforeTransition(NoState, "paid")>>>>
MCBases == <<<<>>, <<1>>>>
MCClassOf == [w \in Workers |-> IF w = Second THEN 2 ELSE 1]

\* Tables of posts: empty, with one or two posts of a title, or with the
\* second slug of a title only.
Post(n) == [title |-> "t", slug |-> [of |-> "t", n |-> n], new |-> FALSE]
MCStored ==
    {NoDrafts, [NoDrafts EXCEPT ![1] = Post(2)],
     [NoDrafts EXCEPT ![1] = Post(1), ![2] = Post(2)]}
ByHand == [of |-> "t", n |-> 1]

\* order_by values: none, the shared key, the id.
Column1(c, d) == <<[name |-> c, desc |-> d]>>
MCSorts == {<<>>, Column1("key", FALSE), Column1("key", TRUE), Column1("id", TRUE)}

\* A base controller with two hooks, one that inherits it, adds a hook and
\* overrides a route, and one apart with a parameter inside a segment.
Classes == {"Base", "Posts", "Other"}
MCLineage == [Base |-> <<"Base">>, Posts |-> <<"Base", "Posts">>, Other |-> <<"Other">>]
MCRoutes ==
    [Base |-> <<GetRoute("show", <<"{}">>), GetRoute("fresh", <<"new">>)>>,
     Posts |-> <<GetRoute("edit", <<"{}", "edit">>), GetRoute("show", <<"{}">>)>>,
     Other |-> <<GetRoute("show", <<"{}">>), GetRoute("draft", <<"n{}">>)>>]
MCHooks ==
    [Base |-> <<BeforeAction("login", Unset, Unset), BeforeAction("load", Unset, {"fresh"})>>,
     Posts |-> <<BeforeAction("own", {"edit", "fresh"}, Unset)>>,
     Other |-> <<>>]
MCBody == [n \in {"show", "fresh", "edit", "draft"} |->
    CASE n = "show" -> "render" [] n = "edit" -> "block" [] OTHER -> "plain"]
MCPatterns == [p \in {"{}", "n{}"} |-> IF p = "{}" THEN {"new", "1", "edit"} ELSE {"new"}]
MCPaths == {<<"new">>, <<"1">>, <<"1", "edit">>}

\* A form with a text and a select; French lacks some of it.
MCFields == <<[label |-> "name", options |-> <<>>],
              [label |-> "kind", options |-> <<"one", "two">>]>>
MCShipped == [en |-> {"name", "kind", "one", "two"}, fr |-> {"kind", "one"}]
MCBase == [t \in Tags |-> IF t = "en" THEN "en" ELSE "fr"]

\* 8:30 and 9:00 of a first of the month, a ninth at 1:00, and the day after
\* the first.
Instant(m, h, d) == [second |-> 0, minute |-> m, hour |-> h, day |-> d, month |-> 1]
MCCalendar ==
    <<Instant(30, 8, 1), Instant(0, 9, 1), Instant(0, 1, 9), Instant(0, 9, 2), Instant(30, 9, 2)>>
EveryMinute == [f \in CronFields |-> IF f = "second" THEN 0 ELSE Star]
MCSchedule(k, e, f) == [kind |-> k, expr |-> e, fields |-> f, every |-> 2, on |-> 2]
MCDeclared ==
    {MCSchedule("cron", <<0, 9, Star, Star>>, EveryMinute),
     MCSchedule("cron", <<>>, [EveryMinute EXCEPT !["minute"] = 0]),
     MCSchedule("interval", <<>>, EveryMinute),
     MCSchedule("once", <<>>, EveryMinute)}
=============================================================================
