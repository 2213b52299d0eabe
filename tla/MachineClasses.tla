--------------------------- MODULE MachineClasses ---------------------------
(***************************************************************************)
(* lib.fsm's class bodies: what the statements state(...), transition(...),  *)
(* remove_state(...) and remove_transitions(...), and the decorators of      *)
(* guards and callbacks, make of a StateMachine class and its bases.        *)
(*                                                                         *)
(* Classes are numbered, a class after its bases.  State names are strings;  *)
(* NoState stands for a from_state or to that is left out.                      *)
(***************************************************************************)
EXTENDS Naturals, Sequences, SequencesExt, TLC

CONSTANTS
    MachineBases,   \* MachineBases[c]: bases of class c, in order
    MachineBodies,  \* MachineBodies[c]: statements of its body, in order
    NoState             \* None

MachineClasses == 1..Len(MachineBodies)

-----------------------------------------------------------------------------
(* Statements.                                                              *)

State(name, initial) == [op |-> "state", name |-> name, initial |-> initial]
TransitionTo(from, to) == [op |-> "transition", from |-> from, to |-> to]
RemoveState(name) == [op |-> "remove_state", name |-> name]
RemoveTransitions(from, to) == [op |-> "remove_transitions", from |-> from, to |-> to]

Marked(op, from, to) == [op |-> op, from |-> from, to |-> to]
GuardTransition(from, to) == Marked("guard", from, to)
BeforeTransition(from, to) == Marked("before", from, to)
AfterTransition(from, to) == Marked("after", from, to)
AfterTransitionFailure(from, to) == Marked("after_failure", from, to)
AfterGuardFailure(from, to) == Marked("after_guard_failure", from, to)

FitsState(pattern, s) == pattern \in {NoState, s}

-----------------------------------------------------------------------------
(* MachineNamespace: initial says of each state whether it is initial,       *)
(* arrows are the pairs of its transitions.                                 *)

Statement(d, s) ==
    CASE s.op = "state" ->
            [d EXCEPT !.initial = (s.name :> s.initial) @@ @]
      [] s.op = "transition" ->
            [d EXCEPT !.arrows = @ \cup {<<s.from, t>> : t \in s.to}]
      [] s.op = "remove_state" ->
            [initial |-> [n \in DOMAIN d.initial \ {s.name} |-> d.initial[n]],
             arrows |-> {a \in d.arrows : s.name \notin {a[1], a[2]}}]
      [] s.op = "remove_transitions" ->
            [d EXCEPT !.arrows = {a \in @ : ~(FitsState(s.from, a[1]) /\ FitsState(s.to, a[2]))}]
      [] OTHER -> d

\* The bases from the last to the first: the first one's states win.
Inherited(bases, of) ==
    LET nearer(b, d) == [initial |-> of[b].initial @@ d.initial,
                         arrows |-> d.arrows \cup of[b].arrows]
    IN FoldRight(nearer, bases, [initial |-> <<>>, arrows |-> {}])

\* A class sees the classes before it.
Declarations ==
    LET step(of, body) ==
            Append(of, FoldLeft(Statement, Inherited(MachineBases[Len(of) + 1], of), body))
    IN FoldLeft(step, <<>>, MachineBodies)

\* _validate: a class that has states is made only if this holds.
Valid(c) ==
    LET d == Declarations[c]
        initials == {n \in DOMAIN d.initial : d.initial[n]}
    IN DOMAIN d.initial # {} =>
          /\ \A n, m \in initials : n = m
          /\ \A a \in d.arrows : {a[1], a[2]} \subseteq DOMAIN d.initial

ASSUME MachineClassesAssumption ==
    /\ \A c \in MachineClasses : \A n \in 1..Len(MachineBases[c]) : MachineBases[c][n] < c
    /\ \A c \in MachineClasses : Valid(c)

\* states(): of class c.
StatesOf(c) == DOMAIN Declarations[c].initial

\* initial_state() or "".
InitialState(c) ==
    IF \E n \in StatesOf(c) : Declarations[c].initial[n]
    THEN CHOOSE n \in StatesOf(c) : Declarations[c].initial[n]
    ELSE ""

\* successors()
Successors(c, s) == {a[2] : a \in {x \in Declarations[c].arrows : x[1] = s}}

\* _match_guards and the like.  The metaclass looks through the body of the
\* class only: guards and callbacks of a base are not inherited.
Matching(c, op, from, to) ==
    SelectSeq(MachineBodies[c], LAMBDA s :
        s.op = op /\ FitsState(s.from, from) /\ FitsState(s.to, to))
=============================================================================
