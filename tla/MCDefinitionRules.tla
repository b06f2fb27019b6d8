------------------------- MODULE MCDefinitionRules -------------------------
(* TLC instances of DefinitionRules: definitions a client may submit, sound  *)
(* ones and ones with a slip in them.                                        *)
EXTENDS DefinitionRules, TLC

NoSubs == [s \in {} |-> ""]

Tr(region, from, to, on) == [region |-> region, from |-> from, to |-> to, on |-> on, after |-> 0]
Timer(region, from, to, ms) == [region |-> region, from |-> from, to |-> to, on |-> "$timeout", after |-> ms]
Sub(managed, on_final, rules) == [managed |-> managed, on_final |-> on_final, rules |-> rules]
Join(when, region, state) == [when |-> when, target_region |-> region, target_state |-> state]
Region(id, states, initial, subs) == [id |-> id, states |-> states, initial |-> initial, subs |-> subs]

Flat(initial, subs, transitions, joins, actions) ==
  [regions |-> <<>>, states |-> {"open", "held", "done"}, initial |-> initial, subs |-> subs,
   transitions |-> transitions, joins |-> joins, actions |-> actions]
Parallel(regions, transitions, joins) ==
  [regions |-> regions, states |-> {}, initial |-> "", subs |-> NoSubs,
   transitions |-> transitions, joins |-> joins, actions |-> {}]

Kinds == {Sub(TRUE, {"done"}, {"open"}), Sub(FALSE, {"done"}, {}), Sub(FALSE, {}, {"done"}), Sub(TRUE, {"lost"}, {})}

\* A job that is held by a child, and started in any state.
FlatDefinitions ==
  {Flat(initial, compound :> sub,
        <<Tr(NoRegion, "open", to, "go"), Tr(region, "held", "open", "go"), Timer(region, "open", "open", 1)>>,
        <<>>, {state}) :
     initial \in {"open", "held", "lost"}, compound \in {"held", "gone"}, sub \in Kinds,
     to \in {"held", "lost"}, region \in {NoRegion, "a"}, state \in {"done", "lost"}}

\* Two regions that meet in a join.
ParallelDefinitions ==
  {Parallel(<<Region("a", {"open", "held", "done"}, "open", "held" :> sub), Region(id, states, "open", subs)>>,
            <<Tr("a", "open", "held", "go"), Timer("a", "open", "done", 1), Tr(region, "open", "held", "stop"),
              Tr("b", "held", "open", "go"), Timer("b", "held", "open", 2)>>,
            <<Join([a |-> "done"], target, state), Join([b |-> "done"], "a", "open")>>) :
     sub \in Kinds, id \in {"b", "a", ""}, states \in {{"open", "held", "done"}, {"open", "wait", "held"}},
     subs \in {NoSubs, "held" :> Sub(FALSE, {"done"}, {}), "wait" :> Sub(TRUE, {"open"}, {})},
     region \in {"b", "c"}, target \in {"b", "c"}, state \in {"done", "lost"}}

\* The child of "wait" belongs to one region, that of "held" to the other.
NestedDefinitions ==
  {Parallel(<<Region("a", {"open", "held", "done"}, "open", "held" :> Sub(TRUE, {"done"}, {})),
              Region("b", {"open", name}, "open", name :> Sub(managed, {"open"}, {}))>>,
            <<Tr("a", "open", "held", "go"), Tr("b", "open", name, "stop"), Timer("b", name, "open", 1)>>,
            <<>>) : name \in {"held", "wait"}, managed \in BOOLEAN}

\* A flat machine with a join.
HeldJoins ==
  {Flat("open", NoSubs, <<Tr(NoRegion, "open", "held", "go"), Timer(NoRegion, "held", "done", 1)>>,
        <<Join([_ |-> "held"], "audit", "due")>>, {})}

\* A parallel machine whose only region is called "_".
OneRegion ==
  {Parallel(<<Region(DefaultRegion, {"open", "held"}, "open", NoSubs)>>,
            <<Tr(DefaultRegion, "open", "held", "go"), Timer(DefaultRegion, "held", "open", 1)>>, <<>>)}

SubmittedDefinitions ==
  FlatDefinitions \union ParallelDefinitions \union NestedDefinitions \union HeldJoins \union OneRegion

AllTypes == {"go", "stop", "$timeout"}
=============================================================================
