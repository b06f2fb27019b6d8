------------------------- MODULE MCMachineRegistry -------------------------
(* TLC instances of MachineRegistry: machines that refer to one another.   *)
EXTENDS MachineRegistry, TLC

\* Definitions without references (of two structures, and one that validate()
\* refuses), and definitions that refer to one machine.
Leaf(tag, shape) == [valid |-> TRUE, shape |-> shape, refs |-> {}, tag |-> tag]
Broken == [valid |-> FALSE, shape |-> "flat", refs |-> {}, tag |-> 2]
Refers(m, shape) == [valid |-> TRUE, shape |-> "flat", refs |-> {[machine |-> m, shape |-> shape]}, tag |-> 0]

ThreeMachines == {"a", "b", "c"}
OneMachine == {"a"}

ReferringBodies ==
  {Leaf(0, "flat"), Leaf(0, "parallel"), Broken} \union {Refers(m, "any") : m \in ThreeMachines}
    \union {Refers("b", "flat")}
TwoBodies == {Leaf(0, "flat"), Leaf(1, "flat")}

Registered == {"a" :> Leaf(0, "flat")}

\* Nothing, or two definitions that were registered at one time, each before the
\* other was to be seen.
EmptyOrCyclic == {<<>>, "a" :> Refers("b", "any") @@ "b" :> Refers("a", "any")}

One == {"q1"}
Two == {"q1", "q2"}
OneProcess == {"p1"}
AllAtHome == [r \in Requests |-> "p1"]
=============================================================================
