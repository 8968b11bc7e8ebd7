------------------------------ MODULE MCWizard ------------------------------
(* Instance of Wizard for TLC: one process at a time, any number of commands  *)
(* and wizards, each of which may fail or be interrupted at every step.  What *)
(* failures leave behind is met by commands; a wizard starts in order.        *)
EXTENDS Wizard, TLC

CONSTANTS s1, q1, q2

Queued == {q1, q2}
Symmetry == Permutations(Queued)

InOrder ==
  /\ routes = ConfiguredRoutes(saved)
  /\ applied = VirtualAddresses(routes) /\ aliases = applied /\ ~unstopped

WizardsStartInOrder == stage = [s \in Sessions |-> "no"] /\ stage' # stage => InOrder
=============================================================================
