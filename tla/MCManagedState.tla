--------------------------- MODULE MCManagedState ---------------------------
(* Instance of ManagedState for TLC: one process at a time, any number of     *)
(* commands, each of which may fail or be interrupted at every step.          *)
EXTENDS ManagedState, TLC

CONSTANTS s1, q1, q2

Queued == {q1, q2}
Symmetry == Permutations(Queued)
=============================================================================
