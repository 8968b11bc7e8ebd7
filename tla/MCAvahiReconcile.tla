-------------------------- MODULE MCAvahiReconcile --------------------------
(* Instances of AvahiReconcile for TLC, with two queues.  In                 *)
(* MCAvahiReconcile.cfg their names differ in punctuation only, so that they *)
(* share a label; in MCAvahiReconcileDoc.cfg they are long and differ only   *)
(* behind the 55th character.                                                *)
EXTENDS AvahiReconcile, TLC

CONSTANTS q1, q2, short, a1, a2

TwoQueues == {q1, q2}
SameLabel == [q \in TwoQueues |-> "label"]
OwnName   == [q \in TwoQueues |-> q]
CutLabel  == [q \in TwoQueues |-> short]

TwoAddresses == {a1, a2}
Symmetry == Permutations(TwoQueues) \cup Permutations(TwoAddresses)
=============================================================================
