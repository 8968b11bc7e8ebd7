----------------------------- MODULE MCUpdater ------------------------------
(* Instance of Updater for TLC: two updates that may overlap, and a history   *)
(* with a fork, so that upstream can go forward or be rewritten.              *)
EXTENDS Updater

CONSTANTS s1, s2, r1, r2, fork

History == {<<r1, r2>>, <<r1, fork>>}
=============================================================================
