------------------------ MODULE MCManagedStateOverlap ------------------------
(* Instance of ManagedState for TLC: two processes whose commands overlap in  *)
(* every way.  MaxRequests bounds the requests of a behaviour: the commands   *)
(* that one may leave behind unfinished, and those that meet what it left.    *)
EXTENDS ManagedState, TLC

CONSTANTS s1, s2, q1, q2, MaxRequests

Two == {s1, s2}
Queued == {q1, q2}
Symmetry == Permutations(Two) \cup Permutations(Queued)

VARIABLE requests   \* requests made so far

BoundedInit == Init /\ requests = 0

BoundedNext ==
  \/ /\ requests < MaxRequests
     /\ \E s \in Sessions : Requested(s)
     /\ requests' = requests + 1
  \/ /\ GatewayRestarts \/ \E s \in Sessions : Unrequested(s)
     /\ UNCHANGED requests

BoundedSpec == BoundedInit /\ [][BoundedNext]_<<vars, requests>>
=============================================================================
