---------------------------- MODULE MCRawGateway ----------------------------
(* Instances of RawGateway for TLC.  MCRawGateway.cfg: two private clients    *)
(* that are interchangeable, two listeners and one slot, so that one held     *)
(* slot already refuses the other connection (safety).                        *)
(* MCRawGatewayLive.cfg: one private client and one that the address check    *)
(* refuses (liveness, without symmetry).                                      *)
EXTENDS RawGateway, TLC

CONSTANTS c1, c2

Clients == {c1, c2}
ClientSymmetry == Permutations(Clients)
=============================================================================
