--------------------------- MODULE MCRawAddresses ---------------------------
(* Instances of RawAddresses for TLC: two virtual addresses are enough for a *)
(* run to succeed on the first and fail on the second.                       *)
EXTENDS RawAddresses

(* For MCRawAddressesDoc.cfg: one administrator who changes the exposure only *)
(* between runs, no kill, no reboot and no command that fails.  All that can  *)
(* go wrong is a run that refuses an address: another device has it, or it is *)
(* on the interface already.                                                  *)
SerialNext ==
  \/ /\ Run /\ UNCHANGED stuck
     /\ result' = "failed" => pc = "probe" \/ (pc = "check" /\ todo # {})
     /\ pc = "check" /\ pc' = "probe" =>
          \E i \in Items : IsCurrent(i) /\ ~OnInterface(i)
  \/ pc = "idle" /\ (StartRun \/ \E S \in SUBSET Items : WriteRoutes(S))
  \/ \E i \in Items : pc = "idle" /\ LanAppears(i)

SerialSpec == Init /\ [][SerialNext]_vars
=============================================================================
