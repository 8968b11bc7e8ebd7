----------------------------- MODULE AddressUnit -----------------------------
(***************************************************************************)
(* What the address unit promises the commands that restart it             *)
(* (airprint-server-addresses.service, src/airprint_server/raw_proxy.py):  *)
(* one run looks like one step.  It either succeeds, with the wanted       *)
(* addresses in place and on file, or fails and has gone part of the way,  *)
(* with the file as it was.  It never takes over an address that a run has *)
(* put on an interface and the file does not list.  It does not promise    *)
(* that an address no longer wanted is gone: a delete that fails is not    *)
(* noticed, and then only the file has forgotten the address.              *)
(*                                                                         *)
(* RawAddresses, which has the run command by command, implements this.    *)
(* ManagedState takes Succeeds and Fails for its steps of a run.           *)
(***************************************************************************)
CONSTANT Addresses

VARIABLES
  want,     \* the addresses the unit is asked for
  applied,  \* those raw-addresses.yaml lists
  aliases   \* those the unit has on the interfaces

Init == want = {} /\ applied = {} /\ aliases = {}

Old == applied \ want
New == want \ applied

\* Addresses that were applied before and are `theirs' now stay the
\* administrator's; a new one is refused when it is in place.  Of the old ones,
\* those the kernel has taken away are `gone'.
Succeeds(theirs, gone) ==
  /\ New \cap aliases = {}
  /\ theirs \subseteq (want \cap applied) \ aliases
  /\ gone \subseteq Old
  /\ aliases' = (aliases \ gone) \cup (want \ theirs)
  /\ applied' = want

\* Some of the old ones may be gone and some of the wanted ones added.
Fails ==
  /\ \E gone \in SUBSET Old, done \in SUBSET want :
       aliases' = (aliases \ gone) \cup done
  /\ UNCHANGED applied

\* A boot finds the files and none of the addresses.
Boots == aliases' = {} /\ UNCHANGED applied

Rests == UNCHANGED <<applied, aliases>>

\* What the unit is asked for may change with every step.
Next ==
  /\ want' \in SUBSET Addresses
  /\ \/ Rests \/ Fails \/ Boots
     \/ \E theirs, gone \in SUBSET Addresses : Succeeds(theirs, gone)

Spec == Init /\ [][Next]_<<want, applied, aliases>>
=============================================================================
