---------------------------- MODULE RawAddresses ----------------------------
(***************************************************************************)
(* The virtual printer addresses: apply_virtual_addresses of               *)
(* src/airprint_server/raw_proxy.py, run by the oneshot unit               *)
(* airprint-server-addresses.service at boot and whenever a command        *)
(* reconciles the raw services.                                            *)
(*                                                                         *)
(* A run compares the addresses raw-proxy.yaml asks for with those that    *)
(* raw-addresses.yaml says the last successful run applied, deletes the    *)
(* ones no longer wanted, and for each wanted one looks at the interface,  *)
(* probes the LAN with arping and adds it.  Each of these is a command of  *)
(* its own, so a run may fail, be killed, or be cut short by the next      *)
(* `systemctl restart' between any two of them.  Two of these commands go  *)
(* unchecked: a delete that fails is passed over, and a look at the        *)
(* interface that fails shows it empty.  The machine may reboot, which     *)
(* loses the kernel's addresses and keeps the files; an administrator and  *)
(* other LAN devices may take an address at any time.                      *)
(*                                                                         *)
(* An item i \in Items is one VirtualAddress, an address on an interface,  *)
(* numbered in the sorted order in which a run walks the items.  Addresses *)
(* that the administrator configures are not /32, so that the run's        *)
(* `ip address del <address>/32' never matches them.                       *)
(***************************************************************************)
EXTENDS Integers, FiniteSets

CONSTANT NItems     \* number of virtual addresses the state may ask for

ASSUME ItemsAssumption == NItems \in Nat

Items == 1..NItems

VARIABLES
  routes,   \* addresses in raw-proxy.yaml
  applied,  \* addresses in raw-addresses.yaml
  kernel,   \* /32 addresses the runs have put on the interfaces
  foreign,  \* addresses the administrator has on the interfaces
  lan,      \* addresses that answer arping from another LAN device
  pc,       \* where the run is; "idle" when none is going on
  want,     \* the run's `desired'
  todo,     \* what is left of the list the run walks
  added,    \* history: addresses this run has added
  before,   \* history: what kernel was when this run began
  result,   \* how the last run ended
  leaked,   \* history: addresses added since boot by runs that did not finish
  stuck,    \* history: addresses whose delete has failed since boot
  late      \* history: addresses another device took after a run had probed them

runVars == <<pc, want, todo, added, before, result>>
vars == <<routes, applied, kernel, foreign, lan, runVars, leaked, stuck, late>>

\* The item the run's loop is at: items are walked in sorted order.
IsCurrent(i) == i \in todo /\ \A j \in todo : i <= j

Init ==
  /\ routes = {} /\ applied = {} /\ kernel = {} /\ foreign = {} /\ lan = {}
  /\ pc = "idle" /\ want = {} /\ todo = {} /\ added = {} /\ before = {}
  /\ result = "none" /\ leaked = {} /\ stuck = {} /\ late = {}

-----------------------------------------------------------------------------
(* The environment                                                         *)

\* A command has rewritten raw-proxy.yaml (write_routes) and not yet restarted
\* the unit.
WriteRoutes(S) ==
  /\ routes # S
  /\ routes' = S
  /\ UNCHANGED <<applied, kernel, foreign, lan, runVars, leaked, stuck, late>>

AdminAdds(i) ==
  /\ i \notin foreign
  /\ foreign' = foreign \cup {i}
  /\ UNCHANGED <<routes, applied, kernel, lan, runVars, leaked, stuck, late>>

\* A device that takes an address after the run has probed it cannot be seen.
LanAppears(i) ==
  /\ i \notin lan
  /\ lan' = lan \cup {i}
  /\ late' = IF i \in kernel \/ (pc = "add" /\ IsCurrent(i))
             THEN late \cup {i} ELSE late
  /\ UNCHANGED <<routes, applied, kernel, foreign, runVars, leaked, stuck>>

LanLeaves(i) ==
  /\ i \in lan
  /\ lan' = lan \ {i}
  /\ late' = late \ {i}
  /\ UNCHANGED <<routes, applied, kernel, foreign, runVars, leaked, stuck>>

-----------------------------------------------------------------------------
(* The run                                                                 *)

\* A run that has not saved leaves what it added behind.
Abandon(how) ==
  /\ pc' = "idle" /\ result' = how
  /\ leaked' = leaked \cup added
  /\ todo' = {} /\ added' = {} /\ before' = {}
  /\ UNCHANGED want

\* An exception ends the run: the unit fails and is not restarted.
Fail == Abandon("failed") /\ UNCHANGED <<applied, kernel>>

Killed ==
  /\ pc # "idle"
  /\ Abandon("failed")
  /\ UNCHANGED <<routes, applied, kernel, foreign, lan, stuck, late>>

\* ExecStart: load_routes, _load_applied_addresses and the list to delete.
Begin ==
  /\ pc' = "del" /\ want' = routes /\ todo' = applied \ routes
  /\ added' = {} /\ result' = "none"

\* systemctl restart of the oneshot unit: a run that is going on is killed.
StartRun ==
  /\ Begin /\ before' = kernel
  /\ leaked' = leaked \cup added
  /\ UNCHANGED <<routes, applied, kernel, foreign, lan, stuck, late>>

\* The kernel comes up without the run's addresses and with none of the
\* administrator's or some of them, and the enabled unit starts.
Reboot ==
  /\ Begin /\ before' = {}
  /\ kernel' = {} /\ foreign' \in SUBSET foreign
  /\ leaked' = {} /\ stuck' = {} /\ late' = {}
  /\ UNCHANGED <<routes, applied, lan>>

\* ip address del <address>/32, unchecked: the run goes on without knowing
\* whether the address has gone.
DeleteOld(i) ==
  /\ pc = "del" /\ IsCurrent(i)
  /\ todo' = todo \ {i}
  /\ \/ /\ kernel' = kernel \ {i}
        /\ leaked' = leaked \ {i} /\ stuck' = stuck \ {i}
     \/ /\ i \in kernel /\ stuck' = stuck \cup {i}
        /\ UNCHANGED <<kernel, leaked>>
  /\ UNCHANGED <<routes, applied, foreign, lan, pc, want, added, before, result,
                 late>>

\* Mutant: the wanted addresses are probed without looking at the interface.
DeletedOld_Probes ==
  /\ pc = "del" /\ todo = {}
  /\ pc' = "probe" /\ todo' = want
  /\ UNCHANGED <<routes, applied, kernel, foreign, lan, want, added, before,
                 result, leaked, stuck, late>>

DeletedOld ==
  /\ pc = "del" /\ todo = {}
  /\ pc' = "check" /\ todo' = want
  /\ UNCHANGED <<routes, applied, kernel, foreign, lan, want, added, before,
                 result, leaked, stuck, late>>

OnInterface(j) == j \in kernel \cup foreign

\* Mutant: an address the last run applied is restored without a probe.
NeedsProbe_Fresh(j) == j \notin applied

\* Whether the address is probed before it is added.
NeedsProbe(j) == TRUE

\* Mutant: an address that is in place is taken over.
Check_TakesOver(i) ==
  /\ pc = "check" /\ IsCurrent(i)
  /\ \/ /\ OnInterface(i)
        /\ todo' = todo \ {i}
        /\ UNCHANGED pc
     \/ /\ ~OnInterface(i)
        /\ pc' = IF NeedsProbe(i) THEN "probe" ELSE "add"
        /\ UNCHANGED todo
  /\ UNCHANGED <<routes, applied, kernel, foreign, lan, want, added, before,
                 result, leaked, stuck, late>>

\* if item.address in _interface_addresses(...): an address that the last run
\* applied is in place, any other one is refused.  One that is not shown, be it
\* that `ip address show' failed, is probed.
Check(i) ==
  /\ pc = "check" /\ IsCurrent(i)
  /\ \/ /\ OnInterface(i) /\ i \in applied
        /\ todo' = todo \ {i}
        /\ UNCHANGED <<pc, want, added, before, result, leaked, applied, kernel>>
     \/ OnInterface(i) /\ i \notin applied /\ Fail
     \/ /\ pc' = IF NeedsProbe(i) THEN "probe" ELSE "add"
        /\ UNCHANGED <<todo, want, added, before, result, leaked, applied, kernel>>
  /\ UNCHANGED <<routes, foreign, lan, stuck, late>>

\* validate_virtual_address_available: the interface once more, which may again
\* fail to show the address, then arping.
Probe(i) ==
  /\ pc = "probe" /\ IsCurrent(i)
  /\ \/ (OnInterface(i) \/ i \in lan) /\ Fail
     \/ /\ i \notin lan
        /\ pc' = "add"
        /\ UNCHANGED <<todo, want, added, before, result, leaked, applied, kernel>>
  /\ UNCHANGED <<routes, foreign, lan, stuck, late>>

\* ip address add <address>/32, which may fail, and does when that very address
\* is in place.
Add(i) ==
  /\ pc = "add" /\ IsCurrent(i)
  /\ \/ /\ i \notin kernel
        /\ kernel' = kernel \cup {i}
        /\ added' = added \cup {i}
        /\ todo' = todo \ {i}
        /\ pc' = "check"
        /\ UNCHANGED <<want, before, result, leaked, applied>>
     \/ Fail
  /\ UNCHANGED <<routes, foreign, lan, stuck, late>>

\* Mutant: the file lists only the addresses this run has added.
Save_OnlyAdded ==
  /\ pc = "check" /\ todo = {}
  /\ applied' = added
  /\ pc' = "idle" /\ result' = "ok" /\ added' = {} /\ before' = {}
  /\ UNCHANGED <<routes, kernel, foreign, lan, want, todo, leaked, stuck, late>>

\* Mutant: a run that added nothing new keeps the file as it is.
Save_OnlyWhenAdded ==
  /\ pc = "check" /\ todo = {}
  /\ applied' = IF added = {} THEN applied ELSE want
  /\ pc' = "idle" /\ result' = "ok" /\ added' = {} /\ before' = {}
  /\ UNCHANGED <<routes, kernel, foreign, lan, want, todo, leaked, stuck, late>>

\* atomic_write_yaml of what is applied now; the write may fail.
Save ==
  /\ pc = "check" /\ todo = {}
  /\ \/ /\ applied' = want
        /\ pc' = "idle" /\ result' = "ok" /\ added' = {} /\ before' = {}
        /\ leaked' = leaked \ want /\ stuck' = stuck \ want
        /\ UNCHANGED <<want, todo, kernel>>
     \/ Fail /\ UNCHANGED stuck
  /\ UNCHANGED <<routes, foreign, lan, late>>

Run ==
  \/ DeletedOld \/ Save
  \/ \E i \in Items : DeleteOld(i) \/ Check(i) \/ Probe(i) \/ Add(i)

Next ==
  \/ Run \/ StartRun \/ Killed \/ Reboot
  \/ \E S \in SUBSET Items : WriteRoutes(S)
  \/ \E i \in Items : AdminAdds(i) \/ LanAppears(i) \/ LanLeaves(i)

Spec == Init /\ [][Next]_vars

-----------------------------------------------------------------------------
TypeOK ==
  /\ routes \subseteq Items /\ applied \subseteq Items /\ kernel \subseteq Items
  /\ foreign \subseteq Items /\ lan \subseteq Items /\ want \subseteq Items
  /\ todo \subseteq Items /\ added \subseteq Items /\ before \subseteq Items
  /\ leaked \subseteq Items /\ stuck \subseteq Items /\ late \subseteq Items
  /\ pc \in {"idle", "del", "check", "probe", "add"}
  /\ result \in {"none", "ok", "failed"}
  /\ pc \in {"probe", "add"} => todo # {}

\* The host shares an address with another LAN device only when that device
\* took it after the host had probed it: also after a reboot, and for
\* addresses that earlier runs had applied, nothing is claimed unprobed
\* (apply_virtual_addresses, validate_virtual_address_available).
ConflictsAreLate == kernel \cap lan \subseteq late

\* raw-addresses.yaml knows every address the runs have put on an interface,
\* with two exceptions since boot: those added by a run that failed or was cut
\* short, and those whose unchecked delete failed (apply_virtual_addresses).
LeaksHaveACause == kernel \subseteq applied \cup added \cup leaked \cup stuck

\* After a successful run the file says what was asked for, every address
\* asked for is on its interface, and no other is, but for what unfinished runs
\* have left behind and what the run could not delete and went on without.
SuccessIsExact ==
  pc = "idle" /\ result = "ok" =>
    /\ applied = want
    /\ want \subseteq kernel \cup foreign
    /\ kernel \subseteq want \cup leaked \cup stuck

\* docs/network-printers.md:43: the aliases are "removed when their exposure is
\* disabled".  After a successful run no address is left that is not asked for.
DisabledAliasesRemoved ==
  pc = "idle" /\ result = "ok" => kernel \subseteq want

\* A run looks like one step: whatever interrupts it, and whoever takes addresses
\* meanwhile, it either puts the wanted addresses in place, no new one of which
\* was there before, and records them, or fails and leaves the file alone; it
\* takes away only what the file lists and nobody wants.  What a run has done so
\* far counts when it ends.
Unit == INSTANCE AddressUnit WITH
          Addresses <- Items,
          aliases   <- IF pc = "idle" THEN kernel ELSE before

ImplementsAddressUnit == Unit!Spec

=============================================================================
