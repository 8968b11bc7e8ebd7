------------------------------- MODULE Wizard -------------------------------
(***************************************************************************)
(* The setup wizard (src/airprint_server/wizard.py: run_wizard,            *)
(* collect_printer, configure_existing_raw_exposure) on top of the commands*)
(* of ManagedState, whose requests it makes (cli.py: cmd_setup).           *)
(*                                                                         *)
(* The wizard knows which ports and addresses are taken from two maps of   *)
(* its own.  It builds them once from the printers, its prompts accept what*)
(* the maps leave free, and it brings them up to date from its own         *)
(* selections, not from the printers.  _prepare_raw_endpoint then decides  *)
(* from the printers; a selection it refuses ends the wizard (End).        *)
(*                                                                         *)
(* Connections, profiles, drivers and names are left out, and so is the    *)
(* search for an address to suggest: the operator may enter any.           *)
(***************************************************************************)
EXTENDS ManagedState

ASSUME OwnersAssumption == {"nobody", "several"} \cap Queues = {}

Owners   == Queues \cup {"nobody"}
NoOwners == [ports |-> [p \in Ports |-> "nobody"], addresses |-> [a \in Addresses |-> "nobody"]]
OwnerMaps == [ports : [Ports -> Owners \cup {"several"}], addresses : [Addresses -> Owners]]

NoChoice == [queue |-> "nobody", endpoint |-> Off]
Selections == [queue : Owners, endpoint : Exposures \cup {Off}]

VARIABLES
  stage,   \* per session: "no" wizard, its first "screen", or its "loop"
  owners,  \* per session, occupied_raw_port_owners and occupied_raw_address_owners
  choice,  \* per session, what the operator has selected last
  passed   \* history: sessions whose wizard passed over a queue's own endpoint

wizardVars == <<stage, owners, choice, passed>>

WizardInit ==
  /\ Init
  /\ stage = [s \in Sessions |-> "no"]
  /\ owners = [s \in Sessions |-> NoOwners]
  /\ choice = [s \in Sessions |-> NoChoice]
  /\ passed = {}

-----------------------------------------------------------------------------
(* The maps.  A port that is taken twice has the owner "several" ("" in the *)
(* code): queues with addresses of their own share the standard port.       *)

Holders(m, p) == {q \in Queues : IsExposed(m[q]) /\ m[q].port = p}

\* Mutant: one of the queues at a port owns it.
OwnersOf_OneOwns(m) ==
  [ports |-> [p \in Ports |->
     IF Holders(m, p) = {} THEN "nobody" ELSE CHOOSE q \in Holders(m, p) : TRUE],
   addresses |-> [a \in Addresses |->
     IF \A q \in Queues : m[q].address # a THEN "nobody"
     ELSE CHOOSE q \in Queues : m[q].address = a]]

OwnersOf(m) ==
  [ports |-> [p \in Ports |->
     CASE Holders(m, p) = {} -> "nobody"
       [] \E q \in Queues : Holders(m, p) = {q} -> CHOOSE q \in Queues : Holders(m, p) = {q}
       [] OTHER -> "several"],
   addresses |-> [a \in Addresses |->
     IF \A q \in Queues : m[q].address # a THEN "nobody"
     ELSE CHOOSE q \in Queues : m[q].address = a]]

Forget(map, q) == [x \in DOMAIN map |-> IF map[x] = q THEN "nobody" ELSE map[x]]

ClaimPort(map, q, p) ==
  [x \in Ports |-> IF x # p THEN map[x]
                   ELSE IF map[x] \in {"nobody", q} THEN q ELSE "several"]

ClaimAddress(map, q, a) == [x \in Addresses |-> IF x = a THEN q ELSE map[x]]

\* After a printer was added, or declined: the addresses it had stay its own.
RecordAdd(o, q, e) ==
  [ports |-> ClaimPort(Forget(o.ports, q), q, e.port),
   addresses |-> ClaimAddress(o.addresses, q, e.address)]

\* record_raw_exposure
RecordExposure(o, q, e) ==
  [ports |-> ClaimPort(Forget(o.ports, q), q, e.port),
   addresses |-> ClaimAddress(Forget(o.addresses, q), q, e.address)]

\* What the prompts accept for queue q: no exposure, an address or a port that
\* no other queue owns.
Offered(s, q) ==
  {Off} \cup {Endpoint(p, AnyAddress) : p \in {p \in Ports : owners[s].ports[p] \in {"nobody", q}}}
        \cup {Endpoint(StandardPort, a) :
                a \in {a \in Addresses : owners[s].addresses[a] \in {"nobody", q}}}

\* add-printer keeps what is not asked for, the address in particular.
Completed(current, e) ==
  IF e = Off THEN IF current = Unmanaged THEN Off ELSE current
  ELSE IF e.address = AnyAddress THEN Endpoint(e.port, current.address) ELSE e

-----------------------------------------------------------------------------
(* Steps.                                                                  *)

StartWizard(s) ==
  /\ pc[s] = "ready" /\ stage[s] = "no"
  /\ stage' = [stage EXCEPT ![s] = "screen"]
  /\ owners' = [owners EXCEPT ![s] = OwnersOf(mem[s])]
  /\ UNCHANGED <<vars, choice, passed>>

Chooses(s, q, e) ==
  /\ e \in Offered(s, q)
  /\ stage' = [stage EXCEPT ![s] = "loop"]
  /\ choice' = [choice EXCEPT ![s] = [queue |-> q, endpoint |-> e]]
  /\ UNCHANGED owners

\* The first screen: the exposure of a managed queue.
ChooseExposure(s, q, e) ==
  /\ stage[s] = "screen"
  /\ RequestRaw(s, q, e)
  /\ Chooses(s, q, e)
  /\ UNCHANGED passed

\* The queue keeps its endpoint, and the map of ports will forget it.
PassesOver(s, q, e) ==
  passed' = IF IsExposed(mem[s][q]) /\ mem[s][q].port # e.port
            THEN passed \cup {s} ELSE passed

\* A printer is described and handed to add-printer, which accepts no other port
\* than the standard one with an address.
ChoosePrinter(s, q, e) ==
  /\ stage[s] # "no"
  /\ Completed(mem[s][q], e) \in Exposures \cup {Off}
  /\ RequestAdd(s, q, Completed(mem[s][q], e))
  /\ Chooses(s, q, e)
  /\ IF e = Off THEN PassesOver(s, q, e) ELSE UNCHANGED passed

\* The maps are brought up to date after a request is through.
Records(s, maps) ==
  /\ owners' = [owners EXCEPT ![s] = maps]
  /\ choice' = [choice EXCEPT ![s] = NoChoice]
  /\ UNCHANGED stage

WizardSaves(s) ==
  /\ stage[s] # "no"
  /\ Save(s)
  /\ \/ job[s].op = "raw" /\ Records(s, RecordExposure(owners[s], choice[s].queue, choice[s].endpoint))
     \/ job[s].op = "add" /\ Records(s, RecordAdd(owners[s], choice[s].queue, choice[s].endpoint))
  /\ UNCHANGED passed

\* run_wizard does not learn that add-printer was cancelled.
WizardDeclines(s) ==
  /\ stage[s] # "no"
  /\ Decline(s)
  /\ Records(s, RecordAdd(owners[s], choice[s].queue, choice[s].endpoint))
  /\ PassesOver(s, choice[s].queue, choice[s].endpoint)

\* The steps of a request in between.
Carries(s) ==
  /\ \/ ChangeQueue(s) \/ WriteRoutes(s) \/ ApplyAddresses(s)
     \/ RestartGateway(s) \/ DisableGateway(s)
  /\ UNCHANGED wizardVars

\* The operator is through, a request is refused, or something fails.
Stops(s) ==
  /\ End(s) \/ EnableFails(s) \/ AddressesFail(s) \/ RestartFails(s)
  /\ stage' = [stage EXCEPT ![s] = "no"]
  /\ owners' = [owners EXCEPT ![s] = NoOwners]
  /\ choice' = [choice EXCEPT ![s] = NoChoice]
  /\ passed' = passed \ {s}

\* The other commands: one request each.
Commands(s) ==
  /\ stage[s] = "no"
  /\ Load(s) \/ (pc[s] = "ready" /\ Requested(s)) \/ Decline(s) \/ Save(s)
  /\ UNCHANGED wizardVars

Chosen(s) ==
  \E q \in Queues, e \in Exposures \cup {Off} : ChooseExposure(s, q, e) \/ ChoosePrinter(s, q, e)

WizardNext ==
  \/ GatewayRestarts /\ UNCHANGED wizardVars
  \/ \E s \in Sessions :
       \/ Commands(s) \/ StartWizard(s) \/ Chosen(s)
       \/ WizardSaves(s) \/ WizardDeclines(s) \/ Carries(s) \/ Stops(s)

WizardSpec == WizardInit /\ [][WizardNext]_<<vars, wizardVars>>

-----------------------------------------------------------------------------
WizardTypeOK ==
  /\ TypeOK
  /\ stage \in [Sessions -> {"no", "screen", "loop"}]
  /\ owners \in [Sessions -> OwnerMaps]
  /\ choice \in [Sessions -> Selections]
  /\ passed \subseteq Sessions

Prompts(s) == stage[s] # "no" /\ pc[s] \in {"ready", "again", "done"}

\* What the wizard accepts at a prompt, add-printer does not refuse as taken,
\* whatever was selected, declined or left as it was before.  There are two
\* exceptions: a port, once a queue's own endpoint was passed over, and any
\* address while another queue has the standard port on every interface.
PromptsAreSound ==
  \A s \in Sessions : Prompts(s) =>
    \A q \in Queues : \A e \in Offered(s, q) : \A r \in Queues \ {q} :
      LET f == mem[s][r] IN
      IsExposed(e) /\ IsExposed(f) /\ Collides(e, f) =>
        IF e.address = AnyAddress THEN s \in passed
                                  ELSE f = Endpoint(StandardPort, AnyAddress)

=============================================================================
