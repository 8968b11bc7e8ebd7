---------------------------- MODULE WizardProofs -----------------------------
(***************************************************************************)
(* Proofs about Wizard, for any number of sessions, queues, ports and      *)
(* addresses.  A wizard only makes requests that commands make, so that    *)
(* what is proved of ManagedState holds of it.  Known says that the maps   *)
(* list a queue's endpoint; Keeps follows one request from its prompt to   *)
(* the update of the maps, when its queue is to be known again.            *)
(***************************************************************************)
EXTENDS Wizard, ManagedStateProofs

EveryVar == <<vars, wizardVars>>

-----------------------------------------------------------------------------
(* Refinement.                                                             *)

LEMMA StepRefines == WizardNext => [Next]_vars
  <1> SUFFICES ASSUME WizardNext PROVE [Next]_vars
    OBVIOUS
  <1>1. CASE GatewayRestarts
    BY <1>1 DEF Next
  <1>2. ASSUME NEW s \in Sessions, Commands(s)
        PROVE  Next
    BY <1>2 DEF Commands, Next, Unrequested
  <1>3. ASSUME NEW s \in Sessions, StartWizard(s)
        PROVE  UNCHANGED vars
    BY <1>3 DEF StartWizard
  <1>4. ASSUME NEW s \in Sessions, NEW q \in Queues, NEW e \in Exposures \cup {Off},
               ChooseExposure(s, q, e)
        PROVE  Next
    BY <1>4 DEF ChooseExposure, Next, Requested
  <1>5. ASSUME NEW s \in Sessions, NEW q \in Queues, NEW e \in Exposures \cup {Off},
               ChoosePrinter(s, q, e)
        PROVE  Next
    BY <1>5 DEF ChoosePrinter, Next, Requested
  <1>6. ASSUME NEW s \in Sessions,
               WizardSaves(s) \/ WizardDeclines(s) \/ Carries(s) \/ Stops(s)
        PROVE  Next
    BY <1>6 DEF WizardSaves, WizardDeclines, Carries, Stops, Next, Unrequested
  <1> QED BY <1>1, <1>2, <1>3, <1>4, <1>5, <1>6 DEF WizardNext, Chosen

\* The wizard does nothing that the commands of ManagedState do not do.
THEOREM WizardIsCommands == WizardSpec => Spec
<1>1. WizardInit => Init
  BY DEF WizardInit
<1>2. [WizardNext]_EveryVar => [Next]_vars
  BY StepRefines DEF EveryVar
<1> QED
  BY <1>1, <1>2, PTL DEF WizardSpec, Spec, EveryVar

-----------------------------------------------------------------------------
(* Types.                                                                  *)

LEMMA NoOwnersType == NoOwners \in OwnerMaps /\ NoChoice \in Selections
  BY DEF NoOwners, OwnerMaps, Owners, NoChoice, Selections

LEMMA OwnersOfType ==
  ASSUME NEW m \in Printers
  PROVE  OwnersOf(m) \in OwnerMaps
  <1>1. \A p \in Ports : OwnersOf(m).ports[p] \in Owners \cup {"several"}
    BY Zenon DEF OwnersOf, Owners
  <1>2. \A a \in Addresses : OwnersOf(m).addresses[a] \in Owners
    BY Zenon DEF OwnersOf, Owners
  <1> QED BY <1>1, <1>2 DEF OwnersOf, OwnerMaps

LEMMA RecordsType ==
  ASSUME NEW o \in OwnerMaps, NEW q \in Owners, NEW e
  PROVE  RecordAdd(o, q, e) \in OwnerMaps /\ RecordExposure(o, q, e) \in OwnerMaps
  BY DEF RecordAdd, RecordExposure, ClaimPort, ClaimAddress, Forget, OwnerMaps, Owners

LEMMA TypeWizard ==
  ASSUME WizardTypeOK, [WizardNext]_EveryVar
  PROVE  WizardTypeOK'
  <1>0. TypeOK'
    BY StepRefines, TypeStep DEF WizardTypeOK, EveryVar
  <1>1. CASE UNCHANGED wizardVars
    BY <1>0, <1>1 DEF WizardTypeOK, wizardVars
  <1>2. ASSUME NEW s \in Sessions, StartWizard(s)
        PROVE  WizardTypeOK'
    <2>1. OwnersOf(mem[s]) \in OwnerMaps
      BY OwnersOfType DEF WizardTypeOK, TypeOK
    <2> QED BY <1>0, <1>2, <2>1 DEF WizardTypeOK, StartWizard
  <1>3. ASSUME NEW s \in Sessions, NEW q \in Queues, NEW e \in Exposures \cup {Off},
               ChooseExposure(s, q, e) \/ ChoosePrinter(s, q, e)
        PROVE  WizardTypeOK'
    <2>1. [queue |-> q, endpoint |-> e] \in Selections
      BY DEF Selections, Owners
    <2>2. passed' \subseteq Sessions
      BY <1>3 DEF WizardTypeOK, ChooseExposure, ChoosePrinter, PassesOver
    <2>3. Chooses(s, q, e)
      BY <1>3 DEF ChooseExposure, ChoosePrinter
    <2> QED BY <1>0, <2>1, <2>2, <2>3 DEF WizardTypeOK, Chooses
  <1>4. ASSUME NEW s \in Sessions, WizardSaves(s) \/ WizardDeclines(s)
        PROVE  WizardTypeOK'
    <2>1. PICK maps \in OwnerMaps : Records(s, maps)
      BY <1>4, RecordsType DEF WizardTypeOK, WizardSaves, WizardDeclines, Selections
    <2>2. passed' \subseteq Sessions
      BY <1>4 DEF WizardTypeOK, WizardSaves, WizardDeclines, PassesOver
    <2> QED BY <1>0, <2>1, <2>2, NoOwnersType DEF WizardTypeOK, Records
  <1>5. ASSUME NEW s \in Sessions, Stops(s)
        PROVE  WizardTypeOK'
    BY <1>0, <1>5, NoOwnersType DEF WizardTypeOK, Stops
  <1>6. UNCHANGED EveryVar => UNCHANGED wizardVars
    BY DEF EveryVar
  <1> QED BY <1>1, <1>2, <1>3, <1>4, <1>5, <1>6 DEF WizardNext, Chosen, Commands, Carries

LEMMA TypeWizardInit == WizardInit => WizardTypeOK
  BY TypeInit, NoOwnersType DEF WizardInit, WizardTypeOK

\* The maps and selections of every wizard are well formed, and so is what the
\* commands keep.
THEOREM WizardTypeCorrect == WizardSpec => []WizardTypeOK
  BY TypeWizardInit, TypeWizard, PTL DEF WizardSpec, EveryVar

-----------------------------------------------------------------------------
(* What the maps know.                                                     *)

\* The maps o list the port and the address of queue r, whose endpoint is f.
KnownPort(o, r, f)    == IsExposed(f) => o.ports[f.port] \in {r, "several"}
KnownAddress(o, r, f) == f.address # AnyAddress => o.addresses[f.address] = r

\* What the prompts of a wizard with maps o accept for queue q.
Free(o, q, e) ==
  /\ e \in Exposures \cup {Off}
  /\ e # Off /\ e.address = AnyAddress => o.ports[e.port] \in {"nobody", q}
  /\ e.address # AnyAddress => o.addresses[e.address] \in {"nobody", q}

LEMMA OfferedIsFree ==
  ASSUME NEW s \in Sessions, NEW q \in Queues, NEW e \in Offered(s, q)
  PROVE  Free(owners[s], q, e)
  <1>1. CASE e = Off
    BY <1>1, EndpointTypes DEF Free
  <1>2. ASSUME NEW p \in Ports, e = Endpoint(p, AnyAddress),
               owners[s].ports[p] \in {"nobody", q}
        PROVE  Free(owners[s], q, e)
    BY <1>2 DEF Free, Exposures, Endpoint
  <1>3. ASSUME NEW a \in Addresses, e = Endpoint(StandardPort, a),
               owners[s].addresses[a] \in {"nobody", q}
        PROVE  Free(owners[s], q, e)
    BY <1>3, AddressesAssumption DEF Free, Exposures, Endpoint, AnyAddress
  <1> QED BY <1>1, <1>2, <1>3 DEF Offered

\* An exposure is a port on every interface or the standard port of an address.
LEMMA ExposureParts ==
  \A e \in Exposures :
    /\ e.port \in Ports
    /\ e.address = AnyAddress \/ (e.address \in Addresses /\ e.port = StandardPort)
    /\ e = Endpoint(e.port, e.address)
  BY PortsAssumption DEF Exposures, Endpoint

LEMMA PrinterParts ==
  ASSUME NEW m \in Printers, NEW r \in Queues
  PROVE  /\ m[r] \in Exposures \cup {Off, Unmanaged}
         /\ IsExposed(m[r]) => m[r] \in Exposures
         /\ ~IsExposed(m[r]) => m[r].address = AnyAddress
  BY EndpointTypes DEF Printers, IsExposed

\* The maps a wizard starts with list every printer.
LEMMA OwnersOfKnows ==
  ASSUME NEW m \in Printers, StateAccepted(m), NEW r \in Queues
  PROVE  KnownPort(OwnersOf(m), r, m[r]) /\ KnownAddress(OwnersOf(m), r, m[r])
  <1>1. KnownPort(OwnersOf(m), r, m[r])
    <2> SUFFICES ASSUME IsExposed(m[r])
                 PROVE  OwnersOf(m).ports[m[r].port] \in {r, "several"}
      BY DEF KnownPort
    <2> DEFINE p == m[r].port
    <2>1. p \in Ports
      BY PrinterParts, ExposureParts
    <2>2. r \in Holders(m, p)
      BY DEF Holders
    <2>3. OwnersOf(m).ports[p] =
            CASE Holders(m, p) = {} -> "nobody"
              [] \E q \in Queues : Holders(m, p) = {q} ->
                   CHOOSE q \in Queues : Holders(m, p) = {q}
              [] OTHER -> "several"
      BY <2>1, Zenon DEF OwnersOf
    <2>4. CASE \E q \in Queues : Holders(m, p) = {q}
      <3>1. OwnersOf(m).ports[p] = CHOOSE q \in Queues : Holders(m, p) = {q}
        BY <2>2, <2>3, <2>4, Zenon
      <3>2. Holders(m, p) = {OwnersOf(m).ports[p]}
        BY <3>1, <2>4, Zenon
      <3> QED BY <3>2, <2>2
    <2>5. CASE ~\E q \in Queues : Holders(m, p) = {q}
      <3>1. OwnersOf(m).ports[p] = "several"
        BY <2>2, <2>3, <2>5, Zenon
      <3> QED BY <3>1
    <2> QED BY <2>4, <2>5
  <1>2. KnownAddress(OwnersOf(m), r, m[r])
    <2> SUFFICES ASSUME m[r].address # AnyAddress
                 PROVE  OwnersOf(m).addresses[m[r].address] = r
      BY DEF KnownAddress
    <2> DEFINE a == m[r].address
               q0 == CHOOSE q \in Queues : m[q].address = a
    <2>1. a \in Addresses /\ IsExposed(m[r])
      BY PrinterParts, ExposureParts
    <2>2. OwnersOf(m).addresses[a] = q0
      BY <2>1, Zenon DEF OwnersOf
    <2>3. q0 \in Queues /\ m[q0].address = a
      BY Zenon
    <2>4. IsExposed(m[q0])
      BY <2>3, PrinterParts
    <2>5. q0 = r
      BY <2>1, <2>3, <2>4 DEF StateAccepted
    <2> QED BY <2>2, <2>5
  <1> QED BY <1>1, <1>2

\* An update of the maps for one queue leaves the others known.
LEMMA OthersStayKnown ==
  ASSUME NEW o \in OwnerMaps, NEW q \in Queues, NEW r \in Queues \ {q},
         NEW e \in Exposures \cup {Off}, Free(o, q, e),
         NEW f \in Exposures \cup {Off, Unmanaged}, KnownAddress(o, r, f)
  PROVE  /\ KnownPort(o, r, f) => /\ KnownPort(RecordAdd(o, q, e), r, f)
                                  /\ KnownPort(RecordExposure(o, q, e), r, f)
         /\ KnownAddress(RecordAdd(o, q, e), r, f)
         /\ KnownAddress(RecordExposure(o, q, e), r, f)
  <1>1. IsExposed(f) => f.port \in Ports /\ f \in Exposures
    BY ExposureParts DEF IsExposed
  <1>2. f.address # AnyAddress => f.address \in Addresses
    BY ExposureParts, EndpointTypes
  <1>3. r \notin {"nobody", "several"}
    BY OwnersAssumption
  <1>4. KnownPort(o, r, f) => KnownPort(RecordAdd(o, q, e), r, f)
                              /\ KnownPort(RecordExposure(o, q, e), r, f)
    <2> SUFFICES ASSUME KnownPort(o, r, f), IsExposed(f)
                 PROVE  ClaimPort(Forget(o.ports, q), q, e.port)[f.port] \in {r, "several"}
      BY DEF KnownPort, RecordAdd, RecordExposure
    <2>1. o.ports \in [Ports -> Owners \cup {"several"}] /\ o.ports[f.port] \in {r, "several"}
      BY DEF KnownPort, OwnerMaps
    <2>2. Forget(o.ports, q)[f.port] = o.ports[f.port]
      BY <1>1, <2>1, OwnersAssumption DEF Forget
    <2>3. CASE f.port = e.port
      BY <1>1, <1>3, <2>1, <2>2, <2>3, OwnersAssumption DEF ClaimPort
    <2>4. CASE f.port # e.port
      BY <1>1, <2>1, <2>2, <2>4 DEF ClaimPort
    <2> QED BY <2>3, <2>4
  <1>5. KnownAddress(RecordAdd(o, q, e), r, f) /\ KnownAddress(RecordExposure(o, q, e), r, f)
    <2> SUFFICES ASSUME f.address # AnyAddress
                 PROVE  /\ ClaimAddress(o.addresses, q, e.address)[f.address] = r
                        /\ ClaimAddress(Forget(o.addresses, q), q, e.address)[f.address] = r
      BY DEF KnownAddress, RecordAdd, RecordExposure
    <2>1. o.addresses \in [Addresses -> Owners] /\ o.addresses[f.address] = r
      BY DEF KnownAddress, OwnerMaps
    <2>2. f.address # e.address
      BY <1>3, <2>1 DEF Free
    <2>3. Forget(o.addresses, q)[f.address] = r
      BY <1>2, <2>1 DEF Forget
    <2> QED BY <1>2, <2>1, <2>2, <2>3 DEF ClaimAddress
  <1> QED BY <1>4, <1>5

\* ... and the queue itself known with its new endpoint f.
LEMMA ItselfIsKnown ==
  ASSUME NEW o \in OwnerMaps, NEW q \in Queues,
         NEW e \in Exposures \cup {Off},
         NEW f \in Exposures \cup {Off, Unmanaged}
  PROVE  /\ (IsExposed(f) => f.port = e.port) => /\ KnownPort(RecordExposure(o, q, e), q, f)
                                                 /\ KnownPort(RecordAdd(o, q, e), q, f)
         /\ f.address = e.address => KnownAddress(RecordExposure(o, q, e), q, f)
         /\ f.address = e.address \/ KnownAddress(o, q, f) => KnownAddress(RecordAdd(o, q, e), q, f)
  <1>1. IsExposed(f) => f.port \in Ports
    BY ExposureParts DEF IsExposed
  <1>2. f.address # AnyAddress => f.address \in Addresses
    BY ExposureParts, EndpointTypes
  <1>3. (IsExposed(f) => f.port = e.port) => KnownPort(RecordExposure(o, q, e), q, f)
    BY <1>1 DEF KnownPort, RecordExposure, ClaimPort
  <1>4. (IsExposed(f) => f.port = e.port) => KnownPort(RecordAdd(o, q, e), q, f)
    BY <1>1 DEF KnownPort, RecordAdd, ClaimPort
  <1>5. f.address = e.address => KnownAddress(RecordExposure(o, q, e), q, f)
    BY <1>2 DEF KnownAddress, RecordExposure, ClaimAddress
  <1>6. f.address = e.address \/ KnownAddress(o, q, f) => KnownAddress(RecordAdd(o, q, e), q, f)
    BY <1>2 DEF KnownAddress, RecordAdd, ClaimAddress
  <1> QED BY <1>3, <1>4, <1>5, <1>6

-----------------------------------------------------------------------------
(* The invariant.                                                          *)

KnownHere(s, r) ==
  /\ s \in passed \/ KnownPort(owners[s], r, mem[s][r])
  /\ KnownAddress(owners[s], r, mem[s][r])

Prompting == {"ready", "again", "done"}
Underway  == {"change", "sync", "addresses", "gateway", "save"}

\* A request that is under way: its queue is known until it changes, and will be
\* known with the endpoint it then gets.
Follows(s) ==
  LET q == choice[s].queue
      e == choice[s].endpoint
      f == job[s].endpoint
  IN  /\ q \in Queues /\ job[s].target = {q} /\ Free(owners[s], q, e)
      /\ \A r \in Queues \ {q} : KnownHere(s, r)
      /\ s \in passed \/ (IsExposed(f) => f.port = e.port)
      /\ job[s].op \in {"add", "raw"}
      /\ job[s].op = "raw" => f.address = e.address /\ pc[s] # "change"
      /\ job[s].op = "add" => f.address = e.address \/ KnownAddress(owners[s], q, f)
      /\ pc[s] = "change" => KnownHere(s, q)
      /\ pc[s] # "change" => mem[s][q] = f

Keeps(s) ==
  /\ pc[s] \in Prompting => \A r \in Queues : KnownHere(s, r)
  /\ pc[s] \in Underway => Follows(s)

WInv ==
  /\ WizardTypeOK /\ Inv
  /\ \A s \in Sessions : stage[s] # "no" => Keeps(s)

\* What a session has is left alone.
Same(t) ==
  /\ mem'[t] = mem[t] /\ job'[t] = job[t] /\ pc'[t] = pc[t]
  /\ stage'[t] = stage[t] /\ owners'[t] = owners[t] /\ choice'[t] = choice[t]
  /\ t \in passed <=> t \in passed'

LEMMA SameKeeps ==
  ASSUME NEW t \in Sessions, Same(t), Keeps(t)
  PROVE  Keeps(t)'
  <1>1. \A r \in Queues : KnownHere(t, r)' <=> KnownHere(t, r)
    BY DEF KnownHere, KnownPort, KnownAddress, Same, IsExposed, Off, Unmanaged, Endpoint
  <1>2. Follows(t) => Follows(t)'
    BY <1>1 DEF Follows, Same, Free, KnownAddress
  <1> QED BY <1>1, <1>2 DEF Keeps, Same

\* Sessions do not touch each other's State or request.
LEMMA OthersAlone ==
  ASSUME TypeOK, NEW s \in Sessions,
         \/ Unrequested(s)
         \/ \E q \in Queues, e \in Exposures \cup {Off} : RequestAdd(s, q, e) \/ RequestRaw(s, q, e)
         \/ \E q \in Queues : RequestRemove(s, q) \/ RequestAdopt(s, q)
  PROVE  \A t \in Sessions \ {s} : mem'[t] = mem[t] /\ job'[t] = job[t] /\ pc'[t] = pc[t]
  <1> USE DEF TypeOK, Goto, sessionVars
  <1>1. CASE Load(s) \/ End(s) \/ Decline(s)
    BY <1>1 DEF Load, End, Decline, Ends
  <1>2. CASE ChangeQueue(s) \/ EnableFails(s) \/ WriteRoutes(s)
    BY <1>2 DEF ChangeQueue, EnableFails, WriteRoutes, Breaks, Ends
  <1>3. CASE ApplyAddresses(s) \/ AddressesFail(s)
    BY <1>3 DEF ApplyAddresses, AddressesFail, Breaks, Ends
  <1>4. CASE RestartGateway(s) \/ RestartFails(s) \/ DisableGateway(s) \/ Save(s)
    BY <1>4 DEF RestartGateway, RestartFails, DisableGateway, Save, Breaks, Ends
  <1>5. ASSUME NEW q \in Queues, NEW e, RequestAdd(s, q, e) \/ RequestRaw(s, q, e)
        PROVE  \A t \in Sessions \ {s} : mem'[t] = mem[t] /\ job'[t] = job[t] /\ pc'[t] = pc[t]
    BY <1>5 DEF RequestAdd, RequestRaw, Requests
  <1>6. ASSUME NEW q \in Queues, RequestRemove(s, q) \/ RequestAdopt(s, q)
        PROVE  \A t \in Sessions \ {s} : mem'[t] = mem[t] /\ job'[t] = job[t] /\ pc'[t] = pc[t]
    BY <1>6 DEF RequestRemove, RequestAdopt, Requests
  <1> QED BY <1>1, <1>2, <1>3, <1>4, <1>5, <1>6 DEF Unrequested

\* Only its own session matters to a step of a wizard.
LEMMA OneWizard ==
  ASSUME WInv, WizardNext, NEW s \in Sessions, \A t \in Sessions \ {s} : Same(t),
         stage'[s] # "no" => Keeps(s)'
  PROVE  \A t \in Sessions : (stage[t] # "no" => Keeps(t))'
  <1> SUFFICES ASSUME NEW t \in Sessions, stage'[t] # "no" PROVE Keeps(t)'
    OBVIOUS
  <1>1. CASE t = s
    BY <1>1
  <1>2. CASE t # s
    BY <1>2, SameKeeps DEF WInv, Same
  <1> QED BY <1>1, <1>2

LEMMA KeepsStart ==
  ASSUME WInv, NEW s \in Sessions, StartWizard(s)
  PROVE  Keeps(s)'
  <1>1. mem'[s] = mem[s] /\ pc'[s] = "ready" /\ owners'[s] = OwnersOf(mem[s])
    BY DEF StartWizard, vars, sessionVars, WInv, WizardTypeOK
  <1>2. mem[s] \in Printers /\ StateAccepted(mem[s])
    BY DEF WInv, WizardTypeOK, TypeOK, Inv
  <1>3. ASSUME NEW r \in Queues
        PROVE  KnownHere(s, r)'
    <2>1. KnownPort(OwnersOf(mem[s]), r, mem[s][r]) /\ KnownAddress(OwnersOf(mem[s]), r, mem[s][r])
      BY <1>2, OwnersOfKnows
    <2> QED BY <1>1, <2>1 DEF KnownHere, KnownPort, KnownAddress, IsExposed, Off, Unmanaged,
               Endpoint
  <1> QED BY <1>1, <1>3 DEF Keeps, Underway

LEMMA KeepsExposure ==
  ASSUME WInv, NEW s \in Sessions, NEW q \in Queues, NEW e \in Exposures \cup {Off},
         ChooseExposure(s, q, e)
  PROVE  Keeps(s)'
  <1>1. /\ RequestRaw(s, q, e) /\ Chooses(s, q, e) /\ passed' = passed
        /\ stage[s] # "no" /\ pc[s] = "ready"
    BY DEF ChooseExposure, RequestRaw
  <1>2. /\ job'[s].target = {q} /\ job'[s].op = "raw" /\ job'[s].endpoint = e
        /\ mem'[s] = SetPrinters(mem[s], {q}, e)
        /\ pc'[s] \in {"sync", "save"}
    BY <1>1 DEF RequestRaw, Requests, Goto, WInv, WizardTypeOK, TypeOK
  <1>3. owners' = owners /\ choice'[s].queue = q /\ choice'[s].endpoint = e
    BY <1>1 DEF Chooses, WInv, WizardTypeOK
  <1>4. \A r \in Queues : KnownHere(s, r)
    BY <1>1 DEF WInv, Keeps, Prompting
  <1>5. ASSUME NEW r \in Queues \ {q}
        PROVE  KnownHere(s, r)'
    <2>1. mem'[s][r] = mem[s][r]
      BY <1>2 DEF SetPrinters
    <2> QED BY <1>1, <1>3, <1>4, <2>1 DEF KnownHere, KnownPort, KnownAddress, IsExposed, Off,
               Unmanaged, Endpoint
  <1>6. Free(owners[s], q, e)
    BY <1>1, OfferedIsFree DEF Chooses
  <1>7. mem'[s][q] = e
    BY <1>2 DEF SetPrinters
  <1>8. Follows(s)'
    BY <1>2, <1>3, <1>5, <1>6, <1>7 DEF Follows, Free, IsExposed, Off, Unmanaged, Endpoint
  <1> QED BY <1>2, <1>8 DEF Keeps, Prompting

\* What add-printer makes of a selection, and what becomes of the queue's own.
LEMMA CompletedParts ==
  ASSUME NEW f \in Exposures \cup {Off, Unmanaged}, NEW e \in Exposures \cup {Off}
  PROVE  LET c == Completed(f, e) IN
         /\ e = Off /\ IsExposed(c) => IsExposed(f) /\ c.port = f.port /\ f.port # e.port
         /\ e # Off => c.port = e.port
         /\ c.address = e.address \/ c.address = f.address
  <1>1. CASE e = Off
    BY <1>1, EndpointTypes DEF Completed, IsExposed
  <1>2. CASE e # Off
    BY <1>2 DEF Completed, Endpoint
  <1> QED BY <1>1, <1>2

LEMMA KeepsPrinter ==
  ASSUME WInv, NEW s \in Sessions, NEW q \in Queues, NEW e \in Exposures \cup {Off},
         ChoosePrinter(s, q, e)
  PROVE  Keeps(s)'
  <1> DEFINE f == Completed(mem[s][q], e)
  <1>1. /\ RequestAdd(s, q, f) /\ Chooses(s, q, e)
        /\ stage[s] # "no" /\ pc[s] \in Prompting
        /\ IF e = Off THEN PassesOver(s, q, e) ELSE passed' = passed
    BY DEF ChoosePrinter, RequestAdd, Prompting
  <1>2. /\ job'[s].target = {q} /\ job'[s].op = "add" /\ job'[s].endpoint = f
        /\ mem' = mem /\ pc'[s] = "change"
    BY <1>1 DEF RequestAdd, Requests, Goto, WInv, WizardTypeOK, TypeOK
  <1>3. owners' = owners /\ choice'[s].queue = q /\ choice'[s].endpoint = e
    BY <1>1 DEF Chooses, WInv, WizardTypeOK
  <1>4. \A r \in Queues : KnownHere(s, r)
    BY <1>1 DEF WInv, Keeps
  <1>5. s \in passed => s \in passed'
    BY <1>1 DEF PassesOver
  <1>6. ASSUME NEW r \in Queues
        PROVE  KnownHere(s, r)'
    BY <1>2, <1>3, <1>4, <1>5 DEF KnownHere, KnownPort, KnownAddress, IsExposed, Off,
               Unmanaged, Endpoint
  <1>7. Free(owners[s], q, e)
    BY <1>1, OfferedIsFree DEF Chooses
  <1>8. mem[s][q] \in Exposures \cup {Off, Unmanaged}
    BY PrinterParts DEF WInv, WizardTypeOK, TypeOK
  <1>9. s \in passed' \/ (IsExposed(f) => f.port = e.port)
    <2>1. CASE e = Off
      BY <1>1, <1>8, <2>1, CompletedParts DEF PassesOver
    <2>2. CASE e # Off
      BY <1>8, <2>2, CompletedParts
    <2> QED BY <2>1, <2>2
  <1>10. f.address = e.address \/ KnownAddress(owners[s], q, f)
    <2>1. KnownAddress(owners[s], q, mem[s][q])
      BY <1>4 DEF KnownHere
    <2>2. f.address = e.address \/ f.address = mem[s][q].address
      BY <1>8, CompletedParts
    <2> QED BY <2>1, <2>2 DEF KnownAddress
  <1>11. Follows(s)'
    BY <1>2, <1>3, <1>6, <1>7, <1>9, <1>10 DEF Follows, Free, KnownAddress, IsExposed, Off,
       Unmanaged, Endpoint
  <1> QED BY <1>2, <1>11 DEF Keeps, Prompting

LEMMA KeepsSave ==
  ASSUME WInv, NEW s \in Sessions, WizardSaves(s)
  PROVE  Keeps(s)'
  <1> DEFINE q == choice[s].queue
             e == choice[s].endpoint
             o == owners[s]
             f == mem[s][q]
  <1>1. mem' = mem /\ pc'[s] = "done" /\ passed' = passed /\ stage[s] # "no" /\ pc[s] = "save"
    BY DEF WizardSaves, Save, Goto, WInv, WizardTypeOK, TypeOK
  <1>2. Follows(s)
    BY <1>1 DEF WInv, Keeps, Underway
  <1>3. /\ q \in Queues /\ Free(o, q, e) /\ e \in Exposures \cup {Off}
        /\ f = job[s].endpoint /\ f \in Exposures \cup {Off, Unmanaged}
        /\ o \in OwnerMaps
    BY <1>1, <1>2 DEF Follows, Free, WInv, WizardTypeOK, TypeOK, Jobs
  <1>4. \/ job[s].op = "raw" /\ owners'[s] = RecordExposure(o, q, e)
        \/ job[s].op = "add" /\ owners'[s] = RecordAdd(o, q, e)
    BY DEF WizardSaves, Records, WInv, WizardTypeOK
  <1>5. ASSUME NEW r \in Queues
        PROVE  /\ s \in passed \/ KnownPort(owners'[s], r, mem[s][r])
               /\ KnownAddress(owners'[s], r, mem[s][r])
    <2>1. CASE r = q
      <3>1. (s \in passed) \/ (IsExposed(f) => f.port = e.port)
        BY <1>2, <1>3 DEF Follows
      <3>2. CASE job[s].op = "raw"
        <4>1. f.address = e.address
          BY <1>2, <1>3, <3>2 DEF Follows
        <4> QED BY <1>3, <1>4, <2>1, <3>1, <3>2, <4>1, ItselfIsKnown
      <3>3. CASE job[s].op = "add"
        <4>1. f.address = e.address \/ KnownAddress(o, q, f)
          BY <1>2, <1>3, <3>3 DEF Follows
        <4> QED BY <1>3, <1>4, <2>1, <3>1, <3>3, <4>1, ItselfIsKnown
      <3> QED BY <1>4, <3>2, <3>3
    <2>2. CASE r # q
      <3>1. (s \in passed \/ KnownPort(o, r, mem[s][r])) /\ KnownAddress(o, r, mem[s][r])
        BY <1>2, <2>2 DEF Follows, KnownHere
      <3>2. mem[s][r] \in Exposures \cup {Off, Unmanaged}
        BY PrinterParts DEF WInv, WizardTypeOK, TypeOK
      <3> QED BY <1>3, <1>4, <2>2, <3>1, <3>2, OthersStayKnown
    <2> QED BY <2>1, <2>2
  <1>6. \A r \in Queues : KnownHere(s, r)'
    BY <1>1, <1>5 DEF KnownHere, KnownPort, KnownAddress, IsExposed, Off, Unmanaged, Endpoint
  <1> QED BY <1>1, <1>6 DEF Keeps, Underway

LEMMA KeepsDecline ==
  ASSUME WInv, NEW s \in Sessions, WizardDeclines(s)
  PROVE  Keeps(s)'
  <1> DEFINE q == choice[s].queue
             e == choice[s].endpoint
             o == owners[s]
             f == mem[s][q]
  <1>1. /\ mem' = mem /\ pc'[s] = "again" /\ stage[s] # "no" /\ pc[s] = "change"
        /\ owners'[s] = RecordAdd(o, q, e) /\ PassesOver(s, q, e)
    BY DEF WizardDeclines, Decline, Records, Goto, WInv, WizardTypeOK, TypeOK
  <1>2. Follows(s)
    BY <1>1 DEF WInv, Keeps, Underway
  <1>3. /\ q \in Queues /\ Free(o, q, e) /\ e \in Exposures \cup {Off} /\ o \in OwnerMaps
        /\ \A r \in Queues : mem[s][r] \in Exposures \cup {Off, Unmanaged}
    BY <1>2, PrinterParts DEF Follows, Free, WInv, WizardTypeOK, TypeOK
  <1>4. s \in passed => s \in passed'
    BY <1>1 DEF PassesOver
  <1>5. ASSUME NEW r \in Queues
        PROVE  /\ s \in passed' \/ KnownPort(owners'[s], r, mem[s][r])
               /\ KnownAddress(owners'[s], r, mem[s][r])
    <2>1. KnownHere(s, r)
      BY <1>1, <1>2 DEF Follows
    <2>2. (s \in passed' \/ KnownPort(o, r, mem[s][r])) /\ KnownAddress(o, r, mem[s][r])
      BY <1>4, <2>1 DEF KnownHere
    <2>3. CASE r = q
      <3>1. (s \in passed') \/ (IsExposed(f) => f.port = e.port)
        BY <1>1 DEF PassesOver
      <3>2. KnownAddress(o, q, f)
        BY <2>2, <2>3
      <3> QED BY <1>1, <1>3, <2>3, <3>1, <3>2, ItselfIsKnown
    <2>4. CASE r # q
      BY <1>1, <1>3, <2>2, <2>4, OthersStayKnown
    <2> QED BY <2>3, <2>4
  <1>6. \A r \in Queues : KnownHere(s, r)'
    BY <1>1, <1>5 DEF KnownHere, KnownPort, KnownAddress, IsExposed, Off, Unmanaged, Endpoint
  <1> QED BY <1>1, <1>6 DEF Keeps, Underway

LEMMA KeepsCarries ==
  ASSUME WInv, NEW s \in Sessions, Carries(s), stage[s] # "no"
  PROVE  Keeps(s)'
  <1>0. /\ owners' = owners /\ choice' = choice /\ passed' = passed /\ job' = job
        /\ TypeOK /\ pc[s] \in Underway
    BY DEF Carries, wizardVars, ChangeQueue, WriteRoutes, ApplyAddresses, RestartGateway,
           DisableGateway, Underway, WInv, WizardTypeOK
  <1>1. Follows(s)
    BY <1>0 DEF WInv, Keeps
  <1>2. CASE ChangeQueue(s)
    <2> DEFINE q == choice[s].queue
    <2>1. /\ pc[s] = "change" /\ pc'[s] \in {"sync", "save"} /\ job[s].target = {q} /\ q \in Queues
          /\ mem'[s] = SetPrinters(mem[s], {q}, job[s].endpoint)
      BY <1>0, <1>1, <1>2 DEF ChangeQueue, Goto, TypeOK, Follows
    <2>2. ASSUME NEW r \in Queues \ {q}
          PROVE  KnownHere(s, r)'
      <3>1. mem'[s][r] = mem[s][r]
        BY <2>1 DEF SetPrinters
      <3> QED BY <1>0, <1>1, <3>1 DEF Follows, KnownHere, KnownPort, KnownAddress, IsExposed,
                 Off, Unmanaged, Endpoint
    <2>3. mem'[s][q] = job[s].endpoint
      BY <2>1 DEF SetPrinters
    <2>4. Follows(s)'
      BY <1>0, <1>1, <2>1, <2>2, <2>3 DEF Follows, Free, KnownAddress, IsExposed, Off, Unmanaged,
         Endpoint
    <2> QED BY <2>1, <2>4 DEF Keeps, Prompting
  <1>3. CASE WriteRoutes(s) \/ ApplyAddresses(s) \/ RestartGateway(s) \/ DisableGateway(s)
    <2>1. /\ mem' = mem /\ pc[s] \in {"sync", "addresses", "gateway"}
          /\ pc'[s] \in {"addresses", "gateway", "save"}
      BY <1>0, <1>3
         DEF WriteRoutes, ApplyAddresses, RestartGateway, DisableGateway, Goto, TypeOK
    <2>2. \A r \in Queues : KnownHere(s, r)' <=> KnownHere(s, r)
      BY <1>0, <2>1 DEF KnownHere, KnownPort, KnownAddress
    <2>3. Follows(s)'
      BY <1>0, <1>1, <2>1, <2>2 DEF Follows, Free, KnownAddress
    <2> QED BY <2>1, <2>3 DEF Keeps, Prompting
  <1> QED BY <1>2, <1>3 DEF Carries

LEMMA StepKeeps ==
  ASSUME WInv, WizardNext
  PROVE  \A t \in Sessions : (stage[t] # "no" => Keeps(t))'
  <1>0. TypeOK
    BY DEF WInv, WizardTypeOK
  <1>1. CASE GatewayRestarts /\ UNCHANGED wizardVars
    <2>1. \A t \in Sessions : Same(t)
      BY <1>1 DEF GatewayRestarts, wizardVars, sessionVars, Same
    <2> QED BY <2>1, SameKeeps DEF WInv, Same
  <1>2. ASSUME NEW s \in Sessions, Commands(s)
        PROVE  \A t \in Sessions : (stage[t] # "no" => Keeps(t))'
    <2>1. stage'[s] = "no" /\ UNCHANGED wizardVars
      BY <1>2 DEF Commands, wizardVars
    <2>2. \A t \in Sessions \ {s} : mem'[t] = mem[t] /\ job'[t] = job[t] /\ pc'[t] = pc[t]
      BY <1>0, <1>2, OthersAlone DEF Commands, Unrequested, Requested
    <2> QED BY <2>1, <2>2, OneWizard DEF Same, wizardVars
  <1>3. ASSUME NEW s \in Sessions, StartWizard(s)
        PROVE  \A t \in Sessions : (stage[t] # "no" => Keeps(t))'
    <2>1. \A t \in Sessions \ {s} : Same(t)
      BY <1>3 DEF StartWizard, Same, vars, sessionVars, WInv, WizardTypeOK
    <2> QED BY <1>3, <2>1, KeepsStart, OneWizard
  <1>4. ASSUME NEW s \in Sessions, NEW q \in Queues, NEW e \in Exposures \cup {Off},
               ChooseExposure(s, q, e) \/ ChoosePrinter(s, q, e)
        PROVE  \A t \in Sessions : (stage[t] # "no" => Keeps(t))'
    <2>1. \A t \in Sessions \ {s} : mem'[t] = mem[t] /\ job'[t] = job[t] /\ pc'[t] = pc[t]
      BY <1>0, <1>4, OthersAlone DEF ChooseExposure, ChoosePrinter
    <2>2. \A t \in Sessions \ {s} : /\ stage'[t] = stage[t] /\ owners'[t] = owners[t]
                                    /\ choice'[t] = choice[t] /\ (t \in passed <=> t \in passed')
      BY <1>4 DEF ChooseExposure, ChoosePrinter, Chooses, PassesOver, WInv, WizardTypeOK
    <2> QED BY <1>4, <2>1, <2>2, KeepsExposure, KeepsPrinter, OneWizard DEF Same
  <1>5. ASSUME NEW s \in Sessions, WizardSaves(s) \/ WizardDeclines(s)
        PROVE  \A t \in Sessions : (stage[t] # "no" => Keeps(t))'
    <2>1. \A t \in Sessions \ {s} : mem'[t] = mem[t] /\ job'[t] = job[t] /\ pc'[t] = pc[t]
      BY <1>0, <1>5, OthersAlone DEF WizardSaves, WizardDeclines, Unrequested
    <2>2. \A t \in Sessions \ {s} : /\ stage'[t] = stage[t] /\ owners'[t] = owners[t]
                                    /\ choice'[t] = choice[t] /\ (t \in passed <=> t \in passed')
      BY <1>5 DEF WizardSaves, WizardDeclines, Records, PassesOver, WInv, WizardTypeOK
    <2> QED BY <1>5, <2>1, <2>2, KeepsSave, KeepsDecline, OneWizard DEF Same
  <1>6. ASSUME NEW s \in Sessions, Carries(s)
        PROVE  \A t \in Sessions : (stage[t] # "no" => Keeps(t))'
    <2>1. \A t \in Sessions \ {s} : mem'[t] = mem[t] /\ job'[t] = job[t] /\ pc'[t] = pc[t]
      BY <1>0, <1>6, OthersAlone DEF Carries, Unrequested
    <2>2. UNCHANGED wizardVars
      BY <1>6 DEF Carries
    <2> QED BY <1>6, <2>1, <2>2, KeepsCarries, OneWizard DEF Same, wizardVars
  <1>7. ASSUME NEW s \in Sessions, Stops(s)
        PROVE  \A t \in Sessions : (stage[t] # "no" => Keeps(t))'
    <2>1. \A t \in Sessions \ {s} : mem'[t] = mem[t] /\ job'[t] = job[t] /\ pc'[t] = pc[t]
      BY <1>0, <1>7, OthersAlone DEF Stops, Unrequested
    <2>2. \A t \in Sessions \ {s} : /\ stage'[t] = stage[t] /\ owners'[t] = owners[t]
                                    /\ choice'[t] = choice[t] /\ (t \in passed <=> t \in passed')
      BY <1>7 DEF Stops, WInv, WizardTypeOK
    <2>3. stage'[s] = "no"
      BY <1>7 DEF Stops, WInv, WizardTypeOK
    <2> QED BY <2>1, <2>2, <2>3, OneWizard DEF Same
  <1> QED BY <1>1, <1>2, <1>3, <1>4, <1>5, <1>6, <1>7 DEF WizardNext, Chosen

LEMMA StepWInv ==
  ASSUME WInv, [WizardNext]_EveryVar
  PROVE  WInv'
  <1>1. WizardTypeOK'
    BY TypeWizard DEF WInv
  <1>2. Inv'
    BY StepRefines, InvStep DEF WInv, EveryVar
  <1>3. \A t \in Sessions : (stage[t] # "no" => Keeps(t))'
    <2>1. CASE UNCHANGED EveryVar
      <3>1. \A t \in Sessions : Same(t)
        BY <2>1 DEF EveryVar, vars, wizardVars, sessionVars, Same
      <3> QED BY <3>1, SameKeeps DEF WInv, Same
    <2> QED BY <2>1, StepKeeps
  <1> QED BY <1>1, <1>2, <1>3 DEF WInv

LEMMA InitWInv == WizardInit => WInv
  <1> SUFFICES ASSUME WizardInit PROVE WInv
    OBVIOUS
  <1>1. Inv
    BY InvInit DEF WizardInit
  <1>2. \A s \in Sessions : stage[s] = "no"
    BY DEF WizardInit
  <1> QED BY <1>1, <1>2, TypeWizardInit DEF WInv

\* What a prompt accepts collides with nothing the maps know.
LEMMA KnownIsRespected ==
  ASSUME NEW s \in Sessions, WInv, Prompts(s), NEW q \in Queues, NEW e \in Offered(s, q),
         NEW r \in Queues \ {q}, IsExposed(e), IsExposed(mem[s][r]), Collides(e, mem[s][r])
  PROVE  IF e.address = AnyAddress THEN s \in passed
         ELSE mem[s][r] = Endpoint(StandardPort, AnyAddress)
  <1> DEFINE f == mem[s][r]
  <1>1. KnownHere(s, r)
    BY DEF Prompts, WInv, Keeps, Prompting
  <1>2. Free(owners[s], q, e)
    BY OfferedIsFree
  <1>3. f \in Exposures /\ e \in Exposures
    BY <1>2, PrinterParts DEF WInv, WizardTypeOK, TypeOK, Free, IsExposed
  <1>4. r \notin {"nobody", "several"}
    BY OwnersAssumption
  <1>5. CASE e.address = AnyAddress
    <2>1. f.port = e.port
      BY <1>5 DEF Collides
    <2>2. owners[s].ports[f.port] \in {"nobody", q}
      BY <1>2, <1>5, <2>1 DEF Free, IsExposed
    <2>3. ~KnownPort(owners[s], r, f)
      BY <1>4, <2>2, OwnersAssumption DEF KnownPort
    <2> QED BY <1>1, <1>5, <2>3 DEF KnownHere
  <1>6. CASE e.address # AnyAddress
    <2>1. owners[s].addresses[e.address] \in {"nobody", q}
      BY <1>2, <1>6 DEF Free
    <2>2. f.address # e.address
      BY <1>1, <1>4, <1>6, <2>1 DEF KnownHere, KnownAddress
    <2>3. f.port = e.port /\ f.address = AnyAddress
      BY <1>6, <2>2 DEF Collides
    <2>4. e.port = StandardPort /\ f = Endpoint(f.port, f.address)
      BY <1>3, <1>6, ExposureParts
    <2> QED BY <1>6, <2>3, <2>4
  <1> QED BY <1>5, <1>6

\* Whatever a wizard is asked and in whatever order its requests end, what its
\* prompts accept is free, but for the two cases the property names.
THEOREM PromptsSound == WizardSpec => []PromptsAreSound
<1>1. WInv => PromptsAreSound
  BY KnownIsRespected DEF PromptsAreSound
<1> QED
  BY <1>1, InitWInv, StepWInv, PTL DEF WizardSpec, EveryVar

\* What is proved of the commands holds of wizards: after one that succeeds alone
\* the files, the wanted addresses and CUPS agree, and so does the gateway unless
\* it was to be stopped and an unchecked `disable --now' failed.
THEOREM WizardSuccessRepairs == WizardSpec => []SuccessIsComplete
  BY WizardIsCommands, SuccessRepairs, PTL

\* A wizard that saves does not part an endpoint from the marks.
THEOREM WizardEndpointsAreMarked == WizardSpec => [](HasEndpoint(saved) => marked)
  BY WizardIsCommands, EndpointsAreMarked, PTL

\* A wizard's session carries out a request for a queue whose endpoint it has
\* loaded with the services, in whatever order its requests come.
THEOREM WizardReconcilesRecorded ==
  WizardSpec => [][\A s \in Sessions, q \in Queues : ~ForgetsServices(s, q)]_vars
  BY WizardIsCommands, RecordedEndpointsAreReconciled, PTL

=============================================================================
