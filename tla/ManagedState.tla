---------------------------- MODULE ManagedState ----------------------------
(***************************************************************************)
(* The commands that change managed queues (src/airprint_server/cli.py):   *)
(* add-printer, adopt-printer, expose-raw, unexpose-raw, remove-printer    *)
(* and the setup wizard, which performs several of them on one State.      *)
(*                                                                         *)
(* A command is one process, here a session.  It loads state.yaml, checks  *)
(* the request against it, waits for the operator, changes CUPS, writes    *)
(* raw-proxy.yaml, restarts the two gateway units and saves state.yaml     *)
(* last.  There is no lock: sessions interleave at every step.  Each step  *)
(* may fail or be interrupted, which ends the session and undoes nothing.  *)
(*                                                                         *)
(* A printer's raw endpoint is a port and an address; address AnyAddress   *)
(* is the shared endpoint on every interface.  --adopt lifts both refusals *)
(* of add-printer, so it and the `adopted' mark are left out.  The two     *)
(* *_service_managed marks are set and cleared together: one `services'.   *)
(* Addresses on the interface are those RawAddresses' runs have put there. *)
(* Three commands go unchecked, so that a session goes on when they fail:  *)
(* the look at the interface, the delete of an old address, and the        *)
(* `disable --now' of a gateway that has nothing left to serve.            *)
(***************************************************************************)
EXTENDS Integers, FiniteSets, FiniteSetsExt

CONSTANTS
  Sessions,      \* processes that run commands
  Queues,        \* queue names
  Ports,         \* the ports an operator asks for
  StandardPort,  \* DEFAULT_RAW_PORT
  Addresses      \* the virtual addresses an operator asks for

AnyAddress == 0
NoPort     == 0

ASSUME PortsAssumption     == Ports \subseteq Nat \ {NoPort} /\ StandardPort \in Ports
ASSUME AddressesAssumption == Addresses \subseteq Nat \ {AnyAddress}

VARIABLES
  saved,    \* state.yaml: per queue, its endpoint, Off, or Unmanaged
  marked,   \* state.yaml: the units are recorded as managed
  routes,   \* raw-proxy.yaml: per queue, its endpoint or Off
  gateway,  \* the routes the gateway process loaded when it started
  enabled,  \* the gateway unit is enabled, or could not be stopped
  unstopped, \* history: an enabled gateway was to be stopped last, and was not
  aliases,  \* virtual addresses on the interface
  applied,  \* raw-addresses.yaml
  cups,     \* queues that exist in CUPS
  pc,       \* per session, where it is
  mem,      \* per session, its State object's printers
  services, \* per session, its State object's marks
  job,      \* per session, the operation it performs
  stale     \* history: sessions during which another one changed something

fileVars    == <<saved, marked, routes>>
systemVars  == <<gateway, enabled, unstopped, aliases, applied, cups>>
sessionVars == <<pc, mem, services, job>>
vars == <<fileVars, systemVars, sessionVars, stale>>

Endpoint(p, a) == [port |-> p, address |-> a]
Off       == Endpoint(NoPort, AnyAddress)
Unmanaged == Endpoint(-1, AnyAddress)

\* Dedicated addresses use the standard port.
Exposures == {Endpoint(p, AnyAddress) : p \in Ports}
               \cup {Endpoint(StandardPort, a) : a \in Addresses}
RouteMaps == [Queues -> Exposures \cup {Off}]
Printers  == [Queues -> Exposures \cup {Off, Unmanaged}]

NoPrinters == [q \in Queues |-> Unmanaged]
NoRoutes   == [q \in Queues |-> Off]

Operations == {"none", "add", "adopt", "raw", "remove"}
NoJob == [op |-> "none", target |-> {}, endpoint |-> Off, sync |-> FALSE]
Jobs  == [op : Operations, target : SUBSET Queues,
          endpoint : Exposures \cup {Off, Unmanaged}, sync : BOOLEAN]

-----------------------------------------------------------------------------
(* The three rules for endpoints.                                          *)

IsExposed(e) == e \notin {Off, Unmanaged}

\* Mutant: a shared listener is not compared with dedicated ones.
Collides_SameAddress(e, f) ==
  \/ e.address # AnyAddress /\ f.address = e.address
  \/ f.port = e.port /\ f.address = e.address

\* _prepare_raw_endpoint: endpoint e of a request against f of another printer.
Collides(e, f) ==
  \/ e.address # AnyAddress /\ f.address = e.address
  \/ /\ f.port = e.port
     /\ e.address = AnyAddress \/ f.address = AnyAddress \/ f.address = e.address

\* State.from_mapping accepts these printers.
StateAccepted(m) ==
  \A p, q \in Queues : p # q /\ IsExposed(m[p]) /\ IsExposed(m[q]) =>
    /\ m[p].address # AnyAddress => m[p].address # m[q].address
    /\ m[p].port = m[q].port =>
         m[p].address # AnyAddress /\ m[q].address # AnyAddress
                                   /\ m[p].address # m[q].address

\* load_routes accepts these listeners.
RoutesAccepted(r) ==
  \A p, q \in Queues : p # q /\ IsExposed(r[p]) /\ IsExposed(r[q]) =>
    \/ r[p].port # r[q].port
    \/ AnyAddress \notin {r[p].address, r[q].address} /\ r[p].address # r[q].address

\* Mutant: a printer without an endpoint gets a listener too.
ConfiguredRoutes_All(m) == m

ConfiguredRoutes(m) == [q \in Queues |-> IF IsExposed(m[q]) THEN m[q] ELSE Off]

VirtualAddresses(r) == {r[q].address : q \in Queues} \ {AnyAddress}

UsedPorts(m) == {m[q].port : q \in {p \in Queues : IsExposed(m[p])}}

\* next_available_port, when there is one
NextAvailablePort(m) == Min(Ports \ UsedPorts(m))

\* What _prepare_raw_endpoint lets pass for queue q: no collision.  It refuses an
\* address new to q that the interface shows, too (End); a look that fails shows
\* none, so that every address may pass.
Fits(m, q, e) ==
  IsExposed(e) => \A p \in Queues \ {q} : IsExposed(m[p]) => ~Collides(e, m[p])

-----------------------------------------------------------------------------
(* An installation that was interrupted, or is older than the gateway, has  *)
(* no marks; an administrator may have CUPS queues already.                 *)
Init ==
  /\ saved = NoPrinters /\ marked \in BOOLEAN
  /\ routes = NoRoutes /\ gateway = NoRoutes
  /\ enabled = FALSE /\ unstopped = FALSE
  /\ aliases = {} /\ applied = {} /\ cups \in SUBSET Queues
  /\ pc = [s \in Sessions |-> "off"]
  /\ mem = [s \in Sessions |-> NoPrinters]
  /\ services = [s \in Sessions |-> FALSE]
  /\ job = [s \in Sessions |-> NoJob]
  /\ stale = {}

\* The other sessions that are going on: once s changes something, what they
\* have loaded or checked may be out of date.
Others(s) == {t \in Sessions \ {s} : pc[t] # "off"}
Touches(s) == stale' = stale \cup Others(s)

Goto(s, label) == pc' = [pc EXCEPT ![s] = label]

\* The process ends: done, refused, declined, failed or interrupted.
Ends(s) ==
  /\ Goto(s, "off")
  /\ mem' = [mem EXCEPT ![s] = NoPrinters]
  /\ services' = [services EXCEPT ![s] = FALSE]
  /\ job' = [job EXCEPT ![s] = NoJob]

\* The process fails after it has changed something.
Breaks(s) == Ends(s) /\ stale' = (stale \cup Others(s)) \ {s}

End(s) ==
  /\ pc[s] # "off"
  /\ Ends(s) /\ stale' = stale \ {s}
  /\ UNCHANGED <<fileVars, systemVars>>

Load(s) ==
  /\ pc[s] = "off"
  /\ Goto(s, "ready")
  /\ mem' = [mem EXCEPT ![s] = saved]
  /\ services' = [services EXCEPT ![s] = marked]
  /\ UNCHANGED <<fileVars, systemVars, job, stale>>

-----------------------------------------------------------------------------
(* Requests that pass their checks.  A refused one ends the session.       *)

Requests(s, op, q, e, sync) ==
  /\ job' = [job EXCEPT ![s] = [op |-> op, target |-> {q}, endpoint |-> e,
                                sync |-> sync]]
  /\ UNCHANGED <<fileVars, systemVars, services, stale>>

\* Mutant: the printers are replaced, not updated.
SetPrinters_Replaces(m, T, e) == [q \in Queues |-> IF q \in T THEN e ELSE Unmanaged]

SetPrinters(m, T, e) == [q \in Queues |-> IF q \in T THEN e ELSE m[q]]

\* add-printer; the setup wizard goes on with another printer.  An endpoint that
\* is not asked for stays, and asking for a port does not undo a dedicated one.
RequestAdd(s, q, e) ==
  LET current == IF mem[s][q] = Unmanaged THEN Off ELSE mem[s][q] IN
  /\ pc[s] \in {"ready", "again"} \/ (pc[s] = "done" /\ job[s].op \in {"add", "raw"})
  /\ \/ e = current
     \/ IsExposed(e) /\ (e.address # AnyAddress \/ current.address = AnyAddress)
  /\ Fits(mem[s], q, e)
  /\ Requests(s, "add", q, e, IsExposed(e) \/ services[s])
  /\ Goto(s, "change") /\ UNCHANGED mem

\* The operator of the wizard does not confirm this printer.
Decline(s) ==
  /\ pc[s] = "change" /\ job[s].op = "add"
  /\ Goto(s, "again")
  /\ job' = [job EXCEPT ![s] = NoJob]
  /\ UNCHANGED <<fileVars, systemVars, mem, services, stale>>

RequestRemove(s, q) ==
  /\ pc[s] = "ready" /\ mem[s][q] # Unmanaged
  /\ Requests(s, "remove", q, Unmanaged, services[s])
  /\ Goto(s, "change") /\ UNCHANGED mem

\* adopt-printer records a queue that CUPS has, and only saves.
RequestAdopt(s, q) ==
  /\ pc[s] = "ready" /\ mem[s][q] = Unmanaged /\ q \in cups
  /\ Requests(s, "adopt", q, Off, FALSE)
  /\ mem' = [mem EXCEPT ![s] = SetPrinters(@, {q}, Off)]
  /\ Goto(s, "save")

\* expose-raw, and unexpose-raw with Off: nothing to confirm.
RequestRaw(s, q, e) ==
  /\ pc[s] = "ready" /\ mem[s][q] # Unmanaged
  /\ Fits(mem[s], q, e)
  /\ Requests(s, "raw", q, e, IsExposed(e) \/ services[s])
  /\ mem' = [mem EXCEPT ![s] = SetPrinters(@, {q}, e)]
  /\ Goto(s, IF job'[s].sync THEN "sync" ELSE "save")

-----------------------------------------------------------------------------
(* The changes, in the order in which a command makes them.                *)

\* The CUPS commands of add-printer and remove-printer; lpadmin refuses to
\* remove a queue that is gone.
ChangeQueue(s) ==
  /\ pc[s] = "change"
  /\ IF job[s].op = "add"
     THEN cups' = cups \cup job[s].target
     ELSE job[s].target \subseteq cups /\ cups' = cups \ job[s].target
  /\ mem' = [mem EXCEPT ![s] = SetPrinters(@, job[s].target, job[s].endpoint)]
  /\ Goto(s, IF job[s].sync THEN "sync" ELSE "save")
  /\ Touches(s)
  /\ UNCHANGED <<fileVars, gateway, enabled, unstopped, aliases, applied, services,
                 job>>

\* The queue is created, and enabling it fails.
EnableFails(s) ==
  /\ pc[s] = "change" /\ job[s].op = "add"
  /\ cups' = cups \cup job[s].target
  /\ Breaks(s)
  /\ UNCHANGED <<fileVars, gateway, enabled, unstopped, aliases, applied>>

\* Mutant: only the target's listener in raw-proxy.yaml is rewritten.
WriteRoutes_Patches(s) ==
  /\ pc[s] = "sync"
  /\ routes' = [q \in Queues |-> IF q \in job[s].target
                                 THEN ConfiguredRoutes(mem[s])[q] ELSE routes[q]]
  /\ services' = [services EXCEPT ![s] = TRUE]
  /\ Goto(s, "addresses")
  /\ Touches(s)
  /\ UNCHANGED <<saved, marked, systemVars, mem, job>>

\* install_service or reconcile_service: write_routes.
WriteRoutes(s) ==
  /\ pc[s] = "sync"
  /\ routes' = ConfiguredRoutes(mem[s])
  /\ services' = [services EXCEPT ![s] = TRUE]
  /\ Goto(s, "addresses")
  /\ Touches(s)
  /\ UNCHANGED <<saved, marked, systemVars, mem, job>>

\* The restart of the address unit succeeds, in an environment without addresses
\* of an administrator, whether or not the old addresses are `gone' ...
Unit == INSTANCE AddressUnit WITH want <- VirtualAddresses(routes)

ApplyAddresses(s) ==
  /\ pc[s] = "addresses"
  /\ \E gone \in SUBSET Addresses : Unit!Succeeds({}, gone)
  /\ Goto(s, "gateway")
  /\ Touches(s)
  /\ UNCHANGED <<fileVars, gateway, enabled, unstopped, cups, mem, services, job>>

\* ... or fails half way.
AddressesFail(s) ==
  /\ pc[s] = "addresses"
  /\ Unit!Fails
  /\ Breaks(s)
  /\ UNCHANGED <<fileVars, gateway, enabled, unstopped, cups>>

\* Mutant: a gateway that is running is started, not restarted.
RestartGateway_Starts(s) ==
  /\ pc[s] = "gateway" /\ ConfiguredRoutes(mem[s]) # NoRoutes
  /\ gateway' = IF gateway = NoRoutes THEN routes ELSE gateway
  /\ enabled' = TRUE /\ unstopped' = FALSE
  /\ Goto(s, "save")
  /\ Touches(s)
  /\ UNCHANGED <<fileVars, aliases, applied, cups, mem, services, job>>

\* The gateway is enabled, and restarted with the listeners on file.
RestartGateway(s) ==
  /\ pc[s] = "gateway" /\ ConfiguredRoutes(mem[s]) # NoRoutes
  /\ gateway' = routes
  /\ enabled' = TRUE /\ unstopped' = FALSE
  /\ Goto(s, "save")
  /\ Touches(s)
  /\ UNCHANGED <<fileVars, aliases, applied, cups, mem, services, job>>

\* The unit is enabled, the old process stopped, and the new one not started.
RestartFails(s) ==
  /\ pc[s] = "gateway" /\ ConfiguredRoutes(mem[s]) # NoRoutes
  /\ gateway' = NoRoutes
  /\ enabled' = TRUE /\ unstopped' = FALSE
  /\ Breaks(s)
  /\ UNCHANGED <<fileVars, aliases, applied, cups>>

\* systemctl disable --now, unchecked: a gateway that has nothing left to serve
\* is stopped, or goes on with what it has and may be restarted as before.
DisableGateway(s) ==
  /\ pc[s] = "gateway" /\ ConfiguredRoutes(mem[s]) = NoRoutes
  /\ \/ gateway' = NoRoutes /\ enabled' = FALSE /\ unstopped' = FALSE
     \/ unstopped' = enabled /\ UNCHANGED <<gateway, enabled>>
  /\ Goto(s, "save")
  /\ Touches(s)
  /\ UNCHANGED <<fileVars, aliases, applied, cups, mem, services, job>>

Save(s) ==
  /\ pc[s] = "save"
  /\ saved' = mem[s] /\ marked' = services[s]
  /\ Goto(s, "done")
  /\ Touches(s)
  /\ UNCHANGED <<routes, systemVars, mem, services, job>>

\* Restart=on-failure, or an administrator, starts a gateway that reads the file
\* anew, and serves nothing when that has no listener.
GatewayRestarts ==
  /\ enabled
  /\ gateway' = routes
  /\ UNCHANGED <<fileVars, enabled, unstopped, aliases, applied, cups, sessionVars,
                 stale>>

Requested(s) ==
  \E q \in Queues :
    \/ \E e \in Exposures \cup {Off} : RequestAdd(s, q, e) \/ RequestRaw(s, q, e)
    \/ RequestRemove(s, q) \/ RequestAdopt(s, q)

Unrequested(s) ==
  \/ Load(s) \/ End(s) \/ Decline(s)
  \/ ChangeQueue(s) \/ EnableFails(s) \/ WriteRoutes(s)
  \/ ApplyAddresses(s) \/ AddressesFail(s)
  \/ RestartGateway(s) \/ RestartFails(s) \/ DisableGateway(s) \/ Save(s)

Next == GatewayRestarts \/ \E s \in Sessions : Requested(s) \/ Unrequested(s)

Spec == Init /\ [][Next]_vars

-----------------------------------------------------------------------------
TypeOK ==
  /\ saved \in Printers /\ marked \in BOOLEAN
  /\ routes \in RouteMaps /\ gateway \in RouteMaps
  /\ enabled \in BOOLEAN /\ unstopped \in BOOLEAN
  /\ aliases \subseteq Addresses /\ applied \subseteq Addresses
  /\ cups \subseteq Queues
  /\ pc \in [Sessions -> {"off", "ready", "again", "change", "sync", "addresses",
                          "gateway", "save", "done"}]
  /\ mem \in [Sessions -> Printers]
  /\ services \in [Sessions -> BOOLEAN]
  /\ job \in [Sessions -> Jobs]
  /\ stale \subseteq Sessions

\* Whatever sessions overlap, fail or are interrupted, the next command can
\* load state.yaml: what _prepare_raw_endpoint lets pass, State.from_mapping
\* accepts.
StateLoads == StateAccepted(saved)

\* In the same way load_routes accepts raw-proxy.yaml, so the gateway can
\* always start and never opens one endpoint for two queues.
RoutesLoad == RoutesAccepted(routes) /\ RoutesAccepted(gateway)

\* The port that expose-raw chooses by itself is never refused as taken (proved in
\* ManagedStateProofs; no run checks it).
AutomaticPortFits ==
  \A s \in Sessions, q \in Queues :
    pc[s] = "ready" /\ Ports \ UsedPorts(mem[s]) # {} =>
      Fits(mem[s], q, Endpoint(NextAvailablePort(mem[s]), AnyAddress))

\* A command that succeeds while no other one changes anything leaves CUPS and
\* state.yaml as asked; if it reconciles the services, it also repairs what any
\* earlier failure left: raw-proxy.yaml agrees with state.yaml again, the wanted
\* addresses are on file and in place, and the gateway serves what is on file.
\* There is one exception, a gateway that was to be stopped and went on because
\* the unchecked `disable --now' had failed.
SuccessIsComplete ==
  \A s \in Sessions : pc[s] = "done" /\ s \notin stale =>
    /\ \A q \in job[s].target : saved[q] = job[s].endpoint
    /\ job[s].op = "add" => job[s].target \subseteq cups
    /\ job[s].op = "remove" => job[s].target \cap cups = {}
    /\ job[s].sync =>
         /\ routes = ConfiguredRoutes(saved)
         /\ gateway = routes \/ (unstopped /\ routes = NoRoutes)
         /\ applied = VirtualAddresses(routes) /\ applied \subseteq aliases

\* A command changes the record of no printer but its target's, unless another
\* one has changed something since it loaded the state.
OnlyTargetsChange ==
  [][\A q \in Queues : saved'[q] # saved[q] =>
       \E s \in Sessions : pc[s] = "save" /\ (s \in stale \/ q \in job[s].target)]_vars

\* docs/network-printers.md:70: unexpose-raw is to "disable exposure".  Once it
\* has reported success, nothing else ran, and no `disable --now' failed, the
\* gateway does not serve the queue.
UnexposedIsOff ==
  \A s \in Sessions :
    pc[s] = "done" /\ s \notin stale /\ ~unstopped
      /\ job[s].op = "raw" /\ job[s].endpoint = Off =>
      \A q \in job[s].target : gateway[q] = Off

=============================================================================
