------------------------- MODULE ManagedStateProofs -------------------------
(***************************************************************************)
(* Proofs about ManagedState, for any number of sessions, queues, ports    *)
(* and addresses.  Inv is inductive: every State that a session holds is   *)
(* acceptable, and so is the request it is about to carry out.  Alone says *)
(* what a session that nobody interfered with knows at each step.          *)
(***************************************************************************)
EXTENDS ManagedState, WellFoundedInduction, TLAPS

\* A record of saved printers or of routes is one of these endpoints.
LEMMA EndpointTypes ==
  /\ \A e \in Exposures : IsExposed(e) /\ e.port \in Nat \ {0} /\ e.address \in Nat
  /\ Off.port = 0 /\ Off.address = AnyAddress /\ ~IsExposed(Off)
  /\ Unmanaged.address = AnyAddress /\ ~IsExposed(Unmanaged) /\ Off # Unmanaged
  BY PortsAssumption, AddressesAssumption
     DEF Exposures, Endpoint, IsExposed, Off, Unmanaged, AnyAddress, NoPort

\* Replacing some printers of a State by one endpoint gives printers again.
LEMMA SetPrintersType ==
  ASSUME NEW m \in Printers, NEW T, NEW e \in Exposures \cup {Off, Unmanaged}
  PROVE  SetPrinters(m, T, e) \in Printers
  BY DEF SetPrinters, Printers

LEMMA ConfiguredRoutesType ==
  ASSUME NEW m \in Printers
  PROVE  ConfiguredRoutes(m) \in RouteMaps
  BY DEF ConfiguredRoutes, Printers, RouteMaps, IsExposed

LEMMA VirtualAddressesType ==
  ASSUME NEW r \in RouteMaps
  PROVE  VirtualAddresses(r) \subseteq Addresses
  <1> SUFFICES ASSUME NEW q \in Queues, r[q].address # AnyAddress
               PROVE  r[q].address \in Addresses
    BY DEF VirtualAddresses
  <1>1. r[q] \in Exposures \cup {Off}
    BY DEF RouteMaps
  <1>2. CASE r[q] = Off
    BY <1>2, EndpointTypes
  <1>3. CASE r[q] \in Exposures
    BY <1>3 DEF Exposures, Endpoint
  <1> QED BY <1>1, <1>2, <1>3

\* The types of a session's own variables after it goes on, and after it ends.
LEMMA EndsType ==
  ASSUME TypeOK, NEW s \in Sessions, Ends(s)
  PROVE  /\ pc' \in [Sessions -> {"off", "ready", "again", "change", "sync",
                                  "addresses", "gateway", "save", "done"}]
         /\ mem' \in [Sessions -> Printers]
         /\ services' \in [Sessions -> BOOLEAN]
         /\ job' \in [Sessions -> Jobs]
  <1>1. NoPrinters \in Printers
    BY DEF NoPrinters, Printers
  <1>2. NoJob \in Jobs
    BY DEF NoJob, Jobs, Operations
  <1> QED BY <1>1, <1>2 DEF TypeOK, Ends, Goto

LEMMA RequestsType ==
  ASSUME TypeOK, NEW s \in Sessions, NEW op \in Operations, NEW q \in Queues,
         NEW e \in Exposures \cup {Off, Unmanaged}, NEW b \in BOOLEAN,
         Requests(s, op, q, e, b)
  PROVE  job' \in [Sessions -> Jobs]
  <1>1. [op |-> op, target |-> {q}, endpoint |-> e, sync |-> b] \in Jobs
    BY DEF Jobs
  <1> QED BY <1>1 DEF TypeOK, Requests

LEMMA TypeStep ==
  ASSUME TypeOK, [Next]_vars
  PROVE  TypeOK'
  <1> USE DEF fileVars, systemVars, sessionVars, Goto, Touches, Others
  <1>1. CASE UNCHANGED vars
    BY <1>1 DEF TypeOK, vars
  <1>2. CASE GatewayRestarts
    BY <1>2 DEF TypeOK, GatewayRestarts
  <1>3. ASSUME NEW s \in Sessions, Unrequested(s)
        PROVE  TypeOK'
    <2>1. CASE Load(s)
      BY <2>1 DEF TypeOK, Load
    <2>2. CASE End(s)
      BY <2>2, EndsType DEF TypeOK, End
    <2>3. CASE Decline(s)
      <3>1. NoJob \in Jobs
        BY DEF NoJob, Jobs, Operations
      <3> QED BY <2>3, <3>1 DEF TypeOK, Decline
    <2>4. CASE ChangeQueue(s)
      <3>1. /\ job[s].target \subseteq Queues
            /\ job[s].endpoint \in Exposures \cup {Off, Unmanaged}
        BY DEF TypeOK, Jobs
      <3>2. mem' \in [Sessions -> Printers]
        BY <2>4, <3>1, SetPrintersType DEF TypeOK, ChangeQueue
      <3>3. pc' \in [Sessions -> {"off", "ready", "again", "change", "sync",
                                  "addresses", "gateway", "save", "done"}]
        BY <2>4 DEF TypeOK, ChangeQueue
      <3>4. cups' \subseteq Queues /\ stale' \subseteq Sessions
        BY <2>4, <3>1 DEF TypeOK, ChangeQueue
      <3> QED BY <2>4, <3>2, <3>3, <3>4 DEF TypeOK, ChangeQueue
    <2>5. CASE EnableFails(s)
      <3>1. job[s].target \subseteq Queues
        BY DEF TypeOK, Jobs
      <3>2. Ends(s)
        BY <2>5 DEF EnableFails, Breaks
      <3> QED BY <2>5, <3>1, <3>2, EndsType DEF TypeOK, EnableFails, Breaks
    <2>6. CASE WriteRoutes(s)
      BY <2>6, ConfiguredRoutesType DEF TypeOK, WriteRoutes
    <2>7. CASE ApplyAddresses(s)
      BY <2>7, VirtualAddressesType
         DEF TypeOK, ApplyAddresses, Unit!Succeeds, Unit!Old
    <2>8. CASE AddressesFail(s)
      <3>1. Ends(s)
        BY <2>8 DEF AddressesFail, Breaks
      <3>2. aliases' \subseteq Addresses /\ applied' = applied
        BY <2>8, VirtualAddressesType DEF TypeOK, AddressesFail, Unit!Fails
      <3> QED BY <2>8, <3>1, <3>2, EndsType DEF TypeOK, AddressesFail, Breaks
    <2>9. CASE RestartGateway(s) \/ DisableGateway(s)
      BY <2>9 DEF TypeOK, RestartGateway, DisableGateway, NoRoutes, RouteMaps
    <2>10. CASE RestartFails(s)
      <3>1. Ends(s)
        BY <2>10 DEF RestartFails, Breaks
      <3> QED BY <2>10, <3>1, EndsType
              DEF TypeOK, RestartFails, Breaks, NoRoutes, RouteMaps
    <2>11. CASE Save(s)
      BY <2>11 DEF TypeOK, Save
    <2> QED BY <1>3, <2>1, <2>2, <2>3, <2>4, <2>5, <2>6, <2>7, <2>8, <2>9, <2>10,
               <2>11 DEF Unrequested
  <1>4. ASSUME NEW s \in Sessions, NEW q \in Queues,
               NEW e \in Exposures \cup {Off}, RequestAdd(s, q, e)
        PROVE  TypeOK'
    <2>1. (IsExposed(e) \/ services[s]) \in BOOLEAN
      BY Zenon DEF IsExposed
    <2>2. job' \in [Sessions -> Jobs]
      BY <1>4, <2>1, RequestsType DEF RequestAdd, Operations
    <2> QED BY <1>4, <2>2 DEF TypeOK, RequestAdd, Requests
  <1>5. ASSUME NEW s \in Sessions, NEW q \in Queues,
               NEW e \in Exposures \cup {Off}, RequestRaw(s, q, e)
        PROVE  TypeOK'
    <2>1. (IsExposed(e) \/ services[s]) \in BOOLEAN
      BY Zenon DEF IsExposed
    <2>2. job' \in [Sessions -> Jobs]
      BY <1>5, <2>1, RequestsType DEF RequestRaw, Operations
    <2>3. mem' \in [Sessions -> Printers]
      BY <1>5, SetPrintersType DEF TypeOK, RequestRaw
    <2>4. pc' \in [Sessions -> {"off", "ready", "again", "change", "sync",
                                "addresses", "gateway", "save", "done"}]
      BY <1>5 DEF TypeOK, RequestRaw
    <2> QED BY <1>5, <2>2, <2>3, <2>4 DEF TypeOK, RequestRaw, Requests
  <1>6. ASSUME NEW s \in Sessions, NEW q \in Queues, RequestRemove(s, q)
        PROVE  TypeOK'
    <2>1. job' \in [Sessions -> Jobs]
      BY <1>6, RequestsType DEF RequestRemove, Operations, TypeOK
    <2> QED BY <1>6, <2>1 DEF TypeOK, RequestRemove, Requests
  <1>7. ASSUME NEW s \in Sessions, NEW q \in Queues, RequestAdopt(s, q)
        PROVE  TypeOK'
    <2>1. job' \in [Sessions -> Jobs]
      BY <1>7, RequestsType DEF RequestAdopt, Operations
    <2>2. mem' \in [Sessions -> Printers]
      BY <1>7, SetPrintersType DEF TypeOK, RequestAdopt
    <2> QED BY <1>7, <2>1, <2>2 DEF TypeOK, RequestAdopt, Requests
  <1> QED BY <1>1, <1>2, <1>3, <1>4, <1>5, <1>6, <1>7 DEF Next, Requested

LEMMA TypeInit == Init => TypeOK
  <1> SUFFICES ASSUME Init PROVE TypeOK
    OBVIOUS
  <1>1. NoPrinters \in Printers /\ NoRoutes \in RouteMaps
    BY DEF NoPrinters, NoRoutes, Printers, RouteMaps
  <1>2. NoJob \in Jobs
    BY DEF NoJob, Jobs, Operations
  <1> QED BY <1>1, <1>2 DEF Init, TypeOK

\* Every variable keeps its type (state.yaml, raw-proxy.yaml, raw-addresses.yaml
\* and the sessions' own State).
THEOREM TypeCorrect == Spec => []TypeOK
  BY TypeInit, TypeStep, PTL DEF Spec

-----------------------------------------------------------------------------
(* The endpoint rules.                                                     *)

\* A State that is acceptable stays so when one printer gets an endpoint that
\* collides with no other one's.
LEMMA SetPrintersAccepted ==
  ASSUME NEW m \in Printers, StateAccepted(m), NEW q \in Queues,
         NEW e \in Exposures \cup {Off, Unmanaged},
         IsExposed(e) =>
           \A p \in Queues \ {q} : IsExposed(m[p]) => ~Collides(e, m[p])
  PROVE  StateAccepted(SetPrinters(m, {q}, e))
  <1> DEFINE n == SetPrinters(m, {q}, e)
  <1>1. \A p \in Queues : n[p] = IF p = q THEN e ELSE m[p]
    BY DEF SetPrinters
  <1> SUFFICES ASSUME NEW p1 \in Queues, NEW p2 \in Queues, p1 # p2,
                      IsExposed(n[p1]), IsExposed(n[p2])
               PROVE  /\ n[p1].address # AnyAddress => n[p1].address # n[p2].address
                      /\ n[p1].port = n[p2].port =>
                           n[p1].address # AnyAddress /\ n[p2].address # AnyAddress
                                                      /\ n[p1].address # n[p2].address
    BY DEF StateAccepted
  <1>2. CASE p1 # q /\ p2 # q
    BY <1>1, <1>2 DEF StateAccepted
  <1>3. CASE p1 = q
    BY <1>1, <1>3 DEF Collides
  <1>4. CASE p2 = q
    BY <1>1, <1>4 DEF Collides
  <1> QED BY <1>2, <1>3, <1>4

\* What State.from_mapping accepts, load_routes accepts once it is written.
LEMMA ConfiguredRoutesAccepted ==
  ASSUME NEW m \in Printers, StateAccepted(m)
  PROVE  RoutesAccepted(ConfiguredRoutes(m))
  <1>1. \A p \in Queues : IsExposed(ConfiguredRoutes(m)[p]) =>
           IsExposed(m[p]) /\ ConfiguredRoutes(m)[p] = m[p]
    BY EndpointTypes DEF ConfiguredRoutes
  <1> QED BY <1>1 DEF StateAccepted, RoutesAccepted

LEMMA NothingAccepted ==
  StateAccepted(NoPrinters) /\ RoutesAccepted(NoRoutes)
  BY EndpointTypes DEF StateAccepted, RoutesAccepted, NoPrinters, NoRoutes

\* The request of a session that is about to change CUPS has been checked
\* against the State it still holds.
Checked(s) ==
  \E q \in Queues :
    /\ job[s].target = {q}
    /\ IsExposed(job[s].endpoint) =>
         \A p \in Queues \ {q} :
           IsExposed(mem[s][p]) => ~Collides(job[s].endpoint, mem[s][p])

Inv ==
  /\ TypeOK
  /\ StateLoads /\ RoutesLoad
  /\ \A s \in Sessions : StateAccepted(mem[s])
  /\ \A s \in Sessions : pc[s] = "change" => Checked(s)

\* The steps that leave the other sessions' State and request alone need only
\* say what happens to their own session.
LEMMA OneSession ==
  ASSUME Inv, TypeOK', NEW s \in Sessions,
         \A t \in Sessions \ {s} :
           mem'[t] = mem[t] /\ job'[t] = job[t] /\ pc'[t] = pc[t],
         StateAccepted(mem'[s]),
         pc'[s] = "change" => Checked(s)',
         StateLoads', RoutesLoad'
  PROVE  Inv'
  <1>1. \A t \in Sessions : StateAccepted(mem'[t])
    BY DEF Inv
  <1>2. ASSUME NEW t \in Sessions \ {s}, pc'[t] = "change"
        PROVE  Checked(t)'
    BY <1>2 DEF Inv, Checked
  <1> QED BY <1>1, <1>2 DEF Inv

LEMMA InvEnds ==
  ASSUME Inv, TypeOK', NEW s \in Sessions, Ends(s), StateLoads', RoutesLoad'
  PROVE  Inv'
  <1>1. \A t \in Sessions \ {s} :
           mem'[t] = mem[t] /\ job'[t] = job[t] /\ pc'[t] = pc[t]
    BY DEF Ends, Goto, Inv, TypeOK
  <1>2. StateAccepted(mem'[s]) /\ pc'[s] = "off"
    BY NothingAccepted DEF Ends, Goto, Inv, TypeOK
  <1> QED BY <1>1, <1>2, OneSession

LEMMA InvStep ==
  ASSUME Inv, [Next]_vars
  PROVE  Inv'
  <1> USE DEF fileVars, systemVars, sessionVars, Goto
  <1>0. TypeOK /\ TypeOK'
    BY TypeStep DEF Inv
  <1>1. CASE UNCHANGED vars
    BY <1>1 DEF Inv, vars, TypeOK, StateLoads, RoutesLoad, Checked
  <1>2. CASE GatewayRestarts
    <2>1. StateLoads' /\ RoutesLoad'
      BY <1>2 DEF GatewayRestarts, Inv, StateLoads, RoutesLoad
    <2> QED BY <1>0, <1>2, <2>1 DEF GatewayRestarts, Inv, Checked
  <1>3. ASSUME NEW s \in Sessions, Unrequested(s)
        PROVE  Inv'
    <2>1. CASE Load(s)
      <3>1. StateLoads' /\ RoutesLoad'
        BY <2>1 DEF Load, Inv, StateLoads, RoutesLoad
      <3>2. StateAccepted(mem'[s]) /\ pc'[s] = "ready"
        BY <1>0, <2>1 DEF Load, Inv, StateLoads, TypeOK
      <3> QED BY <1>0, <2>1, <3>1, <3>2, OneSession DEF Load, TypeOK
    <2>2. CASE End(s)
      <3>1. StateLoads' /\ RoutesLoad'
        BY <2>2 DEF End, Inv, StateLoads, RoutesLoad
      <3> QED BY <1>0, <2>2, <3>1, InvEnds DEF End
    <2>3. CASE Decline(s)
      <3>1. StateLoads' /\ RoutesLoad'
        BY <2>3 DEF Decline, Inv, StateLoads, RoutesLoad
      <3>2. StateAccepted(mem'[s]) /\ pc'[s] = "again"
        BY <1>0, <2>3 DEF Decline, Inv, TypeOK
      <3> QED BY <1>0, <2>3, <3>1, <3>2, OneSession DEF Decline, TypeOK
    <2>4. CASE ChangeQueue(s)
      <3>1. StateLoads' /\ RoutesLoad'
        BY <2>4 DEF ChangeQueue, Inv, StateLoads, RoutesLoad
      <3>2. mem'[s] = SetPrinters(mem[s], job[s].target, job[s].endpoint)
        BY <1>0, <2>4 DEF ChangeQueue, TypeOK
      <3>3. Checked(s) /\ mem[s] \in Printers /\ StateAccepted(mem[s])
            /\ job[s].endpoint \in Exposures \cup {Off, Unmanaged}
        BY <1>0, <2>4 DEF ChangeQueue, Inv, TypeOK, Jobs
      <3>4. StateAccepted(mem'[s])
        BY <3>2, <3>3, SetPrintersAccepted DEF Checked
      <3>5. pc'[s] # "change"
        BY <1>0, <2>4 DEF ChangeQueue, TypeOK
      <3> QED BY <1>0, <2>4, <3>1, <3>4, <3>5, OneSession DEF ChangeQueue, TypeOK
    <2>5. CASE EnableFails(s)
      <3>1. StateLoads' /\ RoutesLoad'
        BY <2>5 DEF EnableFails, Inv, StateLoads, RoutesLoad
      <3> QED BY <1>0, <2>5, <3>1, InvEnds DEF EnableFails, Breaks
    <2>6. CASE WriteRoutes(s)
      <3>1. RoutesAccepted(ConfiguredRoutes(mem[s]))
        BY <1>0, ConfiguredRoutesAccepted DEF Inv, TypeOK
      <3>2. StateLoads' /\ RoutesLoad'
        BY <2>6, <3>1 DEF WriteRoutes, Inv, StateLoads, RoutesLoad
      <3>3. StateAccepted(mem'[s]) /\ pc'[s] = "addresses"
        BY <1>0, <2>6 DEF WriteRoutes, Inv, TypeOK
      <3> QED BY <1>0, <2>6, <3>2, <3>3, OneSession DEF WriteRoutes, TypeOK
    <2>7. CASE ApplyAddresses(s)
      <3>1. StateLoads' /\ RoutesLoad'
        BY <2>7 DEF ApplyAddresses, Inv, StateLoads, RoutesLoad
      <3>2. StateAccepted(mem'[s]) /\ pc'[s] = "gateway"
        BY <1>0, <2>7 DEF ApplyAddresses, Inv, TypeOK
      <3> QED BY <1>0, <2>7, <3>1, <3>2, OneSession DEF ApplyAddresses, TypeOK
    <2>8. CASE AddressesFail(s)
      <3>1. StateLoads' /\ RoutesLoad'
        BY <2>8 DEF AddressesFail, Inv, StateLoads, RoutesLoad
      <3> QED BY <1>0, <2>8, <3>1, InvEnds DEF AddressesFail, Breaks
    <2>9. CASE RestartGateway(s) \/ DisableGateway(s)
      <3>1. StateLoads' /\ RoutesLoad'
        BY <2>9, NothingAccepted
           DEF RestartGateway, DisableGateway, Inv, StateLoads, RoutesLoad
      <3>2. StateAccepted(mem'[s]) /\ pc'[s] = "save"
        BY <1>0, <2>9 DEF RestartGateway, DisableGateway, Inv, TypeOK
      <3> QED BY <1>0, <2>9, <3>1, <3>2, OneSession
              DEF RestartGateway, DisableGateway, TypeOK
    <2>10. CASE RestartFails(s)
      <3>1. StateLoads' /\ RoutesLoad'
        BY <2>10, NothingAccepted DEF RestartFails, Inv, StateLoads, RoutesLoad
      <3> QED BY <1>0, <2>10, <3>1, InvEnds DEF RestartFails, Breaks
    <2>11. CASE Save(s)
      <3>1. StateLoads' /\ RoutesLoad'
        BY <2>11 DEF Save, Inv, StateLoads, RoutesLoad
      <3>2. StateAccepted(mem'[s]) /\ pc'[s] = "done"
        BY <1>0, <2>11 DEF Save, Inv, TypeOK
      <3> QED BY <1>0, <2>11, <3>1, <3>2, OneSession DEF Save, TypeOK
    <2> QED BY <1>3, <2>1, <2>2, <2>3, <2>4, <2>5, <2>6, <2>7, <2>8, <2>9, <2>10,
               <2>11 DEF Unrequested
  <1>4. ASSUME NEW s \in Sessions, Requested(s)
        PROVE  Inv'
    <2>1. StateLoads' /\ RoutesLoad'
      BY <1>4 DEF Requested, RequestAdd, RequestRaw, RequestRemove, RequestAdopt,
                  Requests, Inv, StateLoads, RoutesLoad
    <2>2. \A t \in Sessions \ {s} :
            mem'[t] = mem[t] /\ job'[t] = job[t] /\ pc'[t] = pc[t]
      BY <1>0, <1>4 DEF Requested, RequestAdd, RequestRaw, RequestRemove,
                        RequestAdopt, Requests, TypeOK
    <2>3. ASSUME NEW q \in Queues, NEW e \in Exposures \cup {Off},
                 RequestAdd(s, q, e)
          PROVE  StateAccepted(mem'[s]) /\ Checked(s)'
      <3>1. mem' = mem /\ job'[s].target = {q} /\ job'[s].endpoint = e
        BY <1>0, <2>3 DEF RequestAdd, Requests, TypeOK
      <3> QED BY <2>3, <3>1 DEF RequestAdd, Fits, Checked, Inv
    <2>4. ASSUME NEW q \in Queues, NEW e \in Exposures \cup {Off},
                 RequestRaw(s, q, e)
          PROVE  StateAccepted(mem'[s]) /\ pc'[s] # "change"
      <3>1. mem'[s] = SetPrinters(mem[s], {q}, e) /\ pc'[s] # "change"
        BY <1>0, <2>4 DEF RequestRaw, TypeOK
      <3>2. mem[s] \in Printers /\ StateAccepted(mem[s])
        BY <1>0 DEF Inv, TypeOK
      <3>3. IsExposed(e) =>
              \A p \in Queues \ {q} : IsExposed(mem[s][p]) => ~Collides(e, mem[s][p])
        BY <2>4 DEF RequestRaw, Fits
      <3> QED BY <3>1, <3>2, <3>3, SetPrintersAccepted
    <2>5. ASSUME NEW q \in Queues, RequestRemove(s, q)
          PROVE  StateAccepted(mem'[s]) /\ Checked(s)'
      <3>1. mem' = mem /\ job'[s].target = {q} /\ job'[s].endpoint = Unmanaged
        BY <1>0, <2>5 DEF RequestRemove, Requests, TypeOK
      <3> QED BY <3>1, EndpointTypes DEF Checked, Inv
    <2>6. ASSUME NEW q \in Queues, RequestAdopt(s, q)
          PROVE  StateAccepted(mem'[s]) /\ pc'[s] # "change"
      <3>1. mem'[s] = SetPrinters(mem[s], {q}, Off) /\ pc'[s] # "change"
        BY <1>0, <2>6 DEF RequestAdopt, TypeOK
      <3>2. mem[s] \in Printers /\ StateAccepted(mem[s])
        BY <1>0 DEF Inv, TypeOK
      <3> QED BY <3>1, <3>2, EndpointTypes, SetPrintersAccepted
    <2>7. StateAccepted(mem'[s]) /\ (pc'[s] = "change" => Checked(s)')
      BY <1>4, <2>3, <2>4, <2>5, <2>6 DEF Requested
    <2> QED BY <1>0, <2>1, <2>2, <2>7, OneSession
  <1> QED BY <1>1, <1>2, <1>3, <1>4 DEF Next

LEMMA InvInit == Init => Inv
  <1> SUFFICES ASSUME Init PROVE Inv
    OBVIOUS
  <1>1. \A s \in Sessions : pc[s] = "off" /\ mem[s] = NoPrinters
    BY DEF Init
  <1> QED BY <1>1, TypeInit, NothingAccepted DEF Init, Inv, StateLoads, RoutesLoad

\* Whatever sessions overlap, fail or are interrupted, State.from_mapping accepts
\* the state.yaml that the next command loads.
THEOREM StateAlwaysLoads == Spec => []StateLoads
  <1>1. Inv => StateLoads
    BY DEF Inv
  <1> QED BY <1>1, InvInit, InvStep, PTL DEF Spec

\* Likewise load_routes accepts raw-proxy.yaml whenever a gateway starts.
THEOREM RoutesAlwaysLoad == Spec => []RoutesLoad
  <1>1. Inv => RoutesLoad
    BY DEF Inv
  <1> QED BY <1>1, InvInit, InvStep, PTL DEF Spec

-----------------------------------------------------------------------------
(* What a session knows that nobody interfered with.                       *)

Changed == {"sync", "addresses", "gateway", "save"}

\* The services have been reconciled up to this step.
Written(s)  == pc[s] \in {"addresses", "gateway"}
                 \/ (pc[s] \in {"save", "done"} /\ job[s].sync)
Applied(s)  == pc[s] = "gateway" \/ (pc[s] \in {"save", "done"} /\ job[s].sync)
Reloaded(s) == pc[s] \in {"save", "done"} /\ job[s].sync

Knows(s) ==
  /\ pc[s] \in {"ready", "again", "change", "done"} => mem[s] = saved
  /\ pc[s] \in Changed =>
       \A q \in Queues \ job[s].target : mem[s][q] = saved[q]
  /\ pc[s] \in Changed \cup {"done"} =>
       /\ \A q \in job[s].target : mem[s][q] = job[s].endpoint
       /\ job[s].op = "add" => job[s].target \subseteq cups
       /\ job[s].op = "remove" => job[s].target \cap cups = {}
  /\ pc[s] \in {"sync", "addresses", "gateway"} => job[s].sync
  /\ Written(s)  => routes = ConfiguredRoutes(mem[s])
  /\ Applied(s)  => applied = VirtualAddresses(routes) /\ applied \subseteq aliases
  /\ Reloaded(s) => gateway = routes \/ (unstopped /\ routes = NoRoutes)

Alone(s) == pc[s] # "off" /\ s \notin stale => Knows(s)

\* A gateway that is neither enabled nor left over serves nothing.
Served == enabled \/ gateway = NoRoutes

AloneInv == TypeOK /\ Served /\ \A s \in Sessions : Alone(s)

Unmoved(s) ==
  \A t \in Sessions \ {s} : mem'[t] = mem[t] /\ job'[t] = job[t] /\ pc'[t] = pc[t]

\* A step that touches what is shared leaves no other session alone.
LEMMA TouchOthers ==
  ASSUME NEW s \in Sessions, Unmoved(s), Others(s) \subseteq stale'
  PROVE  \A t \in Sessions \ {s} : Alone(t)'
  BY DEF Unmoved, Others, Alone

\* A step that does not, leaves what the others know as it was.
LEMMA QuietOthers ==
  ASSUME AloneInv, NEW s \in Sessions, Unmoved(s),
         UNCHANGED <<fileVars, systemVars>>, stale \ {s} \subseteq stale'
  PROVE  \A t \in Sessions \ {s} : Alone(t)'
  <1> SUFFICES ASSUME NEW t \in Sessions \ {s}, pc'[t] # "off", t \notin stale'
               PROVE  Knows(t)'
    BY DEF Alone
  <1>1. Knows(t)
    BY DEF AloneInv, Alone, Unmoved
  <1> QED BY <1>1 DEF Knows, Written, Applied, Reloaded, Unmoved, fileVars, systemVars

LEMMA Ending ==
  ASSUME TypeOK, NEW s \in Sessions, Ends(s)
  PROVE  Unmoved(s) /\ pc'[s] = "off"
  BY DEF Ends, Goto, Unmoved, TypeOK

LEMMA AloneEnds ==
  ASSUME TypeOK, NEW s \in Sessions, Breaks(s)
  PROVE  \A t \in Sessions : Alone(t)'
  <1>1. Unmoved(s) /\ pc'[s] = "off"
    BY Ending DEF Breaks
  <1>2. Others(s) \subseteq stale'
    BY DEF Breaks, Others
  <1> QED BY <1>1, <1>2, TouchOthers DEF Alone

LEMMA AloneRequested ==
  ASSUME AloneInv, NEW s \in Sessions, Requested(s)
  PROVE  \A t \in Sessions : Alone(t)'
  <1> USE DEF Goto
  <1>0. TypeOK
    BY DEF AloneInv
  <1>1. Unmoved(s)
    BY <1>0 DEF Requested, RequestAdd, RequestRaw, RequestRemove, RequestAdopt,
                Requests, TypeOK, Unmoved
  <1>2. UNCHANGED <<fileVars, systemVars, stale>>
    BY DEF Requested, RequestAdd, RequestRaw, RequestRemove, RequestAdopt, Requests
  <1>3. \A t \in Sessions \ {s} : Alone(t)'
    BY <1>1, <1>2, QuietOthers
  <1>4. ASSUME s \notin stale
        PROVE  Knows(s)'
    <2>1. ASSUME NEW q \in Queues, NEW e \in Exposures \cup {Off},
                 RequestAdd(s, q, e)
          PROVE  Knows(s)'
      <3>1. pc'[s] = "change" /\ mem' = mem /\ mem[s] = saved /\ saved' = saved
        BY <1>0, <1>2, <1>4, <2>1
           DEF RequestAdd, AloneInv, Alone, Knows, TypeOK, fileVars
      <3> QED BY <3>1 DEF Knows, Written, Applied, Reloaded, Changed
    <2>2. ASSUME NEW q \in Queues, RequestRemove(s, q)
          PROVE  Knows(s)'
      <3>1. pc'[s] = "change" /\ mem' = mem /\ mem[s] = saved /\ saved' = saved
        BY <1>0, <1>2, <1>4, <2>2
           DEF RequestRemove, AloneInv, Alone, Knows, TypeOK, fileVars
      <3> QED BY <3>1 DEF Knows, Written, Applied, Reloaded, Changed
    <2>3. ASSUME NEW q \in Queues, RequestAdopt(s, q)
          PROVE  Knows(s)'
      <3>1. pc'[s] = "save" /\ mem[s] = saved /\ saved' = saved
            /\ mem'[s] = SetPrinters(mem[s], {q}, Off)
        BY <1>0, <1>2, <1>4, <2>3
           DEF RequestAdopt, AloneInv, Alone, Knows, TypeOK, fileVars
      <3>2. job'[s] = [op |-> "adopt", target |-> {q}, endpoint |-> Off,
                       sync |-> FALSE]
        BY <1>0, <2>3 DEF RequestAdopt, Requests, TypeOK
      <3> QED BY <3>1, <3>2
              DEF Knows, Written, Applied, Reloaded, Changed, SetPrinters
    <2>4. ASSUME NEW q \in Queues, NEW e \in Exposures \cup {Off},
                 RequestRaw(s, q, e)
          PROVE  Knows(s)'
      <3>1. /\ pc'[s] = IF job'[s].sync THEN "sync" ELSE "save"
            /\ mem[s] = saved /\ saved' = saved
            /\ mem'[s] = SetPrinters(mem[s], {q}, e)
        BY <1>0, <1>2, <1>4, <2>4
           DEF RequestRaw, AloneInv, Alone, Knows, TypeOK, fileVars
      <3>2. job'[s].op = "raw" /\ job'[s].target = {q} /\ job'[s].endpoint = e
        BY <1>0, <2>4 DEF RequestRaw, Requests, TypeOK
      <3> QED BY <3>1, <3>2
              DEF Knows, Written, Applied, Reloaded, Changed, SetPrinters
    <2> QED BY <2>1, <2>2, <2>3, <2>4 DEF Requested
  <1>5. Alone(s)'
    BY <1>2, <1>4 DEF Alone
  <1> QED BY <1>3, <1>5

LEMMA AloneUnrequested ==
  ASSUME AloneInv, NEW s \in Sessions, Unrequested(s)
  PROVE  \A t \in Sessions : Alone(t)'
  <1> USE DEF Goto
  <1>0. TypeOK /\ (s \notin stale /\ pc[s] # "off" => Knows(s))
    BY DEF AloneInv, Alone
  <1>1. CASE Load(s)
    <2>1. Unmoved(s) /\ pc'[s] = "ready" /\ mem'[s] = saved
          /\ UNCHANGED <<fileVars, systemVars, stale>>
      BY <1>0, <1>1 DEF Load, TypeOK, Unmoved
    <2>2. Knows(s)'
      BY <2>1 DEF Knows, Written, Applied, Reloaded, Changed, fileVars
    <2> QED BY <2>1, <2>2, QuietOthers DEF Alone
  <1>2. CASE End(s)
    <2>1. Unmoved(s) /\ pc'[s] = "off"
      BY <1>0, <1>2, Ending DEF End
    <2>2. \A t \in Sessions \ {s} : Alone(t)'
      BY <1>2, <2>1, QuietOthers DEF End
    <2> QED BY <2>1, <2>2 DEF Alone
  <1>3. CASE Decline(s)
    <2>1. Unmoved(s) /\ pc'[s] = "again" /\ mem' = mem /\ pc[s] = "change"
          /\ UNCHANGED <<fileVars, systemVars, stale>>
      BY <1>0, <1>3 DEF Decline, TypeOK, Unmoved
    <2>2. s \notin stale => Knows(s)'
      BY <1>0, <2>1 DEF Knows, Written, Applied, Reloaded, Changed, fileVars
    <2> QED BY <2>1, <2>2, QuietOthers DEF Alone
  <1>4. CASE ChangeQueue(s)
    <2>1. /\ Unmoved(s) /\ Others(s) \subseteq stale'
          /\ pc'[s] = IF job[s].sync THEN "sync" ELSE "save"
          /\ mem'[s] = SetPrinters(mem[s], job[s].target, job[s].endpoint)
          /\ job' = job /\ saved' = saved /\ pc[s] = "change"
      BY <1>0, <1>4 DEF ChangeQueue, TypeOK, Unmoved, Touches, fileVars
    <2>2. /\ job[s].op = "add" => job[s].target \subseteq cups'
          /\ job[s].op = "remove" => job[s].target \cap cups' = {}
      BY <1>4 DEF ChangeQueue
    <2>3. job[s].target \subseteq Queues
      BY <1>0 DEF TypeOK, Jobs
    <2>4. ASSUME s \notin stale PROVE Knows(s)'
      <3>1. mem[s] = saved
        BY <1>0, <2>1, <2>4 DEF Knows
      <3>2. \A q \in Queues \ job[s].target : mem'[s][q] = saved'[q]
        BY <2>1, <3>1 DEF SetPrinters
      <3>3. \A q \in job[s].target : mem'[s][q] = job[s].endpoint
        BY <2>1, <2>3 DEF SetPrinters
      <3>4. pc'[s] \in {"sync", "save"} /\ (job[s].sync <=> pc'[s] = "sync")
        BY <2>1
      <3> QED BY <2>1, <2>2, <3>2, <3>3, <3>4
              DEF Knows, Written, Applied, Reloaded, Changed
    <2>5. s \notin stale' => s \notin stale
      BY <1>4 DEF ChangeQueue, Touches
    <2> QED BY <2>1, <2>4, <2>5, TouchOthers DEF Alone
  <1>5. CASE EnableFails(s)
    BY <1>0, <1>5, AloneEnds DEF EnableFails
  <1>6. CASE WriteRoutes(s)
    <2>1. /\ Unmoved(s) /\ Others(s) \subseteq stale' /\ stale \subseteq stale'
          /\ pc[s] = "sync" /\ pc'[s] = "addresses"
          /\ mem' = mem /\ job' = job /\ saved' = saved /\ cups' = cups
          /\ routes' = ConfiguredRoutes(mem[s])
      BY <1>0, <1>6 DEF WriteRoutes, TypeOK, Unmoved, Touches, systemVars
    <2>2. s \notin stale => Knows(s)'
      BY <1>0, <2>1 DEF Knows, Written, Applied, Reloaded, Changed
    <2> QED BY <2>1, <2>2, TouchOthers DEF Alone
  <1>7. CASE ApplyAddresses(s)
    <2>1. /\ Unmoved(s) /\ Others(s) \subseteq stale' /\ stale \subseteq stale'
          /\ pc[s] = "addresses" /\ pc'[s] = "gateway"
          /\ mem' = mem /\ job' = job /\ saved' = saved /\ cups' = cups
          /\ routes' = routes
          /\ applied' = VirtualAddresses(routes) /\ applied' \subseteq aliases'
      BY <1>0, <1>7
         DEF ApplyAddresses, TypeOK, Unmoved, Touches, fileVars, Unit!Succeeds
    <2>2. s \notin stale => Knows(s)'
      BY <1>0, <2>1 DEF Knows, Written, Applied, Reloaded, Changed
    <2> QED BY <2>1, <2>2, TouchOthers DEF Alone
  <1>8. CASE AddressesFail(s)
    BY <1>0, <1>8, AloneEnds DEF AddressesFail
  <1>9. CASE RestartGateway(s) \/ DisableGateway(s)
    <2>1. /\ Unmoved(s) /\ Others(s) \subseteq stale' /\ stale \subseteq stale'
          /\ pc[s] = "gateway" /\ pc'[s] = "save"
          /\ mem' = mem /\ job' = job /\ saved' = saved /\ cups' = cups
          /\ routes' = routes /\ applied' = applied /\ aliases' = aliases
      BY <1>0, <1>9
         DEF RestartGateway, DisableGateway, TypeOK, Unmoved, Touches, fileVars
    <2>2. \/ gateway' = routes
          \/ /\ ConfiguredRoutes(mem[s]) = NoRoutes
             /\ gateway' = NoRoutes \/ unstopped'
      BY <1>0, <1>9 DEF RestartGateway, DisableGateway, AloneInv, Served
    <2>3. s \notin stale => Knows(s)'
      BY <1>0, <2>1, <2>2 DEF Knows, Written, Applied, Reloaded, Changed
    <2> QED BY <2>1, <2>3, TouchOthers DEF Alone
  <1>10. CASE RestartFails(s)
    BY <1>0, <1>10, AloneEnds DEF RestartFails
  <1>11. CASE Save(s)
    <2>1. /\ Unmoved(s) /\ Others(s) \subseteq stale' /\ stale \subseteq stale'
          /\ pc[s] = "save" /\ pc'[s] = "done"
          /\ mem' = mem /\ job' = job /\ saved' = mem[s]
          /\ UNCHANGED <<routes, systemVars>>
      BY <1>0, <1>11 DEF Save, TypeOK, Unmoved, Touches
    <2>2. s \notin stale => Knows(s)'
      BY <1>0, <2>1 DEF Knows, Written, Applied, Reloaded, Changed, systemVars
    <2> QED BY <2>1, <2>2, TouchOthers DEF Alone
  <1> QED BY <1>1, <1>2, <1>3, <1>4, <1>5, <1>6, <1>7, <1>8, <1>9, <1>10, <1>11
          DEF Unrequested

LEMMA ServedStep ==
  ASSUME Served, [Next]_vars
  PROVE  Served'
  <1> USE DEF Served, fileVars, systemVars
  <1>1. ASSUME NEW s \in Sessions, Requested(s) PROVE Served'
    BY <1>1 DEF Requested, RequestAdd, RequestRaw, RequestRemove, RequestAdopt,
                Requests
  <1>2. ASSUME NEW s \in Sessions, Unrequested(s) PROVE Served'
    <2>1. CASE RestartGateway(s) \/ RestartFails(s) \/ DisableGateway(s)
      BY <2>1 DEF RestartGateway, RestartFails, DisableGateway
    <2>2. CASE ~(RestartGateway(s) \/ RestartFails(s) \/ DisableGateway(s))
      BY <1>2, <2>2
         DEF Unrequested, Load, End, Decline, ChangeQueue, EnableFails,
             WriteRoutes, ApplyAddresses, AddressesFail, Save
    <2> QED BY <2>1, <2>2
  <1> QED BY <1>1, <1>2 DEF Next, GatewayRestarts, vars

LEMMA AloneStep ==
  ASSUME AloneInv, [Next]_vars
  PROVE  AloneInv'
  <1>0. TypeOK /\ TypeOK' /\ Served'
    BY TypeStep, ServedStep DEF AloneInv
  <1>1. CASE UNCHANGED vars
    BY <1>0, <1>1 DEF AloneInv, Alone, Knows, Written, Applied, Reloaded, vars,
                      fileVars, systemVars, sessionVars
  <1>2. CASE GatewayRestarts
    BY <1>0, <1>2 DEF GatewayRestarts, AloneInv, Alone, Knows, Written, Applied,
                      Reloaded, fileVars, sessionVars
  <1>3. ASSUME NEW s \in Sessions, Requested(s) \/ Unrequested(s)
        PROVE  AloneInv'
    BY <1>0, <1>3, AloneRequested, AloneUnrequested DEF AloneInv
  <1> QED BY <1>1, <1>2, <1>3 DEF Next

LEMMA AloneInit == Init => AloneInv
  <1> SUFFICES ASSUME Init PROVE AloneInv
    OBVIOUS
  <1>1. \A s \in Sessions : pc[s] = "off"
    BY DEF Init
  <1> QED BY <1>1, TypeInit DEF AloneInv, Alone, Served, Init

\* A command that succeeds undisturbed leaves everything as its operator asked,
\* whatever earlier commands left behind, but for a gateway that an unchecked
\* `disable --now' has failed to stop.
THEOREM SuccessRepairs == Spec => []SuccessIsComplete
  <1>1. ASSUME AloneInv PROVE SuccessIsComplete
    <2> SUFFICES ASSUME NEW s \in Sessions, pc[s] = "done", s \notin stale
                 PROVE  /\ \A q \in job[s].target : saved[q] = job[s].endpoint
                        /\ job[s].op = "add" => job[s].target \subseteq cups
                        /\ job[s].op = "remove" => job[s].target \cap cups = {}
                        /\ job[s].sync =>
                             /\ routes = ConfiguredRoutes(saved)
                             /\ gateway = routes \/ (unstopped /\ routes = NoRoutes)
                             /\ applied = VirtualAddresses(routes)
                             /\ applied \subseteq aliases
      BY DEF SuccessIsComplete
    <2>1. Knows(s)
      BY <1>1 DEF AloneInv, Alone
    <2> QED BY <2>1 DEF Knows, Written, Applied, Reloaded, Changed
  <1> QED BY <1>1, AloneInit, AloneStep, PTL DEF Spec

\* Only a command's own target changes in state.yaml, unless commands overlap.
THEOREM NoOtherPrinterChanges == Spec => OnlyTargetsChange
  <1>1. ASSUME AloneInv, [Next]_vars
        PROVE  [\A q \in Queues : saved'[q] # saved[q] =>
                  \E s \in Sessions :
                    pc[s] = "save" /\ (s \in stale \/ q \in job[s].target)]_vars
    <2> SUFFICES ASSUME Next, NEW q \in Queues, saved'[q] # saved[q]
                 PROVE  \E s \in Sessions :
                          pc[s] = "save" /\ (s \in stale \/ q \in job[s].target)
      BY <1>1
    <2> USE DEF fileVars
    <2>a. ASSUME NEW s \in Sessions, Requested(s)
          PROVE  saved' = saved
      BY <2>a DEF Requested, RequestAdd, RequestRaw, RequestRemove, RequestAdopt,
                  Requests
    <2>b. ASSUME NEW s \in Sessions, Unrequested(s), ~Save(s)
          PROVE  saved' = saved
      BY <2>b DEF Unrequested, Load, End, Decline, ChangeQueue, EnableFails,
                  WriteRoutes, ApplyAddresses, AddressesFail, RestartGateway,
                  RestartFails, DisableGateway
    <2>1. PICK s \in Sessions : Save(s)
      BY <2>a, <2>b DEF Next, GatewayRestarts
    <2>2. pc[s] = "save" /\ saved'[q] = mem[s][q]
      BY <2>1 DEF Save
    <2>3. CASE s \notin stale
      <3>1. Knows(s)
        BY <1>1, <2>2, <2>3 DEF AloneInv, Alone
      <3> QED BY <2>2, <3>1 DEF Knows, Changed
    <2> QED BY <2>2, <2>3
  <1> QED BY <1>1, AloneInit, AloneStep, PTL DEF Spec, OnlyTargetsChange

\* A set of ports has a least one, as the natural numbers are well founded.
LEMMA MinIsMember ==
  ASSUME NEW S \in SUBSET Nat, S # {}
  PROVE  Min(S) \in S
  <1> DEFINE R == {ss \in Nat \X Nat : ss[1] < ss[2]}
  <1>1. IsWellFoundedOn(R, Nat)
    BY NatLessThanWellFounded DEF OpToRel
  <1>2. PICK x \in S : \A y \in S : ~ (<<y, x>> \in R)
    BY <1>1, WFMin
  <1>3. ASSUME NEW y \in S PROVE x =< y
    <2>1. x \in Nat /\ y \in Nat /\ ~ (<<y, x>> \in R)
      BY <1>2
    <2>2. y < x => <<y, x>> \in R
      BY <2>1
    <2> QED BY <2>1, <2>2
  <1> QED BY <1>3 DEF Min

\* expose-raw without --listen-port never chooses a port that its own conflict
\* check refuses, whatever State the session holds.
THEOREM AutomaticPortIsFree == Spec => []AutomaticPortFits
  <1>1. ASSUME NEW s \in Sessions, NEW q \in Queues, Ports \ UsedPorts(mem[s]) # {}
        PROVE  Fits(mem[s], q, Endpoint(NextAvailablePort(mem[s]), AnyAddress))
    <2> DEFINE e == Endpoint(NextAvailablePort(mem[s]), AnyAddress)
    <2>1. NextAvailablePort(mem[s]) \notin UsedPorts(mem[s])
      BY <1>1, MinIsMember, PortsAssumption DEF NextAvailablePort
    <2>2. e.port = NextAvailablePort(mem[s]) /\ e.address = AnyAddress
      BY DEF Endpoint
    <2>3. ASSUME NEW p \in Queues \ {q}, IsExposed(mem[s][p])
          PROVE  ~Collides(e, mem[s][p])
      <3>1. mem[s][p].port # e.port
        BY <2>1, <2>2, <2>3 DEF UsedPorts
      <3> QED BY <2>2, <3>1 DEF Collides
    <2> QED BY <2>2, <2>3 DEF Fits
  <1>2. AutomaticPortFits
    BY <1>1 DEF AutomaticPortFits
  <1> QED BY <1>2, PTL

-----------------------------------------------------------------------------
(* The marks.  A session reconciles the services if it asks for an endpoint *)
(* or has loaded the marks; the marks are what makes a command that takes an*)
(* endpoint away, or a printer, look at the gateway at all.                 *)

HasEndpoint(m) == \E q \in Queues : IsExposed(m[q])

MarksOf(s) ==
  /\ HasEndpoint(mem[s]) => services[s] \/ pc[s] = "sync"
  /\ pc[s] = "change" /\ IsExposed(job[s].endpoint) => job[s].sync

Marks ==
  /\ HasEndpoint(saved) => marked
  /\ \A s \in Sessions : MarksOf(s)

LEMMA MarksOfOne ==
  ASSUME Marks, NEW s \in Sessions, Unmoved(s),
         \A t \in Sessions \ {s} : services'[t] = services[t],
         UNCHANGED <<saved, marked>>, MarksOf(s)'
  PROVE  Marks'
  <1>1. ASSUME NEW t \in Sessions \ {s} PROVE MarksOf(t)'
    BY DEF Marks, MarksOf, Unmoved, HasEndpoint
  <1>2. HasEndpoint(saved') => marked'
    BY DEF Marks, MarksOf
  <1> QED BY <1>1, <1>2 DEF Marks, MarksOf, HasEndpoint

LEMMA NoEndpoints == ~HasEndpoint(NoPrinters)
  BY EndpointTypes DEF HasEndpoint, NoPrinters

LEMMA MarksEnds ==
  ASSUME TypeOK, Marks, NEW s \in Sessions, Ends(s), UNCHANGED <<saved, marked>>
  PROVE  Marks'
  <1>1. Unmoved(s) /\ \A t \in Sessions \ {s} : services'[t] = services[t]
    BY DEF Ends, Goto, Unmoved, TypeOK
  <1>2. pc'[s] = "off" /\ mem'[s] = NoPrinters
    BY DEF Ends, Goto, TypeOK
  <1>3. MarksOf(s)'
    BY <1>2, NoEndpoints DEF MarksOf, HasEndpoint
  <1> QED BY <1>1, <1>3, MarksOfOne

LEMMA MarksInit == Init => Marks
  BY NoEndpoints DEF Init, Marks, MarksOf, NoJob

\* What an endpoint that is set, or taken away, does to HasEndpoint.
LEMMA SetEndpoint ==
  ASSUME NEW m \in Printers, NEW T, NEW e, HasEndpoint(SetPrinters(m, T, e))
  PROVE  HasEndpoint(m) \/ IsExposed(e)
  BY DEF HasEndpoint, SetPrinters

LEMMA MarksStep ==
  ASSUME TypeOK, Marks, [Next]_vars
  PROVE  Marks'
  <1> USE DEF fileVars, systemVars, sessionVars, Goto
  <1>1. CASE UNCHANGED vars \/ GatewayRestarts
    BY <1>1 DEF vars, GatewayRestarts, Marks, MarksOf, HasEndpoint
  <1>2. ASSUME NEW s \in Sessions, Unrequested(s)
        PROVE  Marks'
    <2>1. CASE Load(s)
      <3>1. Unmoved(s) /\ (\A t \in Sessions \ {s} : services'[t] = services[t])
            /\ UNCHANGED <<saved, marked>>
        BY <2>1 DEF Load, Unmoved, TypeOK
      <3>2. pc'[s] = "ready" /\ mem'[s] = saved /\ services'[s] = marked
        BY <2>1 DEF Load, TypeOK
      <3>3. MarksOf(s)'
        BY <3>2 DEF MarksOf, Marks, HasEndpoint
      <3> QED BY <3>1, <3>3, MarksOfOne
    <2>2. CASE End(s) \/ EnableFails(s) \/ AddressesFail(s) \/ RestartFails(s)
      BY <2>2, MarksEnds DEF End, EnableFails, AddressesFail, RestartFails, Breaks
    <2>3. CASE Decline(s)
      <3>1. Unmoved(s) /\ services' = services /\ mem' = mem
            /\ pc[s] = "change" /\ pc'[s] = "again" /\ UNCHANGED <<saved, marked>>
        BY <2>3 DEF Decline, Unmoved, TypeOK
      <3>2. MarksOf(s)'
        BY <3>1 DEF MarksOf, Marks, HasEndpoint
      <3> QED BY <3>1, <3>2, MarksOfOne
    <2>4. CASE ChangeQueue(s)
      <3>1. /\ Unmoved(s) /\ services' = services /\ UNCHANGED <<saved, marked>>
            /\ pc[s] = "change" /\ pc'[s] = IF job[s].sync THEN "sync" ELSE "save"
            /\ mem'[s] = SetPrinters(mem[s], job[s].target, job[s].endpoint)
        BY <2>4 DEF ChangeQueue, Unmoved, TypeOK
      <3>2. ASSUME HasEndpoint(mem'[s]), ~job[s].sync PROVE services[s]
        <4>1. mem[s] \in Printers
          BY DEF TypeOK
        <4>2. HasEndpoint(mem[s]) \/ IsExposed(job[s].endpoint)
          BY <3>1, <3>2, <4>1, SetEndpoint
        <4> QED BY <3>1, <3>2, <4>2 DEF Marks, MarksOf
      <3>3. MarksOf(s)'
        BY <3>1, <3>2 DEF MarksOf, HasEndpoint
      <3> QED BY <3>1, <3>3, MarksOfOne
    <2>5. CASE WriteRoutes(s)
      <3>1. /\ Unmoved(s) /\ \A t \in Sessions \ {s} : services'[t] = services[t]
            /\ services'[s] = TRUE /\ pc'[s] = "addresses"
            /\ UNCHANGED <<saved, marked>>
        BY <2>5 DEF WriteRoutes, Unmoved, TypeOK
      <3>2. MarksOf(s)'
        BY <3>1 DEF MarksOf
      <3> QED BY <3>1, <3>2, MarksOfOne
    <2>6. CASE ApplyAddresses(s) \/ RestartGateway(s) \/ DisableGateway(s)
      <3>1. /\ Unmoved(s) /\ services' = services /\ mem' = mem
            /\ pc[s] \in {"addresses", "gateway"} /\ pc'[s] \in {"gateway", "save"}
            /\ UNCHANGED <<saved, marked>>
        BY <2>6 DEF ApplyAddresses, RestartGateway, DisableGateway, Unmoved, TypeOK
      <3>2. MarksOf(s)'
        BY <3>1 DEF MarksOf, Marks, HasEndpoint
      <3> QED BY <3>1, <3>2, MarksOfOne
    <2>7. CASE Save(s)
      <3>1. /\ Unmoved(s) /\ services' = services /\ mem' = mem
            /\ pc[s] = "save" /\ pc'[s] = "done" /\ job' = job
            /\ saved' = mem[s] /\ marked' = services[s]
        BY <2>7 DEF Save, Unmoved, TypeOK
      <3>2. HasEndpoint(saved') => marked'
        BY <3>1 DEF Marks, MarksOf
      <3>3. \A t \in Sessions : MarksOf(t)'
        BY <3>1 DEF Marks, MarksOf, HasEndpoint, Unmoved
      <3> QED BY <3>2, <3>3 DEF Marks, MarksOf, HasEndpoint
    <2> QED BY <1>2, <2>1, <2>2, <2>3, <2>4, <2>5, <2>6, <2>7 DEF Unrequested
  <1>3. ASSUME NEW s \in Sessions, NEW q \in Queues, NEW e \in Exposures \cup {Off},
               RequestAdd(s, q, e)
        PROVE  Marks'
    <2>1. /\ Unmoved(s) /\ services' = services /\ mem' = mem
          /\ pc[s] # "sync" /\ pc'[s] = "change" /\ UNCHANGED <<saved, marked>>
      BY <1>3 DEF RequestAdd, Requests, Unmoved, TypeOK
    <2>2. job'[s].endpoint = e /\ job'[s].sync = (IsExposed(e) \/ services[s])
      BY <1>3 DEF RequestAdd, Requests, TypeOK
    <2>3. MarksOf(s)'
      BY <2>1, <2>2 DEF MarksOf, Marks, HasEndpoint
    <2> QED BY <2>1, <2>3, MarksOfOne
  <1>4. ASSUME NEW s \in Sessions, NEW q \in Queues, NEW e \in Exposures \cup {Off},
               RequestRaw(s, q, e)
        PROVE  Marks'
    <2>1. /\ Unmoved(s) /\ services' = services /\ pc[s] = "ready"
          /\ pc'[s] = IF job'[s].sync THEN "sync" ELSE "save"
          /\ mem'[s] = SetPrinters(mem[s], {q}, e) /\ UNCHANGED <<saved, marked>>
      BY <1>4 DEF RequestRaw, Requests, Unmoved, TypeOK
    <2>2. job'[s].sync = (IsExposed(e) \/ services[s])
      BY <1>4 DEF RequestRaw, Requests, TypeOK
    <2>3. HasEndpoint(mem'[s]) => services[s] \/ IsExposed(e)
      <3>1. mem[s] \in Printers
        BY DEF TypeOK
      <3> QED BY <2>1, <3>1, SetEndpoint DEF Marks, MarksOf
    <2>4. MarksOf(s)'
      BY <2>1, <2>2, <2>3 DEF MarksOf, HasEndpoint
    <2> QED BY <2>1, <2>4, MarksOfOne
  <1>5. ASSUME NEW s \in Sessions, NEW q \in Queues, RequestRemove(s, q)
        PROVE  Marks'
    <2>1. /\ Unmoved(s) /\ services' = services /\ mem' = mem
          /\ pc[s] = "ready" /\ pc'[s] = "change" /\ UNCHANGED <<saved, marked>>
          /\ job'[s].endpoint = Unmanaged
      BY <1>5 DEF RequestRemove, Requests, Unmoved, TypeOK
    <2>2. MarksOf(s)'
      BY <2>1, EndpointTypes DEF MarksOf, Marks, HasEndpoint
    <2> QED BY <2>1, <2>2, MarksOfOne
  <1>6. ASSUME NEW s \in Sessions, NEW q \in Queues, RequestAdopt(s, q)
        PROVE  Marks'
    <2>1. /\ Unmoved(s) /\ services' = services /\ pc[s] = "ready" /\ pc'[s] = "save"
          /\ mem'[s] = SetPrinters(mem[s], {q}, Off) /\ UNCHANGED <<saved, marked>>
      BY <1>6 DEF RequestAdopt, Requests, Unmoved, TypeOK
    <2>2. HasEndpoint(mem'[s]) => services[s]
      <3>1. mem[s] \in Printers
        BY DEF TypeOK
      <3> QED BY <2>1, <3>1, SetEndpoint, EndpointTypes DEF Marks, MarksOf
    <2>3. MarksOf(s)'
      BY <2>1, <2>2 DEF MarksOf, HasEndpoint
    <2> QED BY <2>1, <2>3, MarksOfOne
  <1> QED BY <1>1, <1>2, <1>3, <1>4, <1>5, <1>6 DEF Next, Requested

\* Whatever sessions overlap, fail or are interrupted: while state.yaml has an
\* endpoint it has the marks too, so that no command takes the gateway for none
\* of its business as long as a listener is recorded.
THEOREM EndpointsAreMarked == Spec => [](HasEndpoint(saved) => marked)
  <1>1. Marks => (HasEndpoint(saved) => marked)
    BY DEF Marks, MarksOf
  <1> QED BY <1>1, TypeInit, TypeStep, MarksInit, MarksStep, PTL DEF Spec

\* A session is asked to do something to a queue whose endpoint it has loaded,
\* and leaves the services alone.
ForgetsServices(s, q) ==
  /\ job'[s] # job[s] /\ job'[s].target = {q}
  /\ IsExposed(mem[s][q]) /\ ~job'[s].sync

\* A request for a queue whose endpoint state.yaml had is carried out with the
\* services: an endpoint can stay open after unexpose-raw or remove-printer
\* (UnexposedIsOff) only if no command had ever saved it.
THEOREM RecordedEndpointsAreReconciled ==
  Spec => [][\A s \in Sessions, q \in Queues : ~ForgetsServices(s, q)]_vars
  <1>1. ASSUME TypeOK, Marks, [Next]_vars, vars' # vars,
               NEW s \in Sessions, NEW q \in Queues, ForgetsServices(s, q)
        PROVE  FALSE
    <2> USE DEF fileVars, systemVars, sessionVars, Goto
    <2>1. ASSUME NEW t \in Sessions, Unrequested(t) PROVE FALSE
      <3>1. job' = job \/ job' = [job EXCEPT ![t] = NoJob]
        BY <2>1 DEF Unrequested, Load, End, Decline, ChangeQueue, EnableFails,
                    WriteRoutes, ApplyAddresses, AddressesFail, RestartGateway,
                    RestartFails, DisableGateway, Save, Breaks, Ends
      <3>2. job'[s] # job[s] => job'[s] = NoJob
        BY <1>1, <3>1 DEF TypeOK
      <3> QED BY <1>1, <3>2 DEF ForgetsServices, NoJob
    <2>2. ASSUME NEW t \in Sessions, NEW p \in Queues,
                 NEW op, NEW e, NEW b, Requests(t, op, p, e, b)
          PROVE  t = s /\ p = q /\ job'[s].sync = b
      <3>1. job' = [job EXCEPT ![t] = [op |-> op, target |-> {p}, endpoint |-> e,
                                       sync |-> b]]
        BY <2>2 DEF Requests
      <3>2. t = s
        BY <1>1, <3>1 DEF TypeOK, ForgetsServices
      <3>3. job'[s] = [op |-> op, target |-> {p}, endpoint |-> e, sync |-> b]
        BY <1>1, <3>1, <3>2 DEF TypeOK
      <3> QED BY <1>1, <3>2, <3>3 DEF ForgetsServices
    <2>3. pc[s] # "sync" => services[s]
      BY <1>1 DEF Marks, MarksOf, HasEndpoint, ForgetsServices
    <2>4. ASSUME NEW t \in Sessions, NEW p \in Queues, NEW e \in Exposures \cup {Off},
                 RequestAdd(t, p, e)
          PROVE  FALSE
      <3>1. Requests(t, "add", p, e, IsExposed(e) \/ services[t]) /\ pc[t] # "sync"
        BY <2>4 DEF RequestAdd
      <3>2. t = s /\ job'[s].sync = (IsExposed(e) \/ services[t])
        BY <2>2, <3>1
      <3> QED BY <1>1, <2>3, <3>1, <3>2 DEF ForgetsServices
    <2>5. ASSUME NEW t \in Sessions, NEW p \in Queues, NEW e \in Exposures \cup {Off},
                 RequestRaw(t, p, e)
          PROVE  FALSE
      <3>1. Requests(t, "raw", p, e, IsExposed(e) \/ services[t]) /\ pc[t] # "sync"
        BY <2>5 DEF RequestRaw
      <3>2. t = s /\ job'[s].sync = (IsExposed(e) \/ services[t])
        BY <2>2, <3>1
      <3> QED BY <1>1, <2>3, <3>1, <3>2 DEF ForgetsServices
    <2>6. ASSUME NEW t \in Sessions, NEW p \in Queues, RequestRemove(t, p)
          PROVE  FALSE
      <3>1. Requests(t, "remove", p, Unmanaged, services[t]) /\ pc[t] # "sync"
        BY <2>6 DEF RequestRemove
      <3>2. t = s /\ job'[s].sync = services[t]
        BY <2>2, <3>1
      <3> QED BY <1>1, <2>3, <3>1, <3>2 DEF ForgetsServices
    <2>7. ASSUME NEW t \in Sessions, NEW p \in Queues, RequestAdopt(t, p)
          PROVE  FALSE
      <3>1. Requests(t, "adopt", p, Off, FALSE) /\ mem[t][p] = Unmanaged
        BY <2>7 DEF RequestAdopt
      <3>2. t = s /\ p = q
        BY <2>2, <3>1
      <3> QED BY <1>1, <3>1, <3>2, EndpointTypes DEF ForgetsServices
    <2>8. CASE GatewayRestarts
      BY <1>1, <2>8 DEF GatewayRestarts, ForgetsServices
    <2> QED BY <1>1, <2>1, <2>4, <2>5, <2>6, <2>7, <2>8 DEF Next, Requested
  <1>2. TypeOK /\ Marks /\ [Next]_vars
          => [\A s \in Sessions, q \in Queues : ~ForgetsServices(s, q)]_vars
    BY <1>1
  <1> QED BY <1>2, TypeInit, TypeStep, MarksInit, MarksStep, PTL DEF Spec
=============================================================================
