----------------------------- MODULE Installer ------------------------------
(***************************************************************************)
(* What airprint-server puts on its host and takes away again:             *)
(* installer.py, the vendor drivers (bixolon_driver.py, xprinter_driver.py)*)
(* and the two systemd units of raw_proxy.py.                              *)
(*                                                                         *)
(* An item is a file or a CUPS queue: <<what it belongs to, which part>>.  *)
(* state.yaml records ownership for a whole (raw_*_service_managed,        *)
(* rastertoescpos_managed, an entry of vendor_drivers or of printers) while*)
(* the parts are written and removed one after the other, and the record is*)
(* saved when a command is through.  A command may fail or be interrupted  *)
(* at every step, which undoes nothing.                                    *)
(*                                                                         *)
(* One command runs at a time: ManagedState has them overlap.  Packages,   *)
(* the configuration of CUPS and what reconciling the units and the Avahi  *)
(* files does are left out (ManagedState, AvahiReconcile): here they only  *)
(* are places where a command may end.  `install --dry-run' changes        *)
(* nothing and is left out; `uninstall --dry-run' is not.                  *)
(***************************************************************************)
EXTENDS Naturals

CONSTANTS
  Versions,  \* versions of the code; each has its own text of the units
  Drivers,   \* vendor drivers
  Queues     \* queue names

UnitParts   == {"gateway", "address"}
EscParts    == {"filter", "models"}
DriverParts == {"ppd", "filter"}

UnitItems      == {"unit"} \X UnitParts
EscItems       == {"escpos"} \X EscParts
DriverItems(d) == {d} \X DriverParts
Items == UnitItems \cup EscItems \cup (Drivers \X DriverParts) \cup (Queues \X {"queue"})
Wholes == {"unit", "escpos"} \cup Drivers \cup Queues

ASSUME NamesAssumption ==
  /\ Versions \cap {"none", "theirs", "ours"} = {}
  /\ Drivers \cap Queues = {}
  /\ {"unit", "escpos"} \cap (Drivers \cup Queues) = {}

\* What is at an item's place: nothing, what an administrator put there, or the
\* project's own, for a unit the text of a version.
Contents == {"none", "theirs", "ours"} \cup Versions

\* The ipp-usb service: running and enabled is "on"; "absent" is not installed.
UsbStates == {"absent", "off", "started", "enabled", "on"}
Active(u)  == u \in {"started", "on"}
Enabled(u) == u \in {"enabled", "on"}

Records == [owns : SUBSET Wholes, usb : UsbStates \cup {"unrecorded"}]
NoState == [owns |-> {}, usb |-> "unrecorded"]

VARIABLES
  runtime,  \* the version in the virtual environment, or "none"
  file,     \* per item, what is there
  usb,      \* the ipp-usb service
  saved,    \* state.yaml
  pc,       \* where the command is, "off" between commands
  mem,      \* its State object
  todo,     \* items it still has to write or remove
  goal,     \* wholes it is to record or to remove
  dry,      \* "yes" for uninstall --dry-run
  left,     \* history: own items that state.yaml was left without
  loose,    \* history: items that state.yaml was left with though not there
  usb0,     \* history: the ipp-usb service before any command
  spoiled   \* history: "yes" once the record of usb0 may be lost

hostVars    == <<runtime, file, usb>>
commandVars == <<pc, mem, todo, goal, dry>>
historyVars == <<left, loose, usb0, spoiled>>
vars == <<hostVars, saved, commandVars, historyVars>>

Ours(i) == file[i] \notin {"none", "theirs"}

\* Own items without a record, and records without the item.
Unrecorded(record) == {i \in Items : Ours(i) /\ i[1] \notin record.owns}
Dangling(record)   == {i \in Items : ~Ours(i) /\ i[1] \in record.owns}

-----------------------------------------------------------------------------
Init ==
  /\ runtime = "none" /\ saved = NoState
  /\ file = [i \in Items |-> "none"]
  /\ usb \in UsbStates
  /\ pc = "off" /\ mem = NoState /\ todo = {} /\ goal = {} /\ dry = "no"
  /\ left = {} /\ loose = {} /\ usb0 = usb /\ spoiled = "no"

\* install.sh, by hand or from an update: pip replaces the code.
Deploy(v) ==
  /\ pc = "off" /\ runtime' = v
  /\ UNCHANGED <<file, usb, saved, commandVars, historyVars>>

\* uninstall.sh removes the virtual environment, whatever uninstall did.
RemoveRuntime ==
  /\ pc = "off" /\ runtime # "none" /\ runtime' = "none"
  /\ UNCHANGED <<file, usb, saved, commandVars, historyVars>>

\* An administrator has a unit, a driver or a queue of that name.
AdminPlaces(i) ==
  /\ pc = "off" /\ file[i] = "none"
  /\ file' = [file EXCEPT ![i] = "theirs"]
  /\ UNCHANGED <<runtime, usb, saved, commandVars, historyVars>>

AdminRemoves(i) ==
  /\ pc = "off" /\ file[i] = "theirs"
  /\ file' = [file EXCEPT ![i] = "none"]
  /\ UNCHANGED <<runtime, usb, saved, commandVars, historyVars>>

Goto(label) == pc' = label

Idle ==
  /\ Goto("off") /\ mem' = NoState /\ todo' = {} /\ goal' = {} /\ dry' = "no"

\* What a command that fails or is interrupted leaves, the service being u.
Aborts(u) ==
  /\ Idle
  /\ left' = Unrecorded(saved) /\ loose' = Dangling(saved)
  /\ spoiled' = IF usb0 \in {u, saved.usb} THEN spoiled ELSE "yes"
  /\ UNCHANGED <<runtime, file, saved, usb0>>

End == pc # "off" /\ Aborts(usb) /\ UNCHANGED usb

\* A command loads the state and sets out.
Begin(label, record, items, wholes, try) ==
  /\ pc = "off" /\ runtime # "none"
  /\ Goto(label) /\ mem' = record /\ todo' = items /\ goal' = wholes /\ dry' = try
  /\ UNCHANGED <<hostVars, saved, historyVars>>

-----------------------------------------------------------------------------
(* install                                                                 *)

BeginInstall == Begin("units", saved, UnitItems, {}, "no")

\* install_service writes the gateway's unit first.
NextUnit(i) == i \in todo /\ (i[2] = "gateway" \/ <<"unit", "gateway">> \notin todo)

\* _managed_unit refuses to replace what is not recorded and reads otherwise.
Refused(i) == file[i] \notin {"none", runtime} /\ "unit" \notin mem.owns

\* The marks are set in memory when both units are written.
WriteUnit(i) ==
  /\ pc = "units" /\ NextUnit(i) /\ ~Refused(i)
  /\ file' = [file EXCEPT ![i] = runtime]
  /\ todo' = todo \ {i}
  /\ IF todo' = {}
     THEN mem' = [mem EXCEPT !.owns = @ \cup {"unit"}] /\ Goto("escpos")
     ELSE UNCHANGED <<mem, pc>>
  /\ UNCHANGED <<runtime, usb, saved, goal, dry, historyVars>>

EscPresent == {i \in EscItems : file[i] # "none"}

\* --without-escpos, or rastertoescpos is there.
SkipEscpos ==
  /\ pc = "escpos" /\ Goto("save")
  /\ UNCHANGED <<hostVars, saved, mem, todo, goal, dry, historyVars>>

\* Mutant: only both parts together count as independently present.
BuildEscpos_Both ==
  /\ pc = "escpos" /\ EscPresent # EscItems
  /\ todo' = EscItems
  /\ goal' = {"escpos"}
  /\ Goto("build")
  /\ UNCHANGED <<hostVars, saved, mem, dry, historyVars>>

\* It is the project's own only if no part of it was there before.
BuildEscpos ==
  /\ pc = "escpos" /\ EscPresent # EscItems
  /\ todo' = EscItems
  /\ goal' = IF EscPresent = {} THEN {"escpos"} ELSE {}
  /\ Goto("build")
  /\ UNCHANGED <<hostVars, saved, mem, dry, historyVars>>

\* make install, part by part; what was there before stays an administrator's,
\* as uninstall will treat it.
BuildPart(i) ==
  /\ pc = "build" /\ i \in todo
  /\ file' = IF file[i] = "theirs" THEN file ELSE [file EXCEPT ![i] = "ours"]
  /\ todo' = todo \ {i}
  /\ UNCHANGED <<runtime, usb, saved, pc, mem, goal, dry, historyVars>>

\* A part built beside what was there is nobody's: no record will name it.
Built ==
  /\ pc = "build" /\ todo = {}
  /\ mem' = [mem EXCEPT !.owns = @ \cup goal]
  /\ left' = IF goal = {} THEN left \cup (EscItems \cap Unrecorded(saved)) ELSE left
  /\ Goto("save")
  /\ UNCHANGED <<hostVars, saved, todo, goal, dry, loose, usb0, spoiled>>

-----------------------------------------------------------------------------
(* install-bixolon-driver, install-xprinter-driver                          *)

BeginDriver(d) == Begin("driver", saved, DriverItems(d), {d}, "no")

\* A staged part replaces whatever is at its place.
ReplacePart(i) ==
  /\ pc = "driver" /\ i \in todo
  /\ file' = [file EXCEPT ![i] = "ours"]
  /\ todo' = todo \ {i}
  /\ UNCHANGED <<runtime, usb, saved, pc, mem, goal, dry, historyVars>>

\* Mutant: a driver that is installed again loses its entry.
ReloadCups_Forgets ==
  /\ pc = "driver" /\ todo = {}
  /\ mem' = [mem EXCEPT !.owns = @ \ goal]
  /\ Goto("save")
  /\ UNCHANGED <<hostVars, saved, todo, goal, dry, historyVars>>

\* CUPS is reloaded and the driver entered in vendor_drivers.
ReloadCups ==
  /\ pc = "driver" /\ todo = {}
  /\ mem' = [mem EXCEPT !.owns = @ \cup goal]
  /\ Goto("save")
  /\ UNCHANGED <<hostVars, saved, todo, goal, dry, historyVars>>

-----------------------------------------------------------------------------
(* add-printer, as far as uninstall is concerned, with --disable-ipp-usb,   *)
(* and adopt-printer                                                       *)

\* Without --adopt, an existing queue has to be the project's.
BeginAdd(q) ==
  /\ q \in saved.owns \/ file[<<q, "queue">>] = "none"
  /\ Begin("queue", saved, {<<q, "queue">>}, {q}, "no")

CreateQueue ==
  /\ pc = "queue"
  /\ file' = [i \in Items |-> IF i \in todo THEN "ours" ELSE file[i]]
  /\ mem' = [mem EXCEPT !.owns = @ \cup goal]
  /\ todo' = {}
  /\ Goto("save")
  /\ UNCHANGED <<runtime, usb, saved, goal, dry, historyVars>>

\* adopt-printer enters a queue that is there.  From then on it is the project's,
\* to change and to remove, as the operator has asked.
AdoptQueue(q) ==
  /\ pc = "off" /\ runtime # "none"
  /\ q \notin saved.owns /\ file[<<q, "queue">>] # "none"
  /\ saved' = [saved EXCEPT !.owns = @ \cup {q}]
  /\ file' = [file EXCEPT ![<<q, "queue">>] = "ours"]
  /\ left' = left \ {<<q, "queue">>}
  /\ UNCHANGED <<runtime, usb, commandVars, loose, usb0, spoiled>>

\* disable_ipp_usb records what it finds, over what was recorded before.
BeginDisable ==
  /\ usb # "absent"
  /\ Begin("disable", [saved EXCEPT !.usb = usb], {}, {}, "no")

\* Mutant: the service is masked.
DisableUsb_Masks ==
  /\ pc = "disable"
  /\ usb' = "masked"
  /\ spoiled' = IF saved.usb = "unrecorded" THEN spoiled ELSE "yes"
  /\ Goto("save")
  /\ UNCHANGED <<runtime, file, saved, mem, todo, goal, dry, left, loose, usb0>>

DisableUsb ==
  /\ pc = "disable"
  /\ usb' = "off"
  /\ spoiled' = IF saved.usb = "unrecorded" THEN spoiled ELSE "yes"
  /\ Goto("save")
  /\ UNCHANGED <<runtime, file, saved, mem, todo, goal, dry, left, loose, usb0>>

\* systemctl disables the service and cannot stop it.
DisableFails ==
  /\ pc = "disable" /\ Active(usb)
  /\ usb' = "started"
  /\ Aborts("started")

\* install, a driver command or add-printer saves its State.
Save ==
  /\ pc = "save"
  /\ saved' = mem
  /\ Idle
  /\ left' = left \cap Unrecorded(mem) /\ loose' = loose \cap Dangling(mem)
  /\ UNCHANGED <<hostVars, usb0, spoiled>>

-----------------------------------------------------------------------------
(* uninstall                                                               *)

\* The order in which uninstall removes.
Phase(w) == CASE w = "unit" -> 1 [] w \in Queues -> 2 [] w = "escpos" -> 3 [] OTHER -> 4

\* What the options and the answers may select: the units always, all queues or
\* none, rastertoescpos and each driver on its own.
Selections(owned) ==
  {W \in SUBSET owned : /\ "unit" \in owned => "unit" \in W
                        /\ W \cap Queues \in {{}, owned \cap Queues}}

\* Mutant: files are removed in a dry run as in any other.
BeginUninstall_NotDry(W, try) ==
  /\ W \in Selections(saved.owns)
  /\ Begin("remove", saved, {i \in Items : i[1] \in W}, W, try)

\* Mutant: the units are disabled and their files left.
BeginUninstall_LeavesUnits(W, try) ==
  /\ W \in Selections(saved.owns)
  /\ Begin("remove", saved,
           {i \in Items : i[1] \in W \ {"unit"} /\ (try = "no" \/ i[1] \in Drivers)},
           W, try)

\* A dry run removes nothing but the drivers' files.
BeginUninstall(W, try) ==
  /\ W \in Selections(saved.owns)
  /\ Begin("remove", saved,
           {i \in Items : i[1] \in W /\ (try = "no" \/ i[1] \in Drivers)}, W, try)

RemoveItem(i) ==
  /\ pc = "remove" /\ i \in todo
  /\ \A j \in todo : Phase(i[1]) <= Phase(j[1])
  /\ file' = [file EXCEPT ![i] = "none"]
  /\ todo' = todo \ {i}
  /\ loose' = IF dry = "yes" THEN loose \cup {i} ELSE loose
  /\ UNCHANGED <<runtime, usb, saved, pc, mem, goal, dry, left, usb0, spoiled>>

\* Mutant: what was removed stays recorded.
Removed_StillRecorded ==
  /\ pc = "remove" /\ todo = {}
  /\ Goto("restore")
  /\ UNCHANGED <<hostVars, saved, mem, todo, goal, dry, historyVars>>

Removed ==
  /\ pc = "remove" /\ todo = {}
  /\ mem' = [mem EXCEPT !.owns = @ \ goal]
  /\ Goto("restore")
  /\ UNCHANGED <<hostVars, saved, todo, goal, dry, historyVars>>

UsbOf(active, enabled) ==
  CASE active /\ enabled -> "on" [] active /\ ~enabled -> "started"
    [] ~active /\ enabled -> "enabled" [] OTHER -> "off"

\* Mutant: a service that was only running is not started again.
RestoreUsb_EnabledOnly ==
  /\ pc = "restore"
  /\ usb' = IF dry = "yes" \/ ~Enabled(mem.usb) THEN usb
            ELSE UsbOf(Active(usb) \/ Active(mem.usb), TRUE)
  /\ mem' = [mem EXCEPT !.usb = "unrecorded"]
  /\ Goto("finish")
  /\ UNCHANGED <<runtime, file, saved, todo, goal, dry, historyVars>>

\* restore_ipp_usb enables and starts, and never disables or stops.
RestoreUsb ==
  /\ pc = "restore"
  /\ usb' = IF dry = "yes" \/ mem.usb = "unrecorded" THEN usb
            ELSE UsbOf(Active(usb) \/ Active(mem.usb), Enabled(usb) \/ Enabled(mem.usb))
  /\ mem' = [mem EXCEPT !.usb = "unrecorded"]
  /\ Goto("finish")
  /\ UNCHANGED <<runtime, file, saved, todo, goal, dry, historyVars>>

\* The service is enabled and cannot be started.
RestoreFails ==
  /\ pc = "restore" /\ dry = "no" /\ mem.usb = "on"
  /\ usb' = UsbOf(Active(usb), TRUE)
  /\ Aborts(usb')

\* Items that are kept while the state directory is removed have no record left.
Kept == {i \in Items : Ours(i) /\ i[1] \in mem.owns}

\* The state directory is removed on request, or the record saved.
Finish(record) ==
  /\ pc = "finish"
  /\ record \in {mem, NoState}
  /\ saved' = IF dry = "yes" THEN saved ELSE record
  /\ Idle
  /\ left' = (left \cup Kept) \cap Unrecorded(saved')
  /\ loose' = loose \cap Dangling(saved')
  /\ UNCHANGED <<hostVars, usb0, spoiled>>

-----------------------------------------------------------------------------
Admin == \E i \in Items : AdminPlaces(i) \/ AdminRemoves(i)

Install == BeginInstall \/ (\E i \in Items : WriteUnit(i) \/ BuildPart(i))
             \/ SkipEscpos \/ BuildEscpos \/ Built

Devices ==
  \/ \E d \in Drivers : BeginDriver(d)
  \/ \E i \in Items : ReplacePart(i)
  \/ ReloadCups
  \/ \E q \in Queues : BeginAdd(q) \/ AdoptQueue(q)
  \/ CreateQueue \/ BeginDisable \/ DisableUsb

Uninstall ==
  \/ \E W \in SUBSET Wholes, try \in {"yes", "no"} : BeginUninstall(W, try)
  \/ \E i \in Items : RemoveItem(i)
  \/ Removed \/ RestoreUsb \/ Finish(mem) \/ Finish(NoState)

Fails == End \/ DisableFails \/ RestoreFails

Works == \/ \E v \in Versions : Deploy(v)
         \/ RemoveRuntime \/ Admin \/ Install \/ Devices \/ Uninstall \/ Save

Next == Works \/ Fails

Spec == Init /\ [][Next]_vars

-----------------------------------------------------------------------------
TypeOK ==
  /\ runtime \in Versions \cup {"none"}
  /\ file \in [Items -> Contents]
  /\ usb \in UsbStates /\ usb0 \in UsbStates
  /\ saved \in Records /\ mem \in Records
  /\ pc \in {"off", "units", "escpos", "build", "driver", "queue", "disable", "save",
             "remove", "restore", "finish"}
  /\ todo \subseteq Items /\ goal \subseteq Wholes
  /\ dry \in {"yes", "no"} /\ spoiled \in {"yes", "no"}
  /\ left \subseteq Items /\ loose \subseteq Items

\* Nothing of the project's own stays on the host without a record that lets
\* uninstall find it, other than what an interrupted command left, a part built
\* beside an independent rastertoescpos, and what the operator kept while having
\* the record removed.
NothingForgotten == pc = "off" => Unrecorded(saved) \subseteq left

\* What state.yaml records is there, each part of it, other than what an
\* interrupted command or a dry run took away.
RecordIsTrue == pc = "off" => Dangling(saved) \subseteq loose

\* install refuses a unit only because it is an administrator's, or one that an
\* interrupted install of another version left without a record.
RefusalHasCause ==
  pc = "units" => \A i \in UnitItems : NextUnit(i) /\ Refused(i) =>
    file[i] = "theirs" \/ i \in left

\* No unit is written over, and no uninstall removes, what an administrator has
\* put there and not had adopted, unless the record was out of date already.
ForeignFilesStay ==
  [][\A i \in Items : file[i] = "theirs" /\ pc \in {"units", "remove"} =>
       file'[i] = "theirs" \/ i \in loose]_vars

\* The first state of ipp-usb is there, or recorded for uninstall to restore,
\* unless a command was interrupted before it saved or disabled it twice.
UsbRestorable ==
  spoiled = "no" => usb0 \in {usb, saved.usb}  \/ (pc = "save" /\ mem.usb = usb0)

\* uninstall --dry-run changes no record, service or queue, and no file but the
\* ones of recorded drivers.
DryRunTouchesDriversOnly ==
  [][dry = "yes" =>
       /\ UNCHANGED <<usb, saved>>
       /\ \A i \in Items : file'[i] # file[i] => i[1] \in saved.owns \cap Drivers]_vars

\* README.md:263: the previous state of ipp-usb is restored by uninstall.
UsbRestored == pc = "finish" /\ dry = "no" => usb = usb0

=============================================================================
