-------------------------- MODULE InstallerProofs ---------------------------
(***************************************************************************)
(* Proofs about Installer, for any number of drivers, queues and versions. *)
(*                                                                         *)
(* The argument follows one command through its steps.  What it has written*)
(* and not yet entered in its State (Pending) is what the record may miss; *)
(* what it has removed and not yet struck out is what the record may list  *)
(* in vain; and when it ends, by its last step or by being cut off, the    *)
(* difference is either nothing or known (Tracked, Truthful).              *)
(***************************************************************************)
EXTENDS Installer, TLAPS

\* The memory of the command that runs.
MemHolds ==
  /\ pc = "off" => dry = "no"
  /\ pc # "off" => runtime \in Versions
  /\ dry = "yes" => pc \in {"remove", "restore", "finish"}
  /\ pc \in {"units", "driver", "queue", "disable", "remove"} => mem.owns = saved.owns
  /\ pc \in {"escpos", "build", "save"} => saved.owns \subseteq mem.owns
  /\ mem.usb # "absent" /\ saved.usb # "absent"

\* What it is to write or to remove belongs to the wholes it has chosen.
TodoFits ==
  /\ pc = "units" => \A i \in todo : i[1] = "unit"
  /\ pc = "build" => goal \subseteq {"escpos"} /\ \A i \in todo : i[1] = "escpos"
  /\ pc = "queue" => todo = {i \in Items : i[1] \in goal}
  /\ pc \in {"driver", "remove"} => \A i \in todo : i[1] \in goal
  /\ pc \in {"remove", "restore", "finish"} => goal \subseteq saved.owns
  /\ pc = "remove" /\ dry = "yes" => \A i \in todo : i[1] \in Drivers

\* What is done of it.
DoneIsThere ==
  /\ pc = "units" => \A i \in UnitItems \ todo : Ours(i)
  /\ pc = "build" /\ goal # {} =>
       \A i \in EscItems : file[i] # "theirs" /\ (i \notin todo => Ours(i))
  /\ pc = "driver" => \A i \in Items : i[1] \in goal /\ i \notin todo => Ours(i)
  /\ pc = "remove" /\ dry = "no" =>
       \A i \in Items : i[1] \in goal /\ i \notin todo => ~Ours(i)

\* Own items a running command has not entered in its State.
Pending ==
  {i \in Items : \/ pc = "units" /\ i[1] = "unit" /\ i \notin todo
                 \/ pc = "build" /\ i[1] = "escpos"
                 \/ pc = "driver" /\ i[1] \in goal}

Tracked ==
  /\ pc = "off" \/ dry = "yes" => Unrecorded(saved) \subseteq left
  /\ pc # "off" /\ dry = "no" => Unrecorded(mem) \subseteq left \cup Pending

\* Items a running uninstall has removed and not yet struck out of its State.
Gone == {i \in Items : pc = "remove" /\ i[1] \in goal /\ i \notin todo}

Truthful ==
  /\ pc = "off" \/ dry = "yes" => Dangling(saved) \subseteq loose
  /\ pc # "off" /\ dry = "no" => Dangling(mem) \subseteq loose \cup Gone

\* The ipp-usb service u offers no more than v.
Within(u, v) == (Active(u) => Active(v)) /\ (Enabled(u) => Enabled(v))

UsbKnown ==
  spoiled = "no" =>
    /\ saved.usb = "unrecorded" =>
         usb = usb0 \/ (pc = "save" /\ mem.usb = usb0 /\ Within(usb, usb0))
    /\ saved.usb # "unrecorded" => saved.usb = usb0 /\ Within(usb, usb0)
    /\ pc = "disable" => mem.usb = usb
    /\ pc \in {"units", "escpos", "build", "driver", "queue", "remove", "restore"} =>
         mem.usb = saved.usb
    /\ pc = "save" => mem.usb \in {saved.usb, usb0}
    /\ pc = "finish" => mem.usb = "unrecorded" /\ (dry = "no" => usb = usb0)

-----------------------------------------------------------------------------
(* The items of a whole.                                                   *)

LEMMA ItemsOfWholes ==
  /\ \A i \in Items : i[1] \in Wholes
  /\ UnitItems = {i \in Items : i[1] = "unit"}
  /\ EscItems = {i \in Items : i[1] = "escpos"}
  /\ \A d \in Drivers : DriverItems(d) = {i \in Items : i[1] = d}
  /\ \A q \in Queues : {<<q, "queue">>} = {i \in Items : i[1] = q}
<1> USE NamesAssumption DEF Items, Wholes, UnitItems, EscItems, DriverItems, UnitParts,
        EscParts, DriverParts
<1>1. \A i \in Items : i[1] \in Wholes
  OBVIOUS
<1>2. UnitItems = {i \in Items : i[1] = "unit"}
  OBVIOUS
<1>3. EscItems = {i \in Items : i[1] = "escpos"}
  OBVIOUS
<1>4. \A d \in Drivers : DriverItems(d) = {i \in Items : i[1] = d}
  OBVIOUS
<1>5. \A q \in Queues : {<<q, "queue">>} = {i \in Items : i[1] = q}
  OBVIOUS
<1> QED
  BY <1>1, <1>2, <1>3, <1>4, <1>5

LEMMA WholesNamed ==
  "unit" \in Wholes /\ "escpos" \in Wholes /\ Drivers \subseteq Wholes /\ Queues \subseteq Wholes
  BY DEF Wholes

LEMMA ItemSets ==
  /\ UnitItems \subseteq Items /\ EscItems \subseteq Items
  /\ \A d \in Drivers : DriverItems(d) \subseteq Items
  /\ \A q \in Queues : <<q, "queue">> \in Items
  BY ItemsOfWholes

-----------------------------------------------------------------------------
(* Types.                                                                  *)

LEMMA InitTypeOK == Init => TypeOK
  BY DEF Init, TypeOK, NoState, Records, Contents

LEMMA StepTracked == TypeOK /\ MemHolds /\ TodoFits /\ DoneIsThere /\ Tracked /\ [Next]_vars => Tracked'
<1> SUFFICES ASSUME TypeOK, MemHolds, TodoFits, DoneIsThere, Tracked, [Next]_vars PROVE Tracked'
  OBVIOUS
<1>1. ASSUME NEW v \in Versions, Deploy(v) PROVE Tracked'
  BY <1>1, ItemsOfWholes, NamesAssumption
     DEF TypeOK, MemHolds, TodoFits, DoneIsThere, Tracked, Pending, Unrecorded,
     Ours, Records, NoState, Deploy, hostVars, commandVars, historyVars
<1>2. CASE RemoveRuntime
  BY <1>2, ItemsOfWholes, NamesAssumption
     DEF TypeOK, MemHolds, TodoFits, DoneIsThere, Tracked, Pending, Unrecorded,
     Ours, Records, NoState, RemoveRuntime, hostVars, commandVars, historyVars
<1>3. ASSUME NEW i \in Items, AdminPlaces(i) PROVE Tracked'
  BY <1>3, ItemsOfWholes, NamesAssumption
     DEF TypeOK, MemHolds, TodoFits, DoneIsThere, Tracked, Pending, Unrecorded,
     Ours, Records, NoState, AdminPlaces, hostVars, commandVars, historyVars
<1>4. ASSUME NEW i \in Items, AdminRemoves(i) PROVE Tracked'
  BY <1>4, ItemsOfWholes, NamesAssumption
     DEF TypeOK, MemHolds, TodoFits, DoneIsThere, Tracked, Pending, Unrecorded,
     Ours, Records, NoState, AdminRemoves, hostVars, commandVars, historyVars
<1>5. CASE BeginInstall
  BY <1>5, ItemsOfWholes, NamesAssumption
     DEF TypeOK, MemHolds, TodoFits, DoneIsThere, Tracked, Pending, Unrecorded,
     Ours, Records, NoState, BeginInstall, Begin, Goto, hostVars, commandVars,
     historyVars
<1>6. ASSUME NEW i \in Items, WriteUnit(i) PROVE Tracked'
  <2>1. pc = "units" /\ i \in todo /\ i[1] = "unit" /\ dry = "no"
    BY <1>6 DEF WriteUnit, NextUnit, MemHolds, TodoFits, TypeOK
  <2>2. file' = [file EXCEPT ![i] = runtime] /\ todo' = todo \ {i}
        /\ UNCHANGED <<left, dry>>
    BY <1>6 DEF WriteUnit, historyVars
  <2>3. \A j \in Items : j # i => (Ours(j))' = Ours(j)
    BY <2>2 DEF Ours, TypeOK
  <2>4. Unrecorded(mem) \subseteq left \cup Pending
    BY <2>1 DEF Tracked
  <2>5. CASE todo' = {}
    <3>1. mem'.owns = mem.owns \cup {"unit"} /\ pc' = "escpos"
      BY <1>6, <2>5 DEF WriteUnit, Goto, TypeOK, Records
    <3> QED
      BY <2>1, <2>2, <2>3, <2>4, <3>1 DEF Tracked, Pending, Unrecorded
  <2>6. CASE todo' # {}
    <3>1. mem' = mem /\ pc' = "units"
      BY <1>6, <2>1, <2>6 DEF WriteUnit
    <3> QED
      BY <2>1, <2>2, <2>3, <2>4, <3>1 DEF Tracked, Pending, Unrecorded
  <2> QED
    BY <2>5, <2>6
<1>7. ASSUME NEW i \in Items, BuildPart(i) PROVE Tracked'
  BY <1>7, ItemsOfWholes, NamesAssumption
     DEF TypeOK, MemHolds, TodoFits, DoneIsThere, Tracked, Pending, Unrecorded,
     Ours, Records, NoState, BuildPart, hostVars, commandVars, historyVars
<1>8. CASE SkipEscpos
  BY <1>8, ItemsOfWholes, NamesAssumption
     DEF TypeOK, MemHolds, TodoFits, DoneIsThere, Tracked, Pending, Unrecorded,
     Ours, Records, NoState, SkipEscpos, Goto, hostVars, commandVars, historyVars
<1>9. CASE BuildEscpos
  BY <1>9, ItemsOfWholes, NamesAssumption
     DEF TypeOK, MemHolds, TodoFits, DoneIsThere, Tracked, Pending, Unrecorded,
     Ours, Records, NoState, BuildEscpos, Goto, EscPresent, hostVars, commandVars,
     historyVars
<1>10. CASE Built
  BY <1>10, ItemsOfWholes, NamesAssumption
     DEF TypeOK, MemHolds, TodoFits, DoneIsThere, Tracked, Pending, Unrecorded,
     Ours, Records, NoState, Built, Goto, hostVars, commandVars, historyVars
<1>11. ASSUME NEW d \in Drivers, BeginDriver(d) PROVE Tracked'
  BY <1>11, ItemsOfWholes, NamesAssumption
     DEF TypeOK, MemHolds, TodoFits, DoneIsThere, Tracked, Pending, Unrecorded,
     Ours, Records, NoState, BeginDriver, Begin, Goto, hostVars, commandVars,
     historyVars
<1>12. ASSUME NEW i \in Items, ReplacePart(i) PROVE Tracked'
  BY <1>12, ItemsOfWholes, NamesAssumption
     DEF TypeOK, MemHolds, TodoFits, DoneIsThere, Tracked, Pending, Unrecorded,
     Ours, Records, NoState, ReplacePart, hostVars, commandVars, historyVars
<1>13. CASE ReloadCups
  BY <1>13, ItemsOfWholes, NamesAssumption
     DEF TypeOK, MemHolds, TodoFits, DoneIsThere, Tracked, Pending, Unrecorded,
     Ours, Records, NoState, ReloadCups, Goto, hostVars, commandVars, historyVars
<1>14. ASSUME NEW q \in Queues, BeginAdd(q) PROVE Tracked'
  BY <1>14, ItemsOfWholes, NamesAssumption
     DEF TypeOK, MemHolds, TodoFits, DoneIsThere, Tracked, Pending, Unrecorded,
     Ours, Records, NoState, BeginAdd, Begin, Goto, hostVars, commandVars,
     historyVars
<1>15. CASE CreateQueue
  BY <1>15, ItemsOfWholes, NamesAssumption
     DEF TypeOK, MemHolds, TodoFits, DoneIsThere, Tracked, Pending, Unrecorded,
     Ours, Records, NoState, CreateQueue, Goto, hostVars, commandVars, historyVars
<1>15a. ASSUME NEW q \in Queues, AdoptQueue(q) PROVE Tracked'
  BY <1>15a, ItemsOfWholes, NamesAssumption
     DEF TypeOK, MemHolds, TodoFits, DoneIsThere, Tracked, Pending, Unrecorded,
     Ours, Records, NoState, AdoptQueue, hostVars, commandVars, historyVars
<1>16. CASE BeginDisable
  BY <1>16, ItemsOfWholes, NamesAssumption
     DEF TypeOK, MemHolds, TodoFits, DoneIsThere, Tracked, Pending, Unrecorded,
     Ours, Records, NoState, BeginDisable, Begin, Goto, hostVars, commandVars,
     historyVars
<1>17. CASE DisableUsb
  BY <1>17, ItemsOfWholes, NamesAssumption
     DEF TypeOK, MemHolds, TodoFits, DoneIsThere, Tracked, Pending, Unrecorded,
     Ours, Records, NoState, DisableUsb, Goto, hostVars, commandVars, historyVars
<1>18. ASSUME NEW W \in SUBSET Wholes, NEW try \in {"yes", "no"}, BeginUninstall(W, try) PROVE Tracked'
  BY <1>18, ItemsOfWholes, NamesAssumption
     DEF TypeOK, MemHolds, TodoFits, DoneIsThere, Tracked, Pending, Unrecorded,
     Ours, Records, NoState, BeginUninstall, Begin, Goto, Selections, hostVars,
     commandVars, historyVars
<1>19. ASSUME NEW i \in Items, RemoveItem(i) PROVE Tracked'
  BY <1>19, ItemsOfWholes, NamesAssumption
     DEF TypeOK, MemHolds, TodoFits, DoneIsThere, Tracked, Pending, Unrecorded,
     Ours, Records, NoState, RemoveItem, hostVars, commandVars, historyVars
<1>20. CASE Removed
  BY <1>20, ItemsOfWholes, NamesAssumption
     DEF TypeOK, MemHolds, TodoFits, DoneIsThere, Tracked, Pending, Unrecorded,
     Ours, Records, NoState, Removed, Goto, hostVars, commandVars, historyVars
<1>21. CASE RestoreUsb
  BY <1>21, ItemsOfWholes, NamesAssumption
     DEF TypeOK, MemHolds, TodoFits, DoneIsThere, Tracked, Pending, Unrecorded,
     Ours, Records, NoState, RestoreUsb, Goto, hostVars, commandVars, historyVars
<1>22. ASSUME NEW record \in {mem, NoState}, Finish(record) PROVE Tracked'
  BY <1>22, ItemsOfWholes, NamesAssumption
     DEF TypeOK, MemHolds, TodoFits, DoneIsThere, Tracked, Pending, Unrecorded,
     Ours, Records, NoState, Finish, Idle, Goto, Kept, hostVars, commandVars,
     historyVars
<1>23. CASE Save
  BY <1>23, ItemsOfWholes, NamesAssumption
     DEF TypeOK, MemHolds, TodoFits, DoneIsThere, Tracked, Pending, Unrecorded,
     Ours, Records, NoState, Save, Idle, Goto, hostVars, commandVars, historyVars
<1>24. CASE End
  BY <1>24, ItemsOfWholes, NamesAssumption
     DEF TypeOK, MemHolds, TodoFits, DoneIsThere, Tracked, Pending, Unrecorded,
     Ours, Records, NoState, End, Aborts, Idle, Goto, hostVars, commandVars,
     historyVars
<1>25. CASE DisableFails
  BY <1>25, ItemsOfWholes, NamesAssumption
     DEF TypeOK, MemHolds, TodoFits, DoneIsThere, Tracked, Pending, Unrecorded,
     Ours, Records, NoState, DisableFails, Aborts, Idle, Goto, hostVars,
     commandVars, historyVars
<1>26. CASE RestoreFails
  BY <1>26, ItemsOfWholes, NamesAssumption
     DEF TypeOK, MemHolds, TodoFits, DoneIsThere, Tracked, Pending, Unrecorded,
     Ours, Records, NoState, RestoreFails, Aborts, Idle, Goto, hostVars,
     commandVars, historyVars
<1>27. CASE UNCHANGED vars
  BY <1>27, ItemsOfWholes, NamesAssumption
     DEF TypeOK, MemHolds, TodoFits, DoneIsThere, Tracked, Pending, Unrecorded,
     Ours, Records, NoState, vars, hostVars, commandVars, historyVars
<1> QED
  BY <1>1, <1>2, <1>3, <1>4, <1>5, <1>6, <1>7, <1>8, <1>9, <1>10, <1>11, <1>12,
     <1>13, <1>14, <1>15, <1>15a, <1>16, <1>17, <1>18, <1>19, <1>20, <1>21, <1>22,
     <1>23, <1>24, <1>25, <1>26, <1>27
     DEF Next, Works, Fails, Admin, Install, Devices, Uninstall

LEMMA StepTruthful == TypeOK /\ MemHolds /\ TodoFits /\ DoneIsThere /\ Truthful /\ [Next]_vars => Truthful'
<1> SUFFICES ASSUME TypeOK, MemHolds, TodoFits, DoneIsThere, Truthful, [Next]_vars PROVE Truthful'
  OBVIOUS
<1>1. ASSUME NEW v \in Versions, Deploy(v) PROVE Truthful'
  BY <1>1, ItemsOfWholes, NamesAssumption
     DEF TypeOK, MemHolds, TodoFits, DoneIsThere, Truthful, Gone, Dangling, Ours,
     Records, NoState, Deploy, hostVars, commandVars, historyVars
<1>2. CASE RemoveRuntime
  BY <1>2, ItemsOfWholes, NamesAssumption
     DEF TypeOK, MemHolds, TodoFits, DoneIsThere, Truthful, Gone, Dangling, Ours,
     Records, NoState, RemoveRuntime, hostVars, commandVars, historyVars
<1>3. ASSUME NEW i \in Items, AdminPlaces(i) PROVE Truthful'
  BY <1>3, ItemsOfWholes, NamesAssumption
     DEF TypeOK, MemHolds, TodoFits, DoneIsThere, Truthful, Gone, Dangling, Ours,
     Records, NoState, AdminPlaces, hostVars, commandVars, historyVars
<1>4. ASSUME NEW i \in Items, AdminRemoves(i) PROVE Truthful'
  BY <1>4, ItemsOfWholes, NamesAssumption
     DEF TypeOK, MemHolds, TodoFits, DoneIsThere, Truthful, Gone, Dangling, Ours,
     Records, NoState, AdminRemoves, hostVars, commandVars, historyVars
<1>5. CASE BeginInstall
  BY <1>5, ItemsOfWholes, NamesAssumption
     DEF TypeOK, MemHolds, TodoFits, DoneIsThere, Truthful, Gone, Dangling, Ours,
     Records, NoState, BeginInstall, Begin, Goto, hostVars, commandVars, historyVars
<1>6. ASSUME NEW i \in Items, WriteUnit(i) PROVE Truthful'
  BY <1>6, ItemsOfWholes, NamesAssumption
     DEF TypeOK, MemHolds, TodoFits, DoneIsThere, Truthful, Gone, Dangling, Ours,
     Records, NoState, WriteUnit, Goto, hostVars, commandVars, historyVars
<1>7. ASSUME NEW i \in Items, BuildPart(i) PROVE Truthful'
  BY <1>7, ItemsOfWholes, NamesAssumption
     DEF TypeOK, MemHolds, TodoFits, DoneIsThere, Truthful, Gone, Dangling, Ours,
     Records, NoState, BuildPart, hostVars, commandVars, historyVars
<1>8. CASE SkipEscpos
  BY <1>8, ItemsOfWholes, NamesAssumption
     DEF TypeOK, MemHolds, TodoFits, DoneIsThere, Truthful, Gone, Dangling, Ours,
     Records, NoState, SkipEscpos, Goto, hostVars, commandVars, historyVars
<1>9. CASE BuildEscpos
  BY <1>9, ItemsOfWholes, NamesAssumption
     DEF TypeOK, MemHolds, TodoFits, DoneIsThere, Truthful, Gone, Dangling, Ours,
     Records, NoState, BuildEscpos, Goto, EscPresent, hostVars, commandVars,
     historyVars
<1>10. CASE Built
  BY <1>10, ItemsOfWholes, NamesAssumption
     DEF TypeOK, MemHolds, TodoFits, DoneIsThere, Truthful, Gone, Dangling, Ours,
     Records, NoState, Built, Goto, hostVars, commandVars, historyVars
<1>11. ASSUME NEW d \in Drivers, BeginDriver(d) PROVE Truthful'
  BY <1>11, ItemsOfWholes, NamesAssumption
     DEF TypeOK, MemHolds, TodoFits, DoneIsThere, Truthful, Gone, Dangling, Ours,
     Records, NoState, BeginDriver, Begin, Goto, hostVars, commandVars, historyVars
<1>12. ASSUME NEW i \in Items, ReplacePart(i) PROVE Truthful'
  BY <1>12, ItemsOfWholes, NamesAssumption
     DEF TypeOK, MemHolds, TodoFits, DoneIsThere, Truthful, Gone, Dangling, Ours,
     Records, NoState, ReplacePart, hostVars, commandVars, historyVars
<1>13. CASE ReloadCups
  BY <1>13, ItemsOfWholes, NamesAssumption
     DEF TypeOK, MemHolds, TodoFits, DoneIsThere, Truthful, Gone, Dangling, Ours,
     Records, NoState, ReloadCups, Goto, hostVars, commandVars, historyVars
<1>14. ASSUME NEW q \in Queues, BeginAdd(q) PROVE Truthful'
  BY <1>14, ItemsOfWholes, NamesAssumption
     DEF TypeOK, MemHolds, TodoFits, DoneIsThere, Truthful, Gone, Dangling, Ours,
     Records, NoState, BeginAdd, Begin, Goto, hostVars, commandVars, historyVars
<1>15. CASE CreateQueue
  BY <1>15, ItemsOfWholes, NamesAssumption
     DEF TypeOK, MemHolds, TodoFits, DoneIsThere, Truthful, Gone, Dangling, Ours,
     Records, NoState, CreateQueue, Goto, hostVars, commandVars, historyVars
<1>15a. ASSUME NEW q \in Queues, AdoptQueue(q) PROVE Truthful'
  BY <1>15a, ItemsOfWholes, NamesAssumption
     DEF TypeOK, MemHolds, TodoFits, DoneIsThere, Truthful, Gone, Dangling, Ours,
     Records, NoState, AdoptQueue, hostVars, commandVars, historyVars
<1>16. CASE BeginDisable
  BY <1>16, ItemsOfWholes, NamesAssumption
     DEF TypeOK, MemHolds, TodoFits, DoneIsThere, Truthful, Gone, Dangling, Ours,
     Records, NoState, BeginDisable, Begin, Goto, hostVars, commandVars, historyVars
<1>17. CASE DisableUsb
  BY <1>17, ItemsOfWholes, NamesAssumption
     DEF TypeOK, MemHolds, TodoFits, DoneIsThere, Truthful, Gone, Dangling, Ours,
     Records, NoState, DisableUsb, Goto, hostVars, commandVars, historyVars
<1>18. ASSUME NEW W \in SUBSET Wholes, NEW try \in {"yes", "no"}, BeginUninstall(W, try) PROVE Truthful'
  BY <1>18, ItemsOfWholes, NamesAssumption
     DEF TypeOK, MemHolds, TodoFits, DoneIsThere, Truthful, Gone, Dangling, Ours,
     Records, NoState, BeginUninstall, Begin, Goto, Selections, hostVars,
     commandVars, historyVars
<1>19. ASSUME NEW i \in Items, RemoveItem(i) PROVE Truthful'
  BY <1>19, ItemsOfWholes, NamesAssumption
     DEF TypeOK, MemHolds, TodoFits, DoneIsThere, Truthful, Gone, Dangling, Ours,
     Records, NoState, RemoveItem, hostVars, commandVars, historyVars
<1>20. CASE Removed
  BY <1>20, ItemsOfWholes, NamesAssumption
     DEF TypeOK, MemHolds, TodoFits, DoneIsThere, Truthful, Gone, Dangling, Ours,
     Records, NoState, Removed, Goto, hostVars, commandVars, historyVars
<1>21. CASE RestoreUsb
  BY <1>21, ItemsOfWholes, NamesAssumption
     DEF TypeOK, MemHolds, TodoFits, DoneIsThere, Truthful, Gone, Dangling, Ours,
     Records, NoState, RestoreUsb, Goto, hostVars, commandVars, historyVars
<1>22. ASSUME NEW record \in {mem, NoState}, Finish(record) PROVE Truthful'
  BY <1>22, ItemsOfWholes, NamesAssumption
     DEF TypeOK, MemHolds, TodoFits, DoneIsThere, Truthful, Gone, Dangling, Ours,
     Records, NoState, Finish, Idle, Goto, hostVars, commandVars, historyVars
<1>23. CASE Save
  BY <1>23, ItemsOfWholes, NamesAssumption
     DEF TypeOK, MemHolds, TodoFits, DoneIsThere, Truthful, Gone, Dangling, Ours,
     Records, NoState, Save, Idle, Goto, hostVars, commandVars, historyVars
<1>24. CASE End
  BY <1>24, ItemsOfWholes, NamesAssumption
     DEF TypeOK, MemHolds, TodoFits, DoneIsThere, Truthful, Gone, Dangling, Ours,
     Records, NoState, End, Aborts, Idle, Goto, hostVars, commandVars, historyVars
<1>25. CASE DisableFails
  BY <1>25, ItemsOfWholes, NamesAssumption
     DEF TypeOK, MemHolds, TodoFits, DoneIsThere, Truthful, Gone, Dangling, Ours,
     Records, NoState, DisableFails, Aborts, Idle, Goto, hostVars, commandVars,
     historyVars
<1>26. CASE RestoreFails
  BY <1>26, ItemsOfWholes, NamesAssumption
     DEF TypeOK, MemHolds, TodoFits, DoneIsThere, Truthful, Gone, Dangling, Ours,
     Records, NoState, RestoreFails, Aborts, Idle, Goto, hostVars, commandVars,
     historyVars
<1>27. CASE UNCHANGED vars
  BY <1>27, ItemsOfWholes, NamesAssumption
     DEF TypeOK, MemHolds, TodoFits, DoneIsThere, Truthful, Gone, Dangling, Ours,
     Records, NoState, vars, hostVars, commandVars, historyVars
<1> QED
  BY <1>1, <1>2, <1>3, <1>4, <1>5, <1>6, <1>7, <1>8, <1>9, <1>10, <1>11, <1>12,
     <1>13, <1>14, <1>15, <1>15a, <1>16, <1>17, <1>18, <1>19, <1>20, <1>21, <1>22,
     <1>23, <1>24, <1>25, <1>26, <1>27
     DEF Next, Works, Fails, Admin, Install, Devices, Uninstall

LEMMA StepUsbKnown == TypeOK /\ MemHolds /\ UsbKnown /\ [Next]_vars => UsbKnown'
<1> SUFFICES ASSUME TypeOK, MemHolds, UsbKnown, [Next]_vars PROVE UsbKnown'
  OBVIOUS
<1>1. ASSUME NEW v \in Versions, Deploy(v) PROVE UsbKnown'
  BY <1>1
     DEF TypeOK, MemHolds, UsbKnown, Within, Active, Enabled, UsbStates, Records,
     NoState, Deploy, hostVars, commandVars, historyVars
<1>2. CASE RemoveRuntime
  BY <1>2
     DEF TypeOK, MemHolds, UsbKnown, Within, Active, Enabled, UsbStates, Records,
     NoState, RemoveRuntime, hostVars, commandVars, historyVars
<1>3. ASSUME NEW i \in Items, AdminPlaces(i) PROVE UsbKnown'
  BY <1>3
     DEF TypeOK, MemHolds, UsbKnown, Within, Active, Enabled, UsbStates, Records,
     NoState, AdminPlaces, hostVars, commandVars, historyVars
<1>4. ASSUME NEW i \in Items, AdminRemoves(i) PROVE UsbKnown'
  BY <1>4
     DEF TypeOK, MemHolds, UsbKnown, Within, Active, Enabled, UsbStates, Records,
     NoState, AdminRemoves, hostVars, commandVars, historyVars
<1>5. CASE BeginInstall
  BY <1>5
     DEF TypeOK, MemHolds, UsbKnown, Within, Active, Enabled, UsbStates, Records,
     NoState, BeginInstall, Begin, Goto, hostVars, commandVars, historyVars
<1>6. ASSUME NEW i \in Items, WriteUnit(i) PROVE UsbKnown'
  BY <1>6
     DEF TypeOK, MemHolds, UsbKnown, Within, Active, Enabled, UsbStates, Records,
     NoState, WriteUnit, Goto, hostVars, commandVars, historyVars
<1>7. ASSUME NEW i \in Items, BuildPart(i) PROVE UsbKnown'
  BY <1>7
     DEF TypeOK, MemHolds, UsbKnown, Within, Active, Enabled, UsbStates, Records,
     NoState, BuildPart, hostVars, commandVars, historyVars
<1>8. CASE SkipEscpos
  BY <1>8
     DEF TypeOK, MemHolds, UsbKnown, Within, Active, Enabled, UsbStates, Records,
     NoState, SkipEscpos, Goto, hostVars, commandVars, historyVars
<1>9. CASE BuildEscpos
  BY <1>9
     DEF TypeOK, MemHolds, UsbKnown, Within, Active, Enabled, UsbStates, Records,
     NoState, BuildEscpos, Goto, hostVars, commandVars, historyVars
<1>10. CASE Built
  BY <1>10
     DEF TypeOK, MemHolds, UsbKnown, Within, Active, Enabled, UsbStates, Records,
     NoState, Built, Goto, hostVars, commandVars, historyVars
<1>11. ASSUME NEW d \in Drivers, BeginDriver(d) PROVE UsbKnown'
  BY <1>11
     DEF TypeOK, MemHolds, UsbKnown, Within, Active, Enabled, UsbStates, Records,
     NoState, BeginDriver, Begin, Goto, hostVars, commandVars, historyVars
<1>12. ASSUME NEW i \in Items, ReplacePart(i) PROVE UsbKnown'
  BY <1>12
     DEF TypeOK, MemHolds, UsbKnown, Within, Active, Enabled, UsbStates, Records,
     NoState, ReplacePart, hostVars, commandVars, historyVars
<1>13. CASE ReloadCups
  BY <1>13
     DEF TypeOK, MemHolds, UsbKnown, Within, Active, Enabled, UsbStates, Records,
     NoState, ReloadCups, Goto, hostVars, commandVars, historyVars
<1>14. ASSUME NEW q \in Queues, BeginAdd(q) PROVE UsbKnown'
  BY <1>14
     DEF TypeOK, MemHolds, UsbKnown, Within, Active, Enabled, UsbStates, Records,
     NoState, BeginAdd, Begin, Goto, hostVars, commandVars, historyVars
<1>15. CASE CreateQueue
  BY <1>15
     DEF TypeOK, MemHolds, UsbKnown, Within, Active, Enabled, UsbStates, Records,
     NoState, CreateQueue, Goto, hostVars, commandVars, historyVars
<1>15a. ASSUME NEW q \in Queues, AdoptQueue(q) PROVE UsbKnown'
  BY <1>15a
     DEF TypeOK, MemHolds, UsbKnown, Within, Active, Enabled, UsbStates, Records,
     NoState, AdoptQueue, hostVars, commandVars, historyVars
<1>16. CASE BeginDisable
  BY <1>16
     DEF TypeOK, MemHolds, UsbKnown, Within, Active, Enabled, UsbStates, Records,
     NoState, BeginDisable, Begin, Goto, hostVars, commandVars, historyVars
<1>17. CASE DisableUsb
  BY <1>17
     DEF TypeOK, MemHolds, UsbKnown, Within, Active, Enabled, UsbStates, Records,
     NoState, DisableUsb, Goto, hostVars, commandVars, historyVars
<1>18. ASSUME NEW W \in SUBSET Wholes, NEW try \in {"yes", "no"}, BeginUninstall(W, try) PROVE UsbKnown'
  BY <1>18
     DEF TypeOK, MemHolds, UsbKnown, Within, Active, Enabled, UsbStates, Records,
     NoState, BeginUninstall, Begin, Goto, hostVars, commandVars, historyVars
<1>19. ASSUME NEW i \in Items, RemoveItem(i) PROVE UsbKnown'
  BY <1>19
     DEF TypeOK, MemHolds, UsbKnown, Within, Active, Enabled, UsbStates, Records,
     NoState, RemoveItem, hostVars, commandVars, historyVars
<1>20. CASE Removed
  BY <1>20
     DEF TypeOK, MemHolds, UsbKnown, Within, Active, Enabled, UsbStates, Records,
     NoState, Removed, Goto, hostVars, commandVars, historyVars
<1>21. CASE RestoreUsb
  <2>1. /\ pc = "restore" /\ pc' = "finish" /\ mem'.usb = "unrecorded"
        /\ UNCHANGED <<saved, spoiled, usb0, dry>>
    BY <1>21 DEF RestoreUsb, Goto, historyVars, TypeOK, Records
  <2> SUFFICES ASSUME spoiled = "no" PROVE UsbKnown'
    BY <2>1 DEF UsbKnown
  <2>2. CASE dry = "yes" \/ mem.usb = "unrecorded"
    <3>1. usb' = usb
      BY <1>21, <2>2 DEF RestoreUsb
    <3> QED
      BY <2>1, <2>2, <3>1 DEF UsbKnown, Within, TypeOK
  <2>3. CASE dry = "no" /\ mem.usb # "unrecorded"
    <3>1. mem.usb = usb0 /\ saved.usb = usb0 /\ Within(usb, usb0)
      BY <2>1, <2>3 DEF UsbKnown
    <3>2. usb' = UsbOf(Active(usb) \/ Active(usb0), Enabled(usb) \/ Enabled(usb0))
      BY <1>21, <2>3, <3>1 DEF RestoreUsb
    <3>3. usb0 # "absent"
      BY <3>1 DEF MemHolds
    <3>4. usb' = usb0
      BY <3>1, <3>2, <3>3 DEF Within, UsbOf, Active, Enabled, TypeOK, UsbStates
    <3> QED
      BY <2>1, <3>1, <3>4 DEF UsbKnown, Within, Active, Enabled
  <2> QED
    BY <2>2, <2>3 DEF TypeOK
<1>22. ASSUME NEW record \in {mem, NoState}, Finish(record) PROVE UsbKnown'
  BY <1>22
     DEF TypeOK, MemHolds, UsbKnown, Within, Active, Enabled, UsbStates, Records,
     NoState, Finish, Idle, Goto, hostVars, commandVars, historyVars
<1>23. CASE Save
  BY <1>23
     DEF TypeOK, MemHolds, UsbKnown, Within, Active, Enabled, UsbStates, Records,
     NoState, Save, Idle, Goto, hostVars, commandVars, historyVars
<1>24. CASE End
  BY <1>24
     DEF TypeOK, MemHolds, UsbKnown, Within, Active, Enabled, UsbStates, Records,
     NoState, End, Aborts, Idle, Goto, hostVars, commandVars, historyVars
<1>25. CASE DisableFails
  BY <1>25
     DEF TypeOK, MemHolds, UsbKnown, Within, Active, Enabled, UsbStates, Records,
     NoState, DisableFails, Aborts, Idle, Goto, hostVars, commandVars, historyVars
<1>26. CASE RestoreFails
  BY <1>26
     DEF TypeOK, MemHolds, UsbKnown, Within, Active, Enabled, UsbStates, Records,
     NoState, RestoreFails, Aborts, Idle, Goto, UsbOf, hostVars, commandVars,
     historyVars
<1>27. CASE UNCHANGED vars
  BY <1>27
     DEF TypeOK, MemHolds, UsbKnown, Within, Active, Enabled, UsbStates, Records,
     NoState, vars, hostVars, commandVars, historyVars
<1> QED
  BY <1>1, <1>2, <1>3, <1>4, <1>5, <1>6, <1>7, <1>8, <1>9, <1>10, <1>11, <1>12,
     <1>13, <1>14, <1>15, <1>15a, <1>16, <1>17, <1>18, <1>19, <1>20, <1>21, <1>22,
     <1>23, <1>24, <1>25, <1>26, <1>27
     DEF Next, Works, Fails, Admin, Install, Devices, Uninstall

LEMMA StepTypeOK == TypeOK /\ [Next]_vars => TypeOK'
<1> SUFFICES ASSUME TypeOK, [Next]_vars PROVE TypeOK'
  OBVIOUS
<1>1. ASSUME NEW v \in Versions, Deploy(v) PROVE TypeOK'
  BY <1>1, ItemSets, WholesNamed
     DEF TypeOK, Records, NoState, Contents, Deploy, hostVars, commandVars,
     historyVars
<1>2. CASE RemoveRuntime
  BY <1>2, ItemSets, WholesNamed
     DEF TypeOK, Records, NoState, Contents, RemoveRuntime, hostVars, commandVars,
     historyVars
<1>3. ASSUME NEW i \in Items, AdminPlaces(i) PROVE TypeOK'
  BY <1>3, ItemSets, WholesNamed
     DEF TypeOK, Records, NoState, Contents, AdminPlaces, hostVars, commandVars,
     historyVars
<1>4. ASSUME NEW i \in Items, AdminRemoves(i) PROVE TypeOK'
  BY <1>4, ItemSets, WholesNamed
     DEF TypeOK, Records, NoState, Contents, AdminRemoves, hostVars, commandVars,
     historyVars
<1>5. CASE BeginInstall
  BY <1>5, ItemSets, WholesNamed
     DEF TypeOK, Records, NoState, Contents, BeginInstall, Begin, Goto, hostVars,
     commandVars, historyVars
<1>6. ASSUME NEW i \in Items, WriteUnit(i) PROVE TypeOK'
  BY <1>6, ItemSets, WholesNamed
     DEF TypeOK, Records, NoState, Contents, WriteUnit, Goto, hostVars, commandVars,
     historyVars
<1>7. ASSUME NEW i \in Items, BuildPart(i) PROVE TypeOK'
  BY <1>7, ItemSets, WholesNamed
     DEF TypeOK, Records, NoState, Contents, BuildPart, hostVars, commandVars,
     historyVars
<1>8. CASE SkipEscpos
  BY <1>8, ItemSets, WholesNamed
     DEF TypeOK, Records, NoState, Contents, SkipEscpos, Goto, hostVars,
     commandVars, historyVars
<1>9. CASE BuildEscpos
  BY <1>9, ItemSets, WholesNamed
     DEF TypeOK, Records, NoState, Contents, BuildEscpos, Goto, hostVars,
     commandVars, historyVars
<1>10. CASE Built
  BY <1>10, ItemSets, WholesNamed
     DEF TypeOK, Records, NoState, Contents, Built, Goto, hostVars, commandVars,
     historyVars
<1>11. ASSUME NEW d \in Drivers, BeginDriver(d) PROVE TypeOK'
  BY <1>11, ItemSets, WholesNamed
     DEF TypeOK, Records, NoState, Contents, BeginDriver, Begin, Goto, hostVars,
     commandVars, historyVars
<1>12. ASSUME NEW i \in Items, ReplacePart(i) PROVE TypeOK'
  BY <1>12, ItemSets, WholesNamed
     DEF TypeOK, Records, NoState, Contents, ReplacePart, hostVars, commandVars,
     historyVars
<1>13. CASE ReloadCups
  BY <1>13, ItemSets, WholesNamed
     DEF TypeOK, Records, NoState, Contents, ReloadCups, Goto, hostVars,
     commandVars, historyVars
<1>14. ASSUME NEW q \in Queues, BeginAdd(q) PROVE TypeOK'
  BY <1>14, ItemSets, WholesNamed
     DEF TypeOK, Records, NoState, Contents, BeginAdd, Begin, Goto, hostVars,
     commandVars, historyVars
<1>15. CASE CreateQueue
  BY <1>15, ItemSets, WholesNamed
     DEF TypeOK, Records, NoState, Contents, CreateQueue, Goto, hostVars,
     commandVars, historyVars
<1>15a. ASSUME NEW q \in Queues, AdoptQueue(q) PROVE TypeOK'
  BY <1>15a, ItemSets, WholesNamed
     DEF TypeOK, Records, NoState, Contents, AdoptQueue, hostVars, commandVars,
     historyVars
<1>16. CASE BeginDisable
  BY <1>16, ItemSets, WholesNamed
     DEF TypeOK, Records, NoState, Contents, BeginDisable, Begin, Goto, hostVars,
     commandVars, historyVars
<1>17. CASE DisableUsb
  BY <1>17, ItemSets, WholesNamed
     DEF TypeOK, Records, NoState, Contents, DisableUsb, Goto, UsbStates, hostVars,
     commandVars, historyVars
<1>18. ASSUME NEW W \in SUBSET Wholes, NEW try \in {"yes", "no"}, BeginUninstall(W, try) PROVE TypeOK'
  BY <1>18, ItemSets, WholesNamed
     DEF TypeOK, Records, NoState, Contents, BeginUninstall, Begin, Goto,
     Selections, hostVars, commandVars, historyVars
<1>19. ASSUME NEW i \in Items, RemoveItem(i) PROVE TypeOK'
  BY <1>19, ItemSets, WholesNamed
     DEF TypeOK, Records, NoState, Contents, RemoveItem, hostVars, commandVars,
     historyVars
<1>20. CASE Removed
  BY <1>20, ItemSets, WholesNamed
     DEF TypeOK, Records, NoState, Contents, Removed, Goto, hostVars, commandVars,
     historyVars
<1>21. CASE RestoreUsb
  BY <1>21, ItemSets, WholesNamed
     DEF TypeOK, Records, NoState, Contents, RestoreUsb, Goto, UsbOf, UsbStates,
     hostVars, commandVars, historyVars
<1>22. ASSUME NEW record \in {mem, NoState}, Finish(record) PROVE TypeOK'
  <2>1. saved' \in Records
    BY <1>22 DEF Finish, TypeOK, Records, NoState
  <2>2. mem' \in Records
    BY <1>22 DEF Finish, Idle, Records, NoState
  <2> QED
    BY <1>22, <2>1, <2>2 DEF Finish, Idle, Goto, TypeOK, Kept, hostVars
<1>23. CASE Save
  BY <1>23, ItemSets, WholesNamed
     DEF TypeOK, Records, NoState, Contents, Save, Idle, Goto, hostVars,
     commandVars, historyVars
<1>24. CASE End
  BY <1>24, ItemSets, WholesNamed
     DEF TypeOK, Records, NoState, Contents, End, Aborts, Idle, Goto, Unrecorded,
     Dangling, hostVars, commandVars, historyVars
<1>25. CASE DisableFails
  BY <1>25, ItemSets, WholesNamed
     DEF TypeOK, Records, NoState, Contents, DisableFails, Aborts, Idle, Goto,
     UsbStates, Unrecorded, Dangling, hostVars, commandVars, historyVars
<1>26. CASE RestoreFails
  BY <1>26, ItemSets, WholesNamed
     DEF TypeOK, Records, NoState, Contents, RestoreFails, Aborts, Idle, Goto,
     UsbOf, UsbStates, Unrecorded, Dangling, hostVars, commandVars, historyVars
<1>27. CASE UNCHANGED vars
  BY <1>27, ItemSets, WholesNamed
     DEF TypeOK, Records, NoState, Contents, vars, hostVars, commandVars,
     historyVars
<1> QED
  BY <1>1, <1>2, <1>3, <1>4, <1>5, <1>6, <1>7, <1>8, <1>9, <1>10, <1>11, <1>12,
     <1>13, <1>14, <1>15, <1>15a, <1>16, <1>17, <1>18, <1>19, <1>20, <1>21, <1>22,
     <1>23, <1>24, <1>25, <1>26, <1>27
     DEF Next, Works, Fails, Admin, Install, Devices, Uninstall

LEMMA StepMemHolds == TypeOK /\ MemHolds /\ [Next]_vars => MemHolds'
<1> SUFFICES ASSUME TypeOK, MemHolds, [Next]_vars PROVE MemHolds'
  OBVIOUS
<1>1. ASSUME NEW v \in Versions, Deploy(v) PROVE MemHolds'
  BY <1>1
     DEF TypeOK, MemHolds, Records, NoState, Deploy, hostVars, commandVars,
     historyVars
<1>2. CASE RemoveRuntime
  BY <1>2
     DEF TypeOK, MemHolds, Records, NoState, RemoveRuntime, hostVars, commandVars,
     historyVars
<1>3. ASSUME NEW i \in Items, AdminPlaces(i) PROVE MemHolds'
  BY <1>3
     DEF TypeOK, MemHolds, Records, NoState, AdminPlaces, hostVars, commandVars,
     historyVars
<1>4. ASSUME NEW i \in Items, AdminRemoves(i) PROVE MemHolds'
  BY <1>4
     DEF TypeOK, MemHolds, Records, NoState, AdminRemoves, hostVars, commandVars,
     historyVars
<1>5. CASE BeginInstall
  BY <1>5
     DEF TypeOK, MemHolds, Records, NoState, BeginInstall, Begin, Goto, hostVars,
     commandVars, historyVars
<1>6. ASSUME NEW i \in Items, WriteUnit(i) PROVE MemHolds'
  BY <1>6
     DEF TypeOK, MemHolds, Records, NoState, WriteUnit, Goto, hostVars, commandVars,
     historyVars
<1>7. ASSUME NEW i \in Items, BuildPart(i) PROVE MemHolds'
  BY <1>7
     DEF TypeOK, MemHolds, Records, NoState, BuildPart, hostVars, commandVars,
     historyVars
<1>8. CASE SkipEscpos
  BY <1>8
     DEF TypeOK, MemHolds, Records, NoState, SkipEscpos, Goto, hostVars,
     commandVars, historyVars
<1>9. CASE BuildEscpos
  BY <1>9
     DEF TypeOK, MemHolds, Records, NoState, BuildEscpos, Goto, hostVars,
     commandVars, historyVars
<1>10. CASE Built
  BY <1>10
     DEF TypeOK, MemHolds, Records, NoState, Built, Goto, hostVars, commandVars,
     historyVars
<1>11. ASSUME NEW d \in Drivers, BeginDriver(d) PROVE MemHolds'
  BY <1>11
     DEF TypeOK, MemHolds, Records, NoState, BeginDriver, Begin, Goto, hostVars,
     commandVars, historyVars
<1>12. ASSUME NEW i \in Items, ReplacePart(i) PROVE MemHolds'
  BY <1>12
     DEF TypeOK, MemHolds, Records, NoState, ReplacePart, hostVars, commandVars,
     historyVars
<1>13. CASE ReloadCups
  BY <1>13
     DEF TypeOK, MemHolds, Records, NoState, ReloadCups, Goto, hostVars,
     commandVars, historyVars
<1>14. ASSUME NEW q \in Queues, BeginAdd(q) PROVE MemHolds'
  BY <1>14
     DEF TypeOK, MemHolds, Records, NoState, BeginAdd, Begin, Goto, hostVars,
     commandVars, historyVars
<1>15. CASE CreateQueue
  BY <1>15
     DEF TypeOK, MemHolds, Records, NoState, CreateQueue, Goto, hostVars,
     commandVars, historyVars
<1>15a. ASSUME NEW q \in Queues, AdoptQueue(q) PROVE MemHolds'
  BY <1>15a
     DEF TypeOK, MemHolds, Records, NoState, AdoptQueue, hostVars, commandVars,
     historyVars
<1>16. CASE BeginDisable
  BY <1>16
     DEF TypeOK, MemHolds, Records, NoState, BeginDisable, Begin, Goto, hostVars,
     commandVars, historyVars
<1>17. CASE DisableUsb
  BY <1>17
     DEF TypeOK, MemHolds, Records, NoState, DisableUsb, Goto, hostVars,
     commandVars, historyVars
<1>18. ASSUME NEW W \in SUBSET Wholes, NEW try \in {"yes", "no"}, BeginUninstall(W, try) PROVE MemHolds'
  BY <1>18
     DEF TypeOK, MemHolds, Records, NoState, BeginUninstall, Begin, Goto, hostVars,
     commandVars, historyVars
<1>19. ASSUME NEW i \in Items, RemoveItem(i) PROVE MemHolds'
  BY <1>19
     DEF TypeOK, MemHolds, Records, NoState, RemoveItem, hostVars, commandVars,
     historyVars
<1>20. CASE Removed
  BY <1>20
     DEF TypeOK, MemHolds, Records, NoState, Removed, Goto, hostVars, commandVars,
     historyVars
<1>21. CASE RestoreUsb
  BY <1>21
     DEF TypeOK, MemHolds, Records, NoState, RestoreUsb, Goto, hostVars,
     commandVars, historyVars
<1>22. ASSUME NEW record \in {mem, NoState}, Finish(record) PROVE MemHolds'
  BY <1>22
     DEF TypeOK, MemHolds, Records, NoState, Finish, Idle, Goto, hostVars,
     commandVars, historyVars
<1>23. CASE Save
  BY <1>23
     DEF TypeOK, MemHolds, Records, NoState, Save, Idle, Goto, hostVars,
     commandVars, historyVars
<1>24. CASE End
  BY <1>24
     DEF TypeOK, MemHolds, Records, NoState, End, Aborts, Idle, Goto, hostVars,
     commandVars, historyVars
<1>25. CASE DisableFails
  BY <1>25
     DEF TypeOK, MemHolds, Records, NoState, DisableFails, Aborts, Idle, Goto,
     hostVars, commandVars, historyVars
<1>26. CASE RestoreFails
  BY <1>26
     DEF TypeOK, MemHolds, Records, NoState, RestoreFails, Aborts, Idle, Goto,
     hostVars, commandVars, historyVars
<1>27. CASE UNCHANGED vars
  BY <1>27
     DEF TypeOK, MemHolds, Records, NoState, vars, hostVars, commandVars,
     historyVars
<1> QED
  BY <1>1, <1>2, <1>3, <1>4, <1>5, <1>6, <1>7, <1>8, <1>9, <1>10, <1>11, <1>12,
     <1>13, <1>14, <1>15, <1>15a, <1>16, <1>17, <1>18, <1>19, <1>20, <1>21, <1>22,
     <1>23, <1>24, <1>25, <1>26, <1>27
     DEF Next, Works, Fails, Admin, Install, Devices, Uninstall

LEMMA StepTodoFits == TypeOK /\ MemHolds /\ TodoFits /\ [Next]_vars => TodoFits'
<1> SUFFICES ASSUME TypeOK, MemHolds, TodoFits, [Next]_vars PROVE TodoFits'
  OBVIOUS
<1>1. ASSUME NEW v \in Versions, Deploy(v) PROVE TodoFits'
  BY <1>1, ItemsOfWholes
     DEF TypeOK, MemHolds, TodoFits, Deploy, hostVars, commandVars, historyVars
<1>2. CASE RemoveRuntime
  BY <1>2, ItemsOfWholes
     DEF TypeOK, MemHolds, TodoFits, RemoveRuntime, hostVars, commandVars,
     historyVars
<1>3. ASSUME NEW i \in Items, AdminPlaces(i) PROVE TodoFits'
  BY <1>3, ItemsOfWholes
     DEF TypeOK, MemHolds, TodoFits, AdminPlaces, hostVars, commandVars, historyVars
<1>4. ASSUME NEW i \in Items, AdminRemoves(i) PROVE TodoFits'
  BY <1>4, ItemsOfWholes
     DEF TypeOK, MemHolds, TodoFits, AdminRemoves, hostVars, commandVars,
     historyVars
<1>5. CASE BeginInstall
  BY <1>5, ItemsOfWholes
     DEF TypeOK, MemHolds, TodoFits, BeginInstall, Begin, Goto, hostVars,
     commandVars, historyVars
<1>6. ASSUME NEW i \in Items, WriteUnit(i) PROVE TodoFits'
  BY <1>6, ItemsOfWholes
     DEF TypeOK, MemHolds, TodoFits, WriteUnit, Goto, hostVars, commandVars,
     historyVars
<1>7. ASSUME NEW i \in Items, BuildPart(i) PROVE TodoFits'
  BY <1>7, ItemsOfWholes
     DEF TypeOK, MemHolds, TodoFits, BuildPart, hostVars, commandVars, historyVars
<1>8. CASE SkipEscpos
  BY <1>8, ItemsOfWholes
     DEF TypeOK, MemHolds, TodoFits, SkipEscpos, Goto, hostVars, commandVars,
     historyVars
<1>9. CASE BuildEscpos
  BY <1>9, ItemsOfWholes
     DEF TypeOK, MemHolds, TodoFits, BuildEscpos, Goto, hostVars, commandVars,
     historyVars
<1>10. CASE Built
  BY <1>10, ItemsOfWholes
     DEF TypeOK, MemHolds, TodoFits, Built, Goto, hostVars, commandVars, historyVars
<1>11. ASSUME NEW d \in Drivers, BeginDriver(d) PROVE TodoFits'
  BY <1>11, ItemsOfWholes
     DEF TypeOK, MemHolds, TodoFits, BeginDriver, Begin, Goto, hostVars,
     commandVars, historyVars
<1>12. ASSUME NEW i \in Items, ReplacePart(i) PROVE TodoFits'
  BY <1>12, ItemsOfWholes
     DEF TypeOK, MemHolds, TodoFits, ReplacePart, hostVars, commandVars, historyVars
<1>13. CASE ReloadCups
  BY <1>13, ItemsOfWholes
     DEF TypeOK, MemHolds, TodoFits, ReloadCups, Goto, hostVars, commandVars,
     historyVars
<1>14. ASSUME NEW q \in Queues, BeginAdd(q) PROVE TodoFits'
  BY <1>14, ItemsOfWholes
     DEF TypeOK, MemHolds, TodoFits, BeginAdd, Begin, Goto, hostVars, commandVars,
     historyVars
<1>15. CASE CreateQueue
  BY <1>15, ItemsOfWholes
     DEF TypeOK, MemHolds, TodoFits, CreateQueue, Goto, hostVars, commandVars,
     historyVars
<1>15a. ASSUME NEW q \in Queues, AdoptQueue(q) PROVE TodoFits'
  BY <1>15a, ItemsOfWholes
     DEF TypeOK, MemHolds, TodoFits, AdoptQueue, hostVars, commandVars, historyVars
<1>16. CASE BeginDisable
  BY <1>16, ItemsOfWholes
     DEF TypeOK, MemHolds, TodoFits, BeginDisable, Begin, Goto, hostVars,
     commandVars, historyVars
<1>17. CASE DisableUsb
  BY <1>17, ItemsOfWholes
     DEF TypeOK, MemHolds, TodoFits, DisableUsb, Goto, hostVars, commandVars,
     historyVars
<1>18. ASSUME NEW W \in SUBSET Wholes, NEW try \in {"yes", "no"}, BeginUninstall(W, try) PROVE TodoFits'
  BY <1>18, ItemsOfWholes
     DEF TypeOK, MemHolds, TodoFits, BeginUninstall, Begin, Goto, Selections,
     hostVars, commandVars, historyVars
<1>19. ASSUME NEW i \in Items, RemoveItem(i) PROVE TodoFits'
  BY <1>19, ItemsOfWholes
     DEF TypeOK, MemHolds, TodoFits, RemoveItem, hostVars, commandVars, historyVars
<1>20. CASE Removed
  BY <1>20, ItemsOfWholes
     DEF TypeOK, MemHolds, TodoFits, Removed, Goto, Records, hostVars, commandVars,
     historyVars
<1>21. CASE RestoreUsb
  BY <1>21, ItemsOfWholes
     DEF TypeOK, MemHolds, TodoFits, RestoreUsb, Goto, hostVars, commandVars,
     historyVars
<1>22. ASSUME NEW record \in {mem, NoState}, Finish(record) PROVE TodoFits'
  BY <1>22, ItemsOfWholes
     DEF TypeOK, MemHolds, TodoFits, Finish, Idle, Goto, hostVars, commandVars,
     historyVars
<1>23. CASE Save
  BY <1>23, ItemsOfWholes
     DEF TypeOK, MemHolds, TodoFits, Save, Idle, Goto, hostVars, commandVars,
     historyVars
<1>24. CASE End
  BY <1>24, ItemsOfWholes
     DEF TypeOK, MemHolds, TodoFits, End, Aborts, Idle, Goto, hostVars, commandVars,
     historyVars
<1>25. CASE DisableFails
  BY <1>25, ItemsOfWholes
     DEF TypeOK, MemHolds, TodoFits, DisableFails, Aborts, Idle, Goto, hostVars,
     commandVars, historyVars
<1>26. CASE RestoreFails
  BY <1>26, ItemsOfWholes
     DEF TypeOK, MemHolds, TodoFits, RestoreFails, Aborts, Idle, Goto, hostVars,
     commandVars, historyVars
<1>27. CASE UNCHANGED vars
  BY <1>27, ItemsOfWholes
     DEF TypeOK, MemHolds, TodoFits, vars, hostVars, commandVars, historyVars
<1> QED
  BY <1>1, <1>2, <1>3, <1>4, <1>5, <1>6, <1>7, <1>8, <1>9, <1>10, <1>11, <1>12,
     <1>13, <1>14, <1>15, <1>15a, <1>16, <1>17, <1>18, <1>19, <1>20, <1>21, <1>22,
     <1>23, <1>24, <1>25, <1>26, <1>27
     DEF Next, Works, Fails, Admin, Install, Devices, Uninstall

LEMMA StepDoneIsThere == TypeOK /\ MemHolds /\ TodoFits /\ DoneIsThere /\ [Next]_vars => DoneIsThere'
<1> SUFFICES ASSUME TypeOK, MemHolds, TodoFits, DoneIsThere, [Next]_vars PROVE DoneIsThere'
  OBVIOUS
<1>1. ASSUME NEW v \in Versions, Deploy(v) PROVE DoneIsThere'
  BY <1>1, ItemsOfWholes, NamesAssumption
     DEF TypeOK, MemHolds, TodoFits, DoneIsThere, Ours, Deploy, hostVars,
     commandVars, historyVars
<1>2. CASE RemoveRuntime
  BY <1>2, ItemsOfWholes, NamesAssumption
     DEF TypeOK, MemHolds, TodoFits, DoneIsThere, Ours, RemoveRuntime, hostVars,
     commandVars, historyVars
<1>3. ASSUME NEW i \in Items, AdminPlaces(i) PROVE DoneIsThere'
  BY <1>3, ItemsOfWholes, NamesAssumption
     DEF TypeOK, MemHolds, TodoFits, DoneIsThere, Ours, AdminPlaces, hostVars,
     commandVars, historyVars
<1>4. ASSUME NEW i \in Items, AdminRemoves(i) PROVE DoneIsThere'
  BY <1>4, ItemsOfWholes, NamesAssumption
     DEF TypeOK, MemHolds, TodoFits, DoneIsThere, Ours, AdminRemoves, hostVars,
     commandVars, historyVars
<1>5. CASE BeginInstall
  BY <1>5, ItemsOfWholes, NamesAssumption
     DEF TypeOK, MemHolds, TodoFits, DoneIsThere, Ours, BeginInstall, Begin, Goto,
     hostVars, commandVars, historyVars
<1>6. ASSUME NEW i \in Items, WriteUnit(i) PROVE DoneIsThere'
  BY <1>6, ItemsOfWholes, NamesAssumption
     DEF TypeOK, MemHolds, TodoFits, DoneIsThere, Ours, WriteUnit, Goto, hostVars,
     commandVars, historyVars
<1>7. ASSUME NEW i \in Items, BuildPart(i) PROVE DoneIsThere'
  BY <1>7, ItemsOfWholes, NamesAssumption
     DEF TypeOK, MemHolds, TodoFits, DoneIsThere, Ours, BuildPart, hostVars,
     commandVars, historyVars
<1>8. CASE SkipEscpos
  BY <1>8, ItemsOfWholes, NamesAssumption
     DEF TypeOK, MemHolds, TodoFits, DoneIsThere, Ours, SkipEscpos, Goto, hostVars,
     commandVars, historyVars
<1>9. CASE BuildEscpos
  BY <1>9, ItemsOfWholes, NamesAssumption
     DEF TypeOK, MemHolds, TodoFits, DoneIsThere, Ours, BuildEscpos, Goto,
     EscPresent, hostVars, commandVars, historyVars
<1>10. CASE Built
  BY <1>10, ItemsOfWholes, NamesAssumption
     DEF TypeOK, MemHolds, TodoFits, DoneIsThere, Ours, Built, Goto, hostVars,
     commandVars, historyVars
<1>11. ASSUME NEW d \in Drivers, BeginDriver(d) PROVE DoneIsThere'
  BY <1>11, ItemsOfWholes, NamesAssumption
     DEF TypeOK, MemHolds, TodoFits, DoneIsThere, Ours, BeginDriver, Begin, Goto,
     hostVars, commandVars, historyVars
<1>12. ASSUME NEW i \in Items, ReplacePart(i) PROVE DoneIsThere'
  BY <1>12, ItemsOfWholes, NamesAssumption
     DEF TypeOK, MemHolds, TodoFits, DoneIsThere, Ours, ReplacePart, hostVars,
     commandVars, historyVars
<1>13. CASE ReloadCups
  BY <1>13, ItemsOfWholes, NamesAssumption
     DEF TypeOK, MemHolds, TodoFits, DoneIsThere, Ours, ReloadCups, Goto, hostVars,
     commandVars, historyVars
<1>14. ASSUME NEW q \in Queues, BeginAdd(q) PROVE DoneIsThere'
  BY <1>14, ItemsOfWholes, NamesAssumption
     DEF TypeOK, MemHolds, TodoFits, DoneIsThere, Ours, BeginAdd, Begin, Goto,
     hostVars, commandVars, historyVars
<1>15. CASE CreateQueue
  BY <1>15, ItemsOfWholes, NamesAssumption
     DEF TypeOK, MemHolds, TodoFits, DoneIsThere, Ours, CreateQueue, Goto, hostVars,
     commandVars, historyVars
<1>15a. ASSUME NEW q \in Queues, AdoptQueue(q) PROVE DoneIsThere'
  BY <1>15a, ItemsOfWholes, NamesAssumption
     DEF TypeOK, MemHolds, TodoFits, DoneIsThere, Ours, AdoptQueue, hostVars,
     commandVars, historyVars
<1>16. CASE BeginDisable
  BY <1>16, ItemsOfWholes, NamesAssumption
     DEF TypeOK, MemHolds, TodoFits, DoneIsThere, Ours, BeginDisable, Begin, Goto,
     hostVars, commandVars, historyVars
<1>17. CASE DisableUsb
  BY <1>17, ItemsOfWholes, NamesAssumption
     DEF TypeOK, MemHolds, TodoFits, DoneIsThere, Ours, DisableUsb, Goto, hostVars,
     commandVars, historyVars
<1>18. ASSUME NEW W \in SUBSET Wholes, NEW try \in {"yes", "no"}, BeginUninstall(W, try) PROVE DoneIsThere'
  BY <1>18, ItemsOfWholes, NamesAssumption
     DEF TypeOK, MemHolds, TodoFits, DoneIsThere, Ours, BeginUninstall, Begin, Goto,
     Selections, hostVars, commandVars, historyVars
<1>19. ASSUME NEW i \in Items, RemoveItem(i) PROVE DoneIsThere'
  BY <1>19, ItemsOfWholes, NamesAssumption
     DEF TypeOK, MemHolds, TodoFits, DoneIsThere, Ours, RemoveItem, hostVars,
     commandVars, historyVars
<1>20. CASE Removed
  BY <1>20, ItemsOfWholes, NamesAssumption
     DEF TypeOK, MemHolds, TodoFits, DoneIsThere, Ours, Removed, Goto, hostVars,
     commandVars, historyVars
<1>21. CASE RestoreUsb
  BY <1>21, ItemsOfWholes, NamesAssumption
     DEF TypeOK, MemHolds, TodoFits, DoneIsThere, Ours, RestoreUsb, Goto, hostVars,
     commandVars, historyVars
<1>22. ASSUME NEW record \in {mem, NoState}, Finish(record) PROVE DoneIsThere'
  BY <1>22, ItemsOfWholes, NamesAssumption
     DEF TypeOK, MemHolds, TodoFits, DoneIsThere, Ours, Finish, Idle, Goto,
     hostVars, commandVars, historyVars
<1>23. CASE Save
  BY <1>23, ItemsOfWholes, NamesAssumption
     DEF TypeOK, MemHolds, TodoFits, DoneIsThere, Ours, Save, Idle, Goto, hostVars,
     commandVars, historyVars
<1>24. CASE End
  BY <1>24, ItemsOfWholes, NamesAssumption
     DEF TypeOK, MemHolds, TodoFits, DoneIsThere, Ours, End, Aborts, Idle, Goto,
     hostVars, commandVars, historyVars
<1>25. CASE DisableFails
  BY <1>25, ItemsOfWholes, NamesAssumption
     DEF TypeOK, MemHolds, TodoFits, DoneIsThere, Ours, DisableFails, Aborts, Idle,
     Goto, hostVars, commandVars, historyVars
<1>26. CASE RestoreFails
  BY <1>26, ItemsOfWholes, NamesAssumption
     DEF TypeOK, MemHolds, TodoFits, DoneIsThere, Ours, RestoreFails, Aborts, Idle,
     Goto, hostVars, commandVars, historyVars
<1>27. CASE UNCHANGED vars
  BY <1>27, ItemsOfWholes, NamesAssumption
     DEF TypeOK, MemHolds, TodoFits, DoneIsThere, Ours, vars, hostVars, commandVars,
     historyVars
<1> QED
  BY <1>1, <1>2, <1>3, <1>4, <1>5, <1>6, <1>7, <1>8, <1>9, <1>10, <1>11, <1>12,
     <1>13, <1>14, <1>15, <1>15a, <1>16, <1>17, <1>18, <1>19, <1>20, <1>21, <1>22,
     <1>23, <1>24, <1>25, <1>26, <1>27
     DEF Next, Works, Fails, Admin, Install, Devices, Uninstall

-----------------------------------------------------------------------------
IInv == TypeOK /\ MemHolds /\ TodoFits /\ DoneIsThere /\ Tracked /\ Truthful /\ UsbKnown

LEMMA InitIInv == Init => IInv
<1> SUFFICES ASSUME Init PROVE IInv
  OBVIOUS
<1>1. TypeOK
  BY InitTypeOK
<1>2. MemHolds /\ TodoFits /\ DoneIsThere
  BY DEF Init, MemHolds, TodoFits, DoneIsThere, NoState
<1>3. Tracked /\ Truthful
  BY DEF Init, Tracked, Truthful, Unrecorded, Dangling, Ours, NoState
<1>4. UsbKnown
  BY DEF Init, UsbKnown, NoState
<1> QED
  BY <1>1, <1>2, <1>3, <1>4 DEF IInv

LEMMA StepIInv == IInv /\ [Next]_vars => IInv'
  BY StepTypeOK, StepMemHolds, StepTodoFits, StepDoneIsThere, StepTracked,
     StepTruthful, StepUsbKnown DEF IInv

LEMMA Invariance == Spec => []IInv
  BY InitIInv, StepIInv, PTL DEF Spec

\* The installer's state is always well formed.
THEOREM TypeCorrect == Spec => []TypeOK
<1>1. IInv => TypeOK
  BY DEF IInv
<1> QED
  BY <1>1, Invariance, PTL

\* Whatever commands run and wherever they are cut off, uninstall finds what the
\* project has put on the host, but for what the history variable left names.
THEOREM NothingIsForgotten == Spec => []NothingForgotten
<1>1. IInv => NothingForgotten
  BY DEF IInv, Tracked, NothingForgotten
<1> QED
  BY <1>1, Invariance, PTL

\* What state.yaml lists is on the host, but for what loose names.
THEOREM RecordsAreTrue == Spec => []RecordIsTrue
<1>1. IInv => RecordIsTrue
  BY DEF IInv, Truthful, RecordIsTrue
<1> QED
  BY <1>1, Invariance, PTL

\* A unit that install refuses is an administrator's, or an interrupted command
\* has left it.
THEOREM RefusalsHaveCause == Spec => []RefusalHasCause
<1>1. ASSUME IInv, pc = "units", NEW i \in UnitItems, NextUnit(i), Refused(i)
      PROVE  file[i] = "theirs" \/ i \in left
  <2>1. i \in Items /\ i[1] = "unit" /\ i \in todo
    BY <1>1, ItemsOfWholes DEF NextUnit
  <2>2. Unrecorded(mem) \subseteq left \cup Pending /\ i \notin Pending
    BY <1>1, <2>1 DEF IInv, MemHolds, Tracked, Pending, TypeOK
  <2>3. file[i] = "theirs" \/ i \in Unrecorded(mem)
    BY <1>1, <2>1 DEF Refused, Unrecorded, Ours
  <2> QED
    BY <2>2, <2>3
<1>2. IInv => RefusalHasCause
  BY <1>1 DEF RefusalHasCause
<1> QED
  BY <1>2, Invariance, PTL

\* Until a command is interrupted before it saves, or the service is disabled
\* twice, the first state of ipp-usb can be restored.
THEOREM UsbIsRestorable == Spec => []UsbRestorable
<1>1. IInv => UsbRestorable
  BY DEF IInv, TypeOK, UsbKnown, UsbRestorable
<1> QED
  BY <1>1, Invariance, PTL

\* While units are installed or an uninstall removes, a file changes only so.
LEMMA FileSteps ==
  ASSUME IInv, [Next]_vars, pc \in {"units", "remove"}
  PROVE  UNCHANGED file \/ \E i \in Items : WriteUnit(i) \/ RemoveItem(i)
  BY DEF Next, Works, Fails, Admin, Install, Devices, Uninstall, vars, Deploy,
     RemoveRuntime, AdminPlaces, AdminRemoves, BeginInstall, BuildPart, SkipEscpos,
     BuildEscpos, Built, BeginDriver, ReplacePart, ReloadCups, BeginAdd, CreateQueue,
     AdoptQueue, BeginDisable, DisableUsb, BeginUninstall, Removed, RestoreUsb, Finish, Save, End,
     DisableFails, RestoreFails, Begin, Aborts, hostVars

\* Neither install nor uninstall touches what is an administrator's, unless the
\* record of it was out of date.
THEOREM ForeignFilesAreKept == Spec => ForeignFilesStay
<1>1. ASSUME IInv, [Next]_vars
      PROVE  [\A i \in Items : file[i] = "theirs" /\ pc \in {"units", "remove"} =>
                file'[i] = "theirs" \/ i \in loose]_vars
  <2> SUFFICES ASSUME NEW i \in Items, file[i] = "theirs", pc \in {"units", "remove"},
                      file'[i] # "theirs"
               PROVE  i \in loose
    OBVIOUS
  <2>1. WriteUnit(i) \/ RemoveItem(i)
    BY <1>1, FileSteps DEF IInv, TypeOK, WriteUnit, RemoveItem
  <2>2. CASE WriteUnit(i)
    <3>1. "unit" \in mem.owns /\ i[1] = "unit" /\ i \in todo /\ pc = "units"
      BY <1>1, <2>2, NamesAssumption
         DEF WriteUnit, NextUnit, Refused, IInv, MemHolds, TodoFits
    <3> QED
      BY <1>1, <3>1 DEF IInv, TypeOK, MemHolds, Truthful, Dangling, Gone, Ours
  <2>3. CASE RemoveItem(i)
    <3>1. i[1] \in saved.owns /\ i[1] \in mem.owns /\ i \in todo /\ pc = "remove"
      BY <1>1, <2>3 DEF RemoveItem, IInv, MemHolds, TodoFits
    <3> QED
      BY <1>1, <3>1 DEF IInv, TypeOK, Truthful, Dangling, Gone, Ours
  <2> QED
    BY <2>1, <2>2, <2>3
<1> QED
  BY <1>1, Invariance, PTL DEF Spec, ForeignFilesStay

\* A dry run of uninstall changes nothing but the files of recorded drivers.
THEOREM DryRunsTouchDrivers == Spec => DryRunTouchesDriversOnly
<1>1. ASSUME IInv, [Next]_vars
      PROVE  [dry = "yes" =>
                /\ UNCHANGED <<usb, saved>>
                /\ \A i \in Items : file'[i] # file[i] =>
                     i[1] \in saved.owns \cap Drivers]_vars
  <2> SUFFICES ASSUME dry = "yes"
               PROVE  /\ UNCHANGED <<usb, saved>>
                      /\ \A i \in Items : file'[i] # file[i] =>
                           i[1] \in saved.owns \cap Drivers
    OBVIOUS
  <2>1. pc \in {"remove", "restore", "finish"}
    BY <1>1 DEF IInv, MemHolds
  <2>2. UNCHANGED <<usb, saved>>
    BY <1>1, <2>1 DEF Next, Works, Fails, Admin, Install, Devices, Uninstall, vars,
       Deploy, RemoveRuntime, AdminPlaces, AdminRemoves, BeginInstall, WriteUnit,
       BuildPart, SkipEscpos, BuildEscpos, Built, BeginDriver, ReplacePart, ReloadCups,
       BeginAdd, CreateQueue, AdoptQueue, BeginDisable, DisableUsb, BeginUninstall,
       RemoveItem,
       Removed, RestoreUsb, Finish, Save, End, DisableFails, RestoreFails, Begin,
       Aborts, hostVars
  <2>3. UNCHANGED file \/ (pc = "remove" /\ \E j \in Items : RemoveItem(j))
    BY <1>1, <2>1 DEF Next, Works, Fails, Admin, Install, Devices, Uninstall, vars,
       Deploy, RemoveRuntime, AdminPlaces, AdminRemoves, BeginInstall, WriteUnit,
       BuildPart, SkipEscpos, BuildEscpos, Built, BeginDriver, ReplacePart, ReloadCups,
       BeginAdd, CreateQueue, AdoptQueue, BeginDisable, DisableUsb, BeginUninstall,
       RemoveItem,
       Removed, RestoreUsb, Finish, Save, End, DisableFails, RestoreFails, Begin,
       Aborts, hostVars
  <2>4. ASSUME pc = "remove", NEW j \in Items, RemoveItem(j), NEW i \in Items,
               file'[i] # file[i]
        PROVE  i[1] \in saved.owns \cap Drivers
    <3>1. i = j /\ i \in todo
      BY <1>1, <2>4 DEF RemoveItem, IInv, TypeOK
    <3> QED
      BY <1>1, <2>4, <3>1 DEF IInv, TodoFits
  <2> QED
    BY <2>2, <2>3, <2>4
<1> QED
  BY <1>1, Invariance, PTL DEF Spec, DryRunTouchesDriversOnly

-----------------------------------------------------------------------------
(* A complete uninstall.                                                   *)

\* Past the removals, the State lists what was not to be removed.
Struck == pc \in {"restore", "finish"} => mem.owns = saved.owns \ goal

LEMMA StepStruck == IInv /\ Struck /\ [Next]_vars => Struck'
<1> SUFFICES ASSUME IInv, Struck, [Next]_vars PROVE Struck'
  OBVIOUS
<1>1. CASE Removed
  <2>1. pc = "remove" /\ pc' = "restore" /\ mem'.owns = mem.owns \ goal
        /\ UNCHANGED <<saved, goal>>
    BY <1>1 DEF Removed, Goto, IInv, TypeOK, Records
  <2>2. mem.owns = saved.owns
    BY <1>1 DEF Removed, IInv, MemHolds
  <2> QED
    BY <2>1, <2>2 DEF Struck
<1>2. CASE RestoreUsb
  <2>1. pc = "restore" /\ mem'.owns = mem.owns /\ UNCHANGED <<saved, goal>>
    BY <1>2 DEF RestoreUsb, IInv, TypeOK, Records
  <2> QED
    BY <2>1 DEF Struck
<1>3. CASE ~Removed /\ ~RestoreUsb
  <2>1. pc' \in {"restore", "finish"} => UNCHANGED <<pc, mem, saved, goal>>
    BY <1>3 DEF Next, Works, Fails, Admin, Install, Devices, Uninstall, vars,
       Deploy, RemoveRuntime, AdminPlaces, AdminRemoves, BeginInstall, WriteUnit,
       BuildPart, SkipEscpos, BuildEscpos, Built, BeginDriver, ReplacePart, ReloadCups,
       BeginAdd, CreateQueue, AdoptQueue, BeginDisable, DisableUsb, BeginUninstall,
       RemoveItem,
       Finish, Save, End, DisableFails, RestoreFails, Begin, Aborts, Idle, Goto,
       commandVars
  <2> QED
    BY <2>1 DEF Struck
<1> QED
  BY <1>1, <1>2, <1>3

\* When an uninstall that was to remove all that is recorded is about to save or
\* remove the record, nothing of the project's own is on the host but what the
\* history variable left names, and ipp-usb is as the first command found it
\* unless the record of that was spoiled.
HostIsAsFound ==
  pc = "finish" /\ dry = "no" /\ goal = saved.owns =>
    /\ \A i \in Items : Ours(i) => i \in left
    /\ spoiled = "no" => usb = usb0

THEOREM UninstallIsComplete == Spec => []HostIsAsFound
<1>1. Init => Struck
  BY DEF Init, Struck
<1>2. ASSUME IInv, Struck PROVE HostIsAsFound
  <2> SUFFICES ASSUME pc = "finish", dry = "no", goal = saved.owns
               PROVE  /\ \A i \in Items : Ours(i) => i \in left
                      /\ spoiled = "no" => usb = usb0
    BY DEF HostIsAsFound
  <2>1. mem.owns = {}
    BY <1>2 DEF Struck
  <2>2. Unrecorded(mem) \subseteq left /\ Pending = {}
    BY <1>2 DEF IInv, Tracked, Pending
  <2>3. \A i \in Items : Ours(i) => i \in left
    BY <2>1, <2>2 DEF Unrecorded
  <2>4. spoiled = "no" => usb = usb0
    BY <1>2 DEF IInv, UsbKnown
  <2> QED
    BY <2>3, <2>4
<1> QED
  BY <1>1, <1>2, StepStruck, Invariance, PTL DEF Spec

=============================================================================
