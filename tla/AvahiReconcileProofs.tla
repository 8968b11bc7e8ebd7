----------------------- MODULE AvahiReconcileProofs -----------------------
(***************************************************************************)
(* Proofs of the invariants of AvahiReconcile, for any sets of queues,     *)
(* addresses, titles and administrators' lines, and any labels.            *)
(*                                                                         *)
(* IInv says, besides the types, what a command has done at each of its    *)
(* steps (Walk), whose the files are (Owned), and that the last request    *)
(* that passed the checks could pass them again (Repeatable).              *)
(***************************************************************************)
EXTENDS AvahiReconcile, TLAPS

\* What a request, as `last' holds it, publishes.
PublishedBy(r) == IF r.removing = "yes" THEN {} ELSE Shown(r.printers)

Request0 == [printers |-> want, removing |-> removing]

\* Until its restart of avahi-daemon a command knows the list of the state.
Knows == pc \in {"ready", "check", "hosts", "write", "unlink"} => known = tracked

\* What has been written, when.
WroteInv ==
  /\ pc \in {"off", "ready", "check", "hosts", "done"} => wrote = {}
  /\ pc \in {"write", "unlink"} => wrote \subseteq Published \cup {HostsFile}

\* Only what is published is written.
Writes == pc = "write" => todo \subseteq Published

\* Up to which file the command has come.
Walk ==
  /\ pc = "write" => \A q \in Published \ todo : files[q] = Document(want, q)
  /\ pc = "unlink" =>
       /\ todo \subseteq known \ Published
       /\ \A q \in (known \ Published) \ todo : files[q] = NoFile
  /\ pc \in {"unlink", "save", "done"} =>
       \A q \in Published : files[q] = Document(want, q)
  /\ pc \in {"write", "unlink"} => block = Mappings(want, Published)

\* What the command is going to save, or has saved, covers what there is.
Covered ==
  /\ pc \in {"save", "done"} =>
       /\ known = Published
       /\ \A q \in Queues \ Published : files[q] # NoFile => q \in left
       /\ block = Mappings(want, Published) \/ (Published = {} /\ HostsFile \in left)
  /\ pc = "done" => tracked = known

\* The last request that passed the checks would pass them again.
Repeatable ==
  /\ \A q \in PublishedBy(last) :
       files[q] # NoFile /\ q \notin tracked => files[q] = Document(last.printers, q)
  /\ pc \in {"hosts", "write", "unlink"} => last = Request0
  /\ pc = "save" => last = Request0 \/ known = tracked

HostsInv == pc = "hosts" => read = meant \/ raced = "yes"

-----------------------------------------------------------------------------
LEMMA DocumentType ==
  ASSUME NEW m \in AllPrinters, NEW q \in Shown(m)
  PROVE  Document(m, q) \in Documents
<1>1. q \in Queues /\ m[q] \in Endpoints
  BY DEF Shown, AllPrinters
<1>2. Hostname(m, q) \in Hosts
  BY <1>1 DEF Hostname, Hosts
<1>3. ServiceName(m, q) \in ServiceNames
  BY <1>1 DEF ServiceName, ServiceNames, Endpoints
<1> QED BY <1>2, <1>3 DEF Document, Documents

LEMMA MappingsType ==
  ASSUME NEW m \in AllPrinters, NEW Q \in SUBSET Shown(m)
  PROVE  Mappings(m, Q) \in Blocks
<1> SUFFICES ASSUME NEW q \in Q
             PROVE  [address |-> m[q].address, host |-> Hostname(m, q)]
                      \in [address : Addresses, host : Hosts]
  BY DEF Mappings, Blocks
<1>1. q \in Queues /\ m[q] \in Endpoints
  BY DEF Shown, AllPrinters
<1>2. m[q].address \in Addresses
  BY <1>1 DEF Endpoints
<1>3. Hostname(m, q) \in Hosts
  BY <1>1 DEF Hostname, Hosts
<1> QED BY <1>2, <1>3

LEMMA PublishedShown == Published \subseteq Shown(want) /\ Published \subseteq Queues
BY DEF Published, Shown

LEMMA InitTypeOK == Init => TypeOK
<1> SUFFICES ASSUME Init PROVE TypeOK
  OBVIOUS
<1>1. Nobody \in AllPrinters
  BY DEF Nobody, AllPrinters
<1>2. NoFiles \in FileMaps
  BY DEF NoFiles, FileMaps
<1>3. {} \in Blocks
  BY DEF Blocks
<1> QED BY <1>1, <1>2, <1>3 DEF Init, TypeOK

LEMMA StepTypeOK == TypeOK /\ Writes /\ [Next]_vars => TypeOK'
<1> SUFFICES ASSUME TypeOK, Writes, [Next]_vars PROVE TypeOK'
  OBVIOUS
<1>p. Published \subseteq Shown(want) /\ Published \subseteq Queues
  BY PublishedShown
<1>0. Nobody \in AllPrinters /\ NoFiles \in FileMaps /\ {} \in Blocks /\ OnDisk \in [files : FileMaps, block : Blocks]
  BY DEF Nobody, AllPrinters, NoFiles, FileMaps, Blocks, OnDisk, TypeOK
<1>e. ASSUME Ends, UNCHANGED announced PROVE TypeOK'
  BY <1>e, <1>0 DEF TypeOK, Ends, stateVars, diskVars
<1>1. CASE Load
  BY <1>1 DEF TypeOK, Load, stateVars, diskVars, historyVars
<1>2. CASE End
  BY <1>2, <1>e DEF End
<1>3. CASE RequestUninstall
  BY <1>3 DEF TypeOK, RequestUninstall, stateVars, diskVars, historyVars
<1>4. CASE Skip
  BY <1>4 DEF TypeOK, Skip, stateVars, diskVars, historyVars
<1>5. CASE Check
  BY <1>5 DEF TypeOK, Check, stateVars, diskVars
<1>6. CASE WriteHosts
  <2>1. Mappings(want, Published) \in Blocks
    BY <1>p, MappingsType DEF TypeOK
  <2> QED BY <1>6, <1>p, <2>1 DEF TypeOK, WriteHosts, Rendered, stateVars, diskVars, historyVars
<1>7. CASE Written
  BY <1>7 DEF TypeOK, Written, stateVars, diskVars, historyVars
<1>8. CASE Restart
  BY <1>8, <1>0, <1>p DEF TypeOK, Restart, Tracked, stateVars, diskVars
<1>9. CASE RestartFails
  <2>1. announced' \in [files : FileMaps, block : Blocks]
    BY <1>9, <1>0 DEF RestartFails, TypeOK
  <2> QED BY <1>9, <2>1, <1>0 DEF TypeOK, Ends, RestartFails, stateVars, diskVars
<1>10. CASE Save
  BY <1>10, <1>0 DEF TypeOK, Save, diskVars
<1>11. ASSUME NEW q \in Queues, NEW e \in Endpoints \cup {NotShown}, Request(q, e)
       PROVE  TypeOK'
  <2>1. want' \in AllPrinters
    BY <1>11 DEF TypeOK, Request, AllPrinters
  <2> QED BY <1>11, <2>1 DEF TypeOK, Request, stateVars, diskVars, historyVars
<1>12. ASSUME NEW q \in Queues, WriteFile(q) PROVE TypeOK'
  <2>1. Document(want, q) \in Documents
    BY <1>12, <1>p, DocumentType DEF TypeOK, Writes, WriteFile
  <2>2. files' \in FileMaps
    BY <1>12, <2>1 DEF TypeOK, WriteFile, FileMaps, Content
  <2> QED BY <1>12, <2>2 DEF TypeOK, WriteFile, ChangedBy, stateVars, historyVars
<1>13. ASSUME NEW q \in Queues, RemoveFile(q) PROVE TypeOK'
  <2>1. files' \in FileMaps
    BY <1>13 DEF TypeOK, RemoveFile, FileMaps
  <2> QED BY <1>13, <2>1 DEF TypeOK, RemoveFile, stateVars
<1>14. CASE AdminEdits
  BY <1>14 DEF TypeOK, AdminEdits, stateVars, commandVars
<1>15. CASE DaemonReloads
  BY <1>15, <1>0 DEF TypeOK, DaemonReloads, stateVars, diskVars, commandVars
<1>16. CASE UNCHANGED vars
  BY <1>16 DEF TypeOK, vars, stateVars, diskVars, commandVars, historyVars
<1> QED
  BY <1>1, <1>2, <1>3, <1>4, <1>5, <1>6, <1>7, <1>8, <1>9, <1>10, <1>11, <1>12, <1>13,
     <1>14, <1>15, <1>16 DEF Next, Command

LEMMA StepWrites == TypeOK /\ Writes /\ [Next]_vars => Writes'
<1> SUFFICES ASSUME TypeOK, Writes, [Next]_vars PROVE Writes'
  OBVIOUS
<1>1. CASE Load
  BY <1>1 DEF Writes, Published, Load, stateVars, diskVars, historyVars
<1>2. CASE End
  BY <1>2 DEF Writes, Published, End, Ends, stateVars, diskVars, historyVars
<1>3. CASE RequestUninstall
  BY <1>3 DEF Writes, Published, RequestUninstall, stateVars, diskVars, historyVars
<1>4. CASE Skip
  BY <1>4 DEF Writes, Published, Skip, stateVars, diskVars, historyVars
<1>5. CASE Check
  BY <1>5 DEF Writes, Published, Check, stateVars, diskVars, historyVars
<1>6. CASE WriteHosts
  BY <1>6 DEF Writes, Published, WriteHosts, stateVars, diskVars, historyVars
<1>7. CASE Written
  BY <1>7 DEF Writes, Published, Written, stateVars, diskVars, historyVars
<1>8. CASE Restart
  BY <1>8 DEF Writes, Published, Restart, stateVars, diskVars, historyVars
<1>9. CASE RestartFails
  BY <1>9 DEF Writes, Published, RestartFails, Ends, stateVars, diskVars, historyVars
<1>10. CASE Save
  BY <1>10 DEF Writes, Published, Save, stateVars, diskVars, historyVars
<1>11. ASSUME NEW q \in Queues, NEW e \in Endpoints \cup {NotShown}, Request(q, e)
       PROVE  Writes'
  BY <1>11 DEF Writes, Published, Request, stateVars, diskVars, historyVars
<1>12. ASSUME NEW q \in Queues, WriteFile(q) PROVE Writes'
  BY <1>12 DEF Writes, Published, WriteFile, stateVars, historyVars
<1>13. ASSUME NEW q \in Queues, RemoveFile(q) PROVE Writes'
  BY <1>13 DEF Writes, Published, RemoveFile, stateVars, historyVars
<1>14. CASE AdminEdits
  BY <1>14 DEF Writes, Published, AdminEdits, stateVars, diskVars, commandVars
<1>15. CASE DaemonReloads
  BY <1>15 DEF Writes, Published, DaemonReloads, stateVars, diskVars, commandVars
<1>16. CASE UNCHANGED vars
  BY <1>16 DEF Writes, Published, vars, stateVars, diskVars, commandVars, historyVars
<1> QED
  BY <1>1, <1>2, <1>3, <1>4, <1>5, <1>6, <1>7, <1>8, <1>9, <1>10, <1>11, <1>12, <1>13,
     <1>14, <1>15, <1>16 DEF Next, Command

LEMMA StepKnows == TypeOK /\ Knows /\ [Next]_vars => Knows'
<1> SUFFICES ASSUME TypeOK, Knows, [Next]_vars PROVE Knows'
  OBVIOUS
<1>1. CASE Load
  BY <1>1 DEF Knows, Load, stateVars, diskVars, historyVars
<1>2. CASE End
  BY <1>2 DEF Knows, End, Ends, stateVars, diskVars, historyVars
<1>3. CASE RequestUninstall
  BY <1>3 DEF Knows, RequestUninstall, stateVars, diskVars, historyVars
<1>4. CASE Skip
  BY <1>4 DEF Knows, Skip, stateVars, diskVars, historyVars
<1>5. CASE Check
  BY <1>5 DEF Knows, Check, stateVars, diskVars, historyVars
<1>6. CASE WriteHosts
  BY <1>6 DEF Knows, WriteHosts, stateVars, diskVars, historyVars
<1>7. CASE Written
  BY <1>7 DEF Knows, Written, stateVars, diskVars, historyVars
<1>8. CASE Restart
  BY <1>8 DEF Knows, Restart, stateVars, diskVars, historyVars
<1>9. CASE RestartFails
  BY <1>9 DEF Knows, RestartFails, Ends, stateVars, diskVars, historyVars
<1>10. CASE Save
  BY <1>10 DEF Knows, Save, stateVars, diskVars, historyVars
<1>11. ASSUME NEW q \in Queues, NEW e \in Endpoints \cup {NotShown}, Request(q, e)
       PROVE  Knows'
  BY <1>11 DEF Knows, Request, stateVars, diskVars, historyVars
<1>12. ASSUME NEW q \in Queues, WriteFile(q) PROVE Knows'
  BY <1>12 DEF Knows, WriteFile, stateVars, historyVars
<1>13. ASSUME NEW q \in Queues, RemoveFile(q) PROVE Knows'
  BY <1>13 DEF Knows, RemoveFile, stateVars, historyVars
<1>14. CASE AdminEdits
  BY <1>14 DEF Knows, AdminEdits, stateVars, diskVars, commandVars
<1>15. CASE DaemonReloads
  BY <1>15 DEF Knows, DaemonReloads, stateVars, diskVars, commandVars
<1>16. CASE UNCHANGED vars
  BY <1>16 DEF Knows, vars, stateVars, diskVars, commandVars, historyVars
<1> QED
  BY <1>1, <1>2, <1>3, <1>4, <1>5, <1>6, <1>7, <1>8, <1>9, <1>10, <1>11, <1>12, <1>13,
     <1>14, <1>15, <1>16 DEF Next, Command

LEMMA StepWrote == TypeOK /\ Writes /\ WroteInv /\ [Next]_vars => WroteInv'
<1> SUFFICES ASSUME TypeOK, Writes, WroteInv, [Next]_vars PROVE WroteInv'
  OBVIOUS
<1>1. CASE Load
  BY <1>1 DEF WroteInv, Writes, Published, Load, stateVars, diskVars, historyVars
<1>2. CASE End
  BY <1>2 DEF WroteInv, Writes, Published, End, Ends, stateVars, diskVars, historyVars
<1>3. CASE RequestUninstall
  BY <1>3 DEF WroteInv, Writes, Published, RequestUninstall, stateVars, diskVars, historyVars
<1>4. CASE Skip
  BY <1>4 DEF WroteInv, Writes, Published, Skip, stateVars, diskVars, historyVars
<1>5. CASE Check
  BY <1>5 DEF WroteInv, Writes, Published, Check, stateVars, diskVars, historyVars
<1>6. CASE WriteHosts
  BY <1>6 DEF WroteInv, Writes, Published, WriteHosts, stateVars, diskVars, historyVars, HostsFile
<1>7. CASE Written
  BY <1>7 DEF WroteInv, Writes, Published, Written, stateVars, diskVars, historyVars
<1>8. CASE Restart
  BY <1>8 DEF WroteInv, Writes, Published, Restart, stateVars, diskVars, historyVars
<1>9. CASE RestartFails
  BY <1>9 DEF WroteInv, Writes, Published, RestartFails, Ends, stateVars, diskVars, historyVars
<1>10. CASE Save
  BY <1>10 DEF WroteInv, Writes, Published, Save, stateVars, diskVars, historyVars
<1>11. ASSUME NEW q \in Queues, NEW e \in Endpoints \cup {NotShown}, Request(q, e)
       PROVE  WroteInv'
  BY <1>11 DEF WroteInv, Writes, Published, Request, stateVars, diskVars, historyVars
<1>12. ASSUME NEW q \in Queues, WriteFile(q) PROVE WroteInv'
  BY <1>12 DEF WroteInv, Writes, Published, WriteFile, stateVars, historyVars
<1>13. ASSUME NEW q \in Queues, RemoveFile(q) PROVE WroteInv'
  BY <1>13 DEF WroteInv, Writes, Published, RemoveFile, stateVars, historyVars
<1>14. CASE AdminEdits
  BY <1>14 DEF WroteInv, Writes, Published, AdminEdits, stateVars, diskVars, commandVars
<1>15. CASE DaemonReloads
  BY <1>15 DEF WroteInv, Writes, Published, DaemonReloads, stateVars, diskVars, commandVars
<1>16. CASE UNCHANGED vars
  BY <1>16 DEF WroteInv, Writes, Published, vars, stateVars, diskVars, commandVars, historyVars
<1> QED
  BY <1>1, <1>2, <1>3, <1>4, <1>5, <1>6, <1>7, <1>8, <1>9, <1>10, <1>11, <1>12, <1>13,
     <1>14, <1>15, <1>16 DEF Next, Command

LEMMA StepWalk == TypeOK /\ Writes /\ Walk /\ [Next]_vars => Walk'
<1> SUFFICES ASSUME TypeOK, Writes, Walk, [Next]_vars PROVE Walk'
  OBVIOUS
<1>p. Published \subseteq Queues
  BY PublishedShown
<1>1. CASE Load
  BY <1>1, <1>p DEF Walk, Published, Load, stateVars, diskVars, historyVars
<1>2. CASE End
  BY <1>2, <1>p DEF Walk, Published, End, Ends, stateVars, diskVars, historyVars
<1>3. CASE RequestUninstall
  BY <1>3, <1>p DEF Walk, Published, RequestUninstall, stateVars, diskVars, historyVars
<1>4. CASE Skip
  BY <1>4, <1>p DEF Walk, Published, Skip, stateVars, diskVars, historyVars
<1>5. CASE Check
  BY <1>5, <1>p DEF Walk, Published, Check, stateVars, diskVars, historyVars
<1>6. CASE WriteHosts
  BY <1>6, <1>p DEF Walk, Published, WriteHosts, stateVars, diskVars, historyVars
<1>7. CASE Written
  BY <1>7, <1>p DEF Walk, Published, Written, stateVars, diskVars, historyVars
<1>8. CASE Restart
  BY <1>8, <1>p DEF Walk, Published, Restart, stateVars, diskVars, historyVars
<1>9. CASE RestartFails
  BY <1>9, <1>p DEF Walk, Published, RestartFails, Ends, stateVars, diskVars, historyVars
<1>10. CASE Save
  BY <1>10, <1>p DEF Walk, Published, Save, stateVars, diskVars, historyVars
<1>11. ASSUME NEW q \in Queues, NEW e \in Endpoints \cup {NotShown}, Request(q, e)
       PROVE  Walk'
  BY <1>11, <1>p DEF Walk, Published, Request, stateVars, diskVars, historyVars
<1>12. ASSUME NEW q \in Queues, WriteFile(q) PROVE Walk'
  BY <1>12, <1>p DEF Walk, Published, WriteFile, stateVars, historyVars, Content, TypeOK, FileMaps, Writes
<1>13. ASSUME NEW q \in Queues, RemoveFile(q) PROVE Walk'
  BY <1>13, <1>p DEF Walk, Published, RemoveFile, stateVars, historyVars, TypeOK, FileMaps
<1>14. CASE AdminEdits
  BY <1>14, <1>p DEF Walk, Published, AdminEdits, stateVars, diskVars, commandVars
<1>15. CASE DaemonReloads
  BY <1>15, <1>p DEF Walk, Published, DaemonReloads, stateVars, diskVars, commandVars
<1>16. CASE UNCHANGED vars
  BY <1>16, <1>p DEF Walk, Published, vars, stateVars, diskVars, commandVars, historyVars
<1> QED
  BY <1>1, <1>2, <1>3, <1>4, <1>5, <1>6, <1>7, <1>8, <1>9, <1>10, <1>11, <1>12, <1>13,
     <1>14, <1>15, <1>16 DEF Next, Command

LEMMA StepHosts == TypeOK /\ HostsInv /\ AdminLinesKept /\ [Next]_vars => HostsInv'
<1> SUFFICES ASSUME TypeOK, HostsInv, AdminLinesKept, [Next]_vars PROVE HostsInv'
  OBVIOUS
<1>1. CASE Load
  BY <1>1 DEF HostsInv, AdminLinesKept, Load, stateVars, diskVars, historyVars
<1>2. CASE End
  BY <1>2 DEF HostsInv, AdminLinesKept, End, Ends, stateVars, diskVars, historyVars
<1>3. CASE RequestUninstall
  BY <1>3 DEF HostsInv, AdminLinesKept, RequestUninstall, stateVars, diskVars, historyVars
<1>4. CASE Skip
  BY <1>4 DEF HostsInv, AdminLinesKept, Skip, stateVars, diskVars, historyVars
<1>5. CASE Check
  BY <1>5 DEF HostsInv, AdminLinesKept, Check, stateVars, diskVars, historyVars
<1>6. CASE WriteHosts
  BY <1>6 DEF HostsInv, AdminLinesKept, WriteHosts, stateVars, diskVars, historyVars
<1>7. CASE Written
  BY <1>7 DEF HostsInv, AdminLinesKept, Written, stateVars, diskVars, historyVars
<1>8. CASE Restart
  BY <1>8 DEF HostsInv, AdminLinesKept, Restart, stateVars, diskVars, historyVars
<1>9. CASE RestartFails
  BY <1>9 DEF HostsInv, AdminLinesKept, RestartFails, Ends, stateVars, diskVars, historyVars
<1>10. CASE Save
  BY <1>10 DEF HostsInv, AdminLinesKept, Save, stateVars, diskVars, historyVars
<1>11. ASSUME NEW q \in Queues, NEW e \in Endpoints \cup {NotShown}, Request(q, e)
       PROVE  HostsInv'
  BY <1>11 DEF HostsInv, AdminLinesKept, Request, stateVars, diskVars, historyVars
<1>12. ASSUME NEW q \in Queues, WriteFile(q) PROVE HostsInv'
  BY <1>12 DEF HostsInv, AdminLinesKept, WriteFile, stateVars, historyVars
<1>13. ASSUME NEW q \in Queues, RemoveFile(q) PROVE HostsInv'
  BY <1>13 DEF HostsInv, AdminLinesKept, RemoveFile, stateVars, historyVars
<1>14. CASE AdminEdits
  BY <1>14 DEF HostsInv, AdminLinesKept, AdminEdits, stateVars, diskVars, commandVars
<1>15. CASE DaemonReloads
  BY <1>15 DEF HostsInv, AdminLinesKept, DaemonReloads, stateVars, diskVars, commandVars
<1>16. CASE UNCHANGED vars
  BY <1>16 DEF HostsInv, AdminLinesKept, vars, stateVars, diskVars, commandVars, historyVars
<1> QED
  BY <1>1, <1>2, <1>3, <1>4, <1>5, <1>6, <1>7, <1>8, <1>9, <1>10, <1>11, <1>12, <1>13,
     <1>14, <1>15, <1>16 DEF Next, Command

LEMMA StepLines == TypeOK /\ HostsInv /\ AdminLinesKept /\ [Next]_vars => AdminLinesKept'
<1> SUFFICES ASSUME TypeOK, HostsInv, AdminLinesKept, [Next]_vars PROVE AdminLinesKept'
  OBVIOUS
<1>1. CASE Load
  BY <1>1 DEF HostsInv, AdminLinesKept, Load, stateVars, diskVars, historyVars
<1>2. CASE End
  BY <1>2 DEF HostsInv, AdminLinesKept, End, Ends, stateVars, diskVars, historyVars
<1>3. CASE RequestUninstall
  BY <1>3 DEF HostsInv, AdminLinesKept, RequestUninstall, stateVars, diskVars, historyVars
<1>4. CASE Skip
  BY <1>4 DEF HostsInv, AdminLinesKept, Skip, stateVars, diskVars, historyVars
<1>5. CASE Check
  BY <1>5 DEF HostsInv, AdminLinesKept, Check, stateVars, diskVars, historyVars
<1>6. CASE WriteHosts
  BY <1>6 DEF HostsInv, AdminLinesKept, WriteHosts, stateVars, diskVars, historyVars, Rendered
<1>7. CASE Written
  BY <1>7 DEF HostsInv, AdminLinesKept, Written, stateVars, diskVars, historyVars
<1>8. CASE Restart
  BY <1>8 DEF HostsInv, AdminLinesKept, Restart, stateVars, diskVars, historyVars
<1>9. CASE RestartFails
  BY <1>9 DEF HostsInv, AdminLinesKept, RestartFails, Ends, stateVars, diskVars, historyVars
<1>10. CASE Save
  BY <1>10 DEF HostsInv, AdminLinesKept, Save, stateVars, diskVars, historyVars
<1>11. ASSUME NEW q \in Queues, NEW e \in Endpoints \cup {NotShown}, Request(q, e)
       PROVE  AdminLinesKept'
  BY <1>11 DEF HostsInv, AdminLinesKept, Request, stateVars, diskVars, historyVars
<1>12. ASSUME NEW q \in Queues, WriteFile(q) PROVE AdminLinesKept'
  BY <1>12 DEF HostsInv, AdminLinesKept, WriteFile, stateVars, historyVars
<1>13. ASSUME NEW q \in Queues, RemoveFile(q) PROVE AdminLinesKept'
  BY <1>13 DEF HostsInv, AdminLinesKept, RemoveFile, stateVars, historyVars
<1>14. CASE AdminEdits
  BY <1>14 DEF HostsInv, AdminLinesKept, AdminEdits, stateVars, diskVars, commandVars
<1>15. CASE DaemonReloads
  BY <1>15 DEF HostsInv, AdminLinesKept, DaemonReloads, stateVars, diskVars, commandVars
<1>16. CASE UNCHANGED vars
  BY <1>16 DEF HostsInv, AdminLinesKept, vars, stateVars, diskVars, commandVars, historyVars
<1> QED
  BY <1>1, <1>2, <1>3, <1>4, <1>5, <1>6, <1>7, <1>8, <1>9, <1>10, <1>11, <1>12, <1>13,
     <1>14, <1>15, <1>16 DEF Next, Command

LEMMA StepAnnounced == TypeOK /\ AnnouncedIsOnDisk /\ [Next]_vars => AnnouncedIsOnDisk'
<1> SUFFICES ASSUME TypeOK, AnnouncedIsOnDisk, [Next]_vars PROVE AnnouncedIsOnDisk'
  OBVIOUS
<1>1. CASE Load
  BY <1>1 DEF AnnouncedIsOnDisk, OnDisk, Load, stateVars, diskVars, historyVars
<1>2. CASE End
  BY <1>2 DEF AnnouncedIsOnDisk, OnDisk, TypeOK, End, Ends, stateVars, diskVars, historyVars
<1>3. CASE RequestUninstall
  BY <1>3 DEF AnnouncedIsOnDisk, OnDisk, RequestUninstall, stateVars, diskVars, historyVars
<1>4. CASE Skip
  BY <1>4 DEF AnnouncedIsOnDisk, OnDisk, Skip, stateVars, diskVars, historyVars
<1>5. CASE Check
  BY <1>5 DEF AnnouncedIsOnDisk, OnDisk, Check, stateVars, diskVars, historyVars
<1>6. CASE WriteHosts
  BY <1>6 DEF AnnouncedIsOnDisk, OnDisk, WriteHosts, stateVars, diskVars, historyVars
<1>7. CASE Written
  BY <1>7 DEF AnnouncedIsOnDisk, OnDisk, Written, stateVars, diskVars, historyVars
<1>8. CASE Restart
  BY <1>8 DEF AnnouncedIsOnDisk, OnDisk, Restart, stateVars, diskVars, historyVars
<1>9. CASE RestartFails
  BY <1>9 DEF AnnouncedIsOnDisk, OnDisk, RestartFails, Ends, stateVars, diskVars, historyVars
<1>10. CASE Save
  BY <1>10 DEF AnnouncedIsOnDisk, OnDisk, Save, stateVars, diskVars, historyVars
<1>11. ASSUME NEW q \in Queues, NEW e \in Endpoints \cup {NotShown}, Request(q, e)
       PROVE  AnnouncedIsOnDisk'
  BY <1>11 DEF AnnouncedIsOnDisk, OnDisk, Request, stateVars, diskVars, historyVars
<1>12. ASSUME NEW q \in Queues, WriteFile(q) PROVE AnnouncedIsOnDisk'
  BY <1>12 DEF AnnouncedIsOnDisk, OnDisk, WriteFile, stateVars, historyVars, ChangedBy, TypeOK, FileMaps
<1>13. ASSUME NEW q \in Queues, RemoveFile(q) PROVE AnnouncedIsOnDisk'
  BY <1>13 DEF AnnouncedIsOnDisk, OnDisk, RemoveFile, stateVars, historyVars, TypeOK, FileMaps
<1>14. CASE AdminEdits
  BY <1>14 DEF AnnouncedIsOnDisk, OnDisk, AdminEdits, stateVars, diskVars, commandVars
<1>15. CASE DaemonReloads
  BY <1>15 DEF AnnouncedIsOnDisk, OnDisk, DaemonReloads, stateVars, diskVars, commandVars
<1>16. CASE UNCHANGED vars
  BY <1>16 DEF AnnouncedIsOnDisk, OnDisk, vars, stateVars, diskVars, commandVars, historyVars
<1> QED
  BY <1>1, <1>2, <1>3, <1>4, <1>5, <1>6, <1>7, <1>8, <1>9, <1>10, <1>11, <1>12, <1>13,
     <1>14, <1>15, <1>16 DEF Next, Command

LEMMA StepCovered == TypeOK /\ Knows /\ WroteInv /\ Walk /\ NothingUntracked /\ Covered /\ [Next]_vars => Covered'
<1> SUFFICES ASSUME TypeOK, Knows, WroteInv, Walk, NothingUntracked, Covered, [Next]_vars PROVE Covered'
  OBVIOUS
<1>p. Published \subseteq Queues /\ HostsFile \notin Queues
  BY PublishedShown, NamesAssumption DEF HostsFile
<1>1. CASE Load
  BY <1>1, <1>p DEF Covered, Published, Load, stateVars, diskVars, historyVars
<1>2. CASE End
  BY <1>2, <1>p DEF Covered, Published, End, Ends, stateVars, diskVars, historyVars
<1>3. CASE RequestUninstall
  BY <1>3, <1>p DEF Covered, Published, RequestUninstall, stateVars, diskVars, historyVars
<1>4. CASE Skip
  BY <1>4, <1>p DEF Covered, Published, Skip, stateVars, diskVars, historyVars, NothingUntracked, WroteInv, Knows, Mappings
<1>5. CASE Check
  BY <1>5, <1>p DEF Covered, Published, Check, stateVars, diskVars, historyVars
<1>6. CASE WriteHosts
  BY <1>6, <1>p DEF Covered, Published, WriteHosts, stateVars, diskVars, historyVars
<1>7. CASE Written
  BY <1>7, <1>p DEF Covered, Published, Written, stateVars, diskVars, historyVars
<1>8. CASE Restart
  BY <1>8, <1>p DEF Covered, Published, Restart, stateVars, diskVars, historyVars, NothingUntracked, WroteInv, Knows, Walk, Tracked
<1>9. CASE RestartFails
  BY <1>9, <1>p DEF Covered, Published, RestartFails, Ends, stateVars, diskVars, historyVars
<1>10. CASE Save
  BY <1>10, <1>p DEF Covered, Published, Save, stateVars, diskVars, historyVars, Mappings, TypeOK
<1>11. ASSUME NEW q \in Queues, NEW e \in Endpoints \cup {NotShown}, Request(q, e)
       PROVE  Covered'
  BY <1>11, <1>p DEF Covered, Published, Request, stateVars, diskVars, historyVars
<1>12. ASSUME NEW q \in Queues, WriteFile(q) PROVE Covered'
  BY <1>12, <1>p DEF Covered, Published, WriteFile, stateVars, historyVars
<1>13. ASSUME NEW q \in Queues, RemoveFile(q) PROVE Covered'
  BY <1>13, <1>p DEF Covered, Published, RemoveFile, stateVars, historyVars
<1>14. CASE AdminEdits
  BY <1>14, <1>p DEF Covered, Published, AdminEdits, stateVars, diskVars, commandVars
<1>15. CASE DaemonReloads
  BY <1>15, <1>p DEF Covered, Published, DaemonReloads, stateVars, diskVars, commandVars
<1>16. CASE UNCHANGED vars
  BY <1>16, <1>p DEF Covered, Published, vars, stateVars, diskVars, commandVars, historyVars
<1> QED
  BY <1>1, <1>2, <1>3, <1>4, <1>5, <1>6, <1>7, <1>8, <1>9, <1>10, <1>11, <1>12, <1>13,
     <1>14, <1>15, <1>16 DEF Next, Command

LEMMA StepUntracked == TypeOK /\ Writes /\ Knows /\ WroteInv /\ Walk /\ Covered /\ NothingUntracked /\ [Next]_vars => NothingUntracked'
<1> SUFFICES ASSUME TypeOK, Writes, Knows, WroteInv, Walk, Covered, NothingUntracked, [Next]_vars PROVE NothingUntracked'
  OBVIOUS
<1>p. Published \subseteq Queues /\ HostsFile \notin Queues
  BY PublishedShown, NamesAssumption DEF HostsFile
<1>1. CASE Load
  BY <1>1, <1>p DEF NothingUntracked, Load, stateVars, diskVars, historyVars
<1>2. CASE End
  BY <1>2, <1>p DEF NothingUntracked, End, Ends, stateVars, diskVars, historyVars
<1>3. CASE RequestUninstall
  BY <1>3, <1>p DEF NothingUntracked, RequestUninstall, stateVars, diskVars, historyVars
<1>4. CASE Skip
  BY <1>4, <1>p DEF NothingUntracked, Skip, stateVars, diskVars, historyVars
<1>5. CASE Check
  BY <1>5, <1>p DEF NothingUntracked, Check, stateVars, diskVars, historyVars
<1>6. CASE WriteHosts
  BY <1>6, <1>p DEF NothingUntracked, WriteHosts, stateVars, diskVars, historyVars
<1>7. CASE Written
  BY <1>7, <1>p DEF NothingUntracked, Written, stateVars, diskVars, historyVars
<1>8. CASE Restart
  BY <1>8, <1>p DEF NothingUntracked, Restart, stateVars, diskVars, historyVars
<1>9. CASE RestartFails
  BY <1>9, <1>p DEF NothingUntracked, RestartFails, Ends, stateVars, diskVars, historyVars
<1>10. CASE Save
  BY <1>10, <1>p DEF NothingUntracked, Save, stateVars, diskVars, historyVars, Covered, Published, Mappings, TypeOK
<1>11. ASSUME NEW q \in Queues, NEW e \in Endpoints \cup {NotShown}, Request(q, e)
       PROVE  NothingUntracked'
  BY <1>11, <1>p DEF NothingUntracked, Request, stateVars, diskVars, historyVars
<1>12. ASSUME NEW q \in Queues, WriteFile(q) PROVE NothingUntracked'
  BY <1>12, <1>p DEF NothingUntracked, WriteFile, stateVars, historyVars, TypeOK, FileMaps, Writes
<1>13. ASSUME NEW q \in Queues, RemoveFile(q) PROVE NothingUntracked'
  BY <1>13, <1>p DEF NothingUntracked, RemoveFile, stateVars, historyVars, TypeOK, FileMaps
<1>14. CASE AdminEdits
  BY <1>14, <1>p DEF NothingUntracked, AdminEdits, stateVars, diskVars, commandVars
<1>15. CASE DaemonReloads
  BY <1>15, <1>p DEF NothingUntracked, DaemonReloads, stateVars, diskVars, commandVars
<1>16. CASE UNCHANGED vars
  BY <1>16, <1>p DEF NothingUntracked, vars, stateVars, diskVars, commandVars, historyVars
<1> QED
  BY <1>1, <1>2, <1>3, <1>4, <1>5, <1>6, <1>7, <1>8, <1>9, <1>10, <1>11, <1>12, <1>13,
     <1>14, <1>15, <1>16 DEF Next, Command

LEMMA StepRepeatable ==
  TypeOK /\ Writes /\ Knows /\ Walk /\ Covered /\ Repeatable /\ [Next]_vars => Repeatable'
<1> SUFFICES ASSUME TypeOK, Writes, Knows, Walk, Covered, Repeatable, [Next]_vars
             PROVE  Repeatable'
  OBVIOUS
<1>p. Published \subseteq Queues /\ PublishedBy(last) \subseteq Queues
  BY PublishedShown DEF PublishedBy, Shown
<1>r. ASSUME last = Request0
      PROVE  PublishedBy(last) = Published /\ last.printers = want
  BY <1>r DEF PublishedBy, Request0, Published
<1>1. CASE Load
  BY <1>1, <1>p, <1>r DEF Repeatable, PublishedBy, Request0, Load, stateVars, diskVars, historyVars
<1>2. CASE End
  BY <1>2, <1>p, <1>r DEF Repeatable, PublishedBy, Request0, End, Ends, stateVars, diskVars, historyVars
<1>3. CASE RequestUninstall
  BY <1>3, <1>p, <1>r DEF Repeatable, PublishedBy, Request0, RequestUninstall, stateVars, diskVars, historyVars
<1>4. CASE Skip
  BY <1>4, <1>p, <1>r DEF Repeatable, PublishedBy, Request0, Skip, Knows, stateVars, diskVars, historyVars
<1>5. CASE Check
  BY <1>5, <1>p, <1>r DEF Repeatable, PublishedBy, Request0, Check, stateVars, diskVars, historyVars, Knows, Refuses, Content, Published
<1>6. CASE WriteHosts
  BY <1>6, <1>p, <1>r DEF Repeatable, PublishedBy, Request0, WriteHosts, stateVars, diskVars, historyVars
<1>7. CASE Written
  BY <1>7, <1>p, <1>r DEF Repeatable, PublishedBy, Request0, Written, stateVars, diskVars, historyVars
<1>8. CASE Restart
  BY <1>8, <1>p, <1>r DEF Repeatable, PublishedBy, Request0, Restart, stateVars, diskVars, historyVars, Tracked
<1>9. CASE RestartFails
  BY <1>9, <1>p, <1>r DEF Repeatable, PublishedBy, Request0, RestartFails, Ends, stateVars, diskVars, historyVars
<1>10. CASE Save
  BY <1>10, <1>p, <1>r DEF Repeatable, PublishedBy, Request0, Save, stateVars, diskVars, historyVars, Covered
<1>11. ASSUME NEW q \in Queues, NEW e \in Endpoints \cup {NotShown}, Request(q, e)
       PROVE  Repeatable'
  BY <1>11, <1>p, <1>r DEF Repeatable, PublishedBy, Request0, Request, stateVars, diskVars, historyVars
<1>12. ASSUME NEW q \in Queues, WriteFile(q) PROVE Repeatable'
  BY <1>12, <1>p, <1>r DEF Repeatable, PublishedBy, Request0, WriteFile, stateVars, historyVars, Content, TypeOK, FileMaps, Writes
<1>13. ASSUME NEW q \in Queues, RemoveFile(q) PROVE Repeatable'
  BY <1>13, <1>p, <1>r DEF Repeatable, PublishedBy, Request0, RemoveFile, stateVars, historyVars, TypeOK, FileMaps
<1>14. CASE AdminEdits
  BY <1>14, <1>p, <1>r DEF Repeatable, PublishedBy, Request0, AdminEdits, stateVars, diskVars, commandVars
<1>15. CASE DaemonReloads
  BY <1>15, <1>p, <1>r DEF Repeatable, PublishedBy, Request0, DaemonReloads, stateVars, diskVars, commandVars
<1>16. CASE UNCHANGED vars
  BY <1>16, <1>p, <1>r DEF Repeatable, PublishedBy, Request0, vars, stateVars, diskVars, commandVars, historyVars
<1> QED
  BY <1>1, <1>2, <1>3, <1>4, <1>5, <1>6, <1>7, <1>8, <1>9, <1>10, <1>11, <1>12, <1>13,
     <1>14, <1>15, <1>16 DEF Next, Command

-----------------------------------------------------------------------------
IInv ==
  /\ TypeOK /\ Writes /\ Knows /\ WroteInv /\ Walk /\ Covered
  /\ NothingUntracked /\ Repeatable
  /\ HostsInv /\ AdminLinesKept /\ AnnouncedIsOnDisk

LEMMA InitIInv == Init => IInv
<1> SUFFICES ASSUME Init PROVE IInv
  OBVIOUS
<1>1. TypeOK
  BY InitTypeOK
<1>2. Writes /\ Knows /\ WroteInv /\ Walk /\ Covered /\ HostsInv
  BY DEF Init, Writes, Knows, WroteInv, Walk, Covered, HostsInv
<1>3. NothingUntracked /\ AdminLinesKept /\ AnnouncedIsOnDisk
  BY DEF Init, NothingUntracked, AdminLinesKept, AnnouncedIsOnDisk, OnDisk, NoFiles
<1>4. Repeatable
  BY DEF Init, Repeatable, PublishedBy, Shown, Nobody
<1> QED BY <1>1, <1>2, <1>3, <1>4 DEF IInv

LEMMA StepIInv == IInv /\ [Next]_vars => IInv'
BY StepTypeOK, StepWrites, StepKnows, StepWrote, StepWalk, StepCovered, StepUntracked,
   StepRepeatable, StepHosts, StepLines, StepAnnounced DEF IInv

\* What a successful command has published: the state after Save in `Covered',
\* the files in `Walk'.
LEMMA DoneIsPublished == IInv => SuccessIsPublished
BY DEF IInv, Walk, Covered, SuccessIsPublished

\* A request equal to the last one publishes the same files, which `Repeatable'
\* speaks of.
LEMMA SameRequestPasses == IInv => RetryIsNotRefused
<1> SUFFICES ASSUME IInv, pc = "check", last = Request0, NEW q \in Published
             PROVE  ~Refuses(q)
  BY DEF RetryIsNotRefused, Request0
<1>1. q \in PublishedBy(last) /\ last.printers = want
  BY DEF PublishedBy, Request0, Published
<1>2. known = tracked
  BY DEF IInv, Knows
<1> QED BY <1>1, <1>2 DEF IInv, Repeatable, Refuses

LEMMA Invariant == Spec => []IInv
<1>1. Init => IInv
  BY InitIInv
<1>2. IInv /\ [Next]_vars => IInv'
  BY StepIInv
<1> QED BY <1>1, <1>2, PTL DEF Spec

\* The types of AvahiReconcile, with the fact that only published endpoints are
\* ever written, which they depend on.
THEOREM TypeCorrect == Spec => []TypeOK
<1>1. IInv => TypeOK
  BY DEF IInv
<1> QED BY <1>1, Invariant, PTL

\* Wherever a command is cut off, every service file is in the list of
\* state.yaml or was written by a command that has not saved.
THEOREM FilesHaveAnOwner == Spec => []NothingUntracked
<1>1. IInv => NothingUntracked
  BY DEF IInv
<1> QED BY <1>1, Invariant, PTL

\* A command that reaches the end has published exactly the dedicated endpoints
\* of the state it saved.
THEOREM SuccessPublishes == Spec => []SuccessIsPublished
BY Invariant, DoneIsPublished, PTL

\* avahi-daemon's records differ from the files only while a restart is due or
\* after it was missed.
THEOREM StaleRecordsHaveACause == Spec => []AnnouncedIsOnDisk
<1>1. IInv => AnnouncedIsOnDisk
  BY DEF IInv
<1> QED BY <1>1, Invariant, PTL

\* Only an edit between the command's read and its write of /etc/avahi/hosts
\* can be lost.
THEOREM AdminLinesSurvive == Spec => []AdminLinesKept
<1>1. IInv => AdminLinesKept
  BY DEF IInv
<1> QED BY <1>1, Invariant, PTL

\* The last request that passed the checks of the service files passes them
\* again, whatever it did before it was cut off.
THEOREM RetryPasses == Spec => []RetryIsNotRefused
BY Invariant, SameRequestPasses, PTL

-----------------------------------------------------------------------------
(* Hostnames.                                                              *)

\* No two labels share their first 55 characters: all labels are as short as
\* that, for instance.
CutsAreDistinct == \A p, q \in Queues : Short[p] = Short[q] => Label[p] = Label[q]

OneAddressEach(mappings) ==
  \A m, n \in mappings : m.host = n.host => m.address = n.address

\* A digest belongs to one queue and is no label; a label that is cut belongs to
\* a queue that shares it with no other.
LEMMA HostnameIsOwn ==
  ASSUME CutsAreDistinct, NEW m, NEW p \in Shown(m), NEW q \in Shown(m),
         Hostname(m, p) = Hostname(m, q)
  PROVE  p = q
<1>1. p \in Queues /\ q \in Queues
  BY DEF Shown
<1>2. Hostname(m, p) \in {p, Short[p]} /\ Hostname(m, q) \in {q, Short[q]}
  BY DEF Hostname
<1>3. CASE Hostname(m, p) \in Queues
  BY <1>1, <1>2, <1>3, NamesAssumption
<1>4. CASE Hostname(m, p) \notin Queues
  <2>1. Hostname(m, p) = Short[p] /\ Hostname(m, q) = Short[q]
    BY <1>1, <1>2, <1>4
  <2>2. Label[p] = Label[q]
    BY <1>1, <2>1 DEF CutsAreDistinct
  <2>3. p # q => Hostname(m, p) = p
    BY <2>2 DEF Hostname
  <2> QED BY <1>1, <1>4, <2>3
<1> QED BY <1>3, <1>4

LEMMA MappingsAreOwn ==
  ASSUME CutsAreDistinct, NEW m, NEW Q \in SUBSET Shown(m)
  PROVE  OneAddressEach(Mappings(m, Q))
BY HostnameIsOwn DEF OneAddressEach, Mappings

Named == OneAddressEach(block) /\ OneAddressEach(announced.block)

LEMMA StepNamed ==
  ASSUME CutsAreDistinct, TypeOK, Named, [Next]_vars
  PROVE  Named'
<1>1. block' = block \/ block' = Mappings(want, Published)
  BY DEF Next, Command, Load, End, Ends, RequestUninstall, Skip, Check, WriteHosts,
         Written, Restart, RestartFails, Save, Request, WriteFile, RemoveFile,
         AdminEdits, DaemonReloads, vars, diskVars
<1>2. announced' \in {announced, OnDisk, [files |-> NoFiles, block |-> {}]}
  BY DEF Next, Command, Load, End, RequestUninstall, Skip, Check, WriteHosts,
         Written, Restart, RestartFails, Save, Request, WriteFile, RemoveFile,
         AdminEdits, DaemonReloads, vars
<1>3. OneAddressEach(block')
  BY <1>1, MappingsAreOwn, PublishedShown DEF Named
<1>4. OneAddressEach(announced'.block)
  BY <1>2 DEF Named, OnDisk, OneAddressEach
<1> QED BY <1>3, <1>4 DEF Named, OneAddressEach

\* Two printers are announced under one hostname only if their labels differ and
\* agree in the 55 characters that are kept: neither a shared label nor a digest
\* makes hostnames collide, on disk or in avahi-daemon, in any history of commands.
THEOREM HostnamesAreDistinct ==
  ASSUME CutsAreDistinct
  PROVE  Spec => [](DistinctHostnames /\ OneAddressEach(announced.block))
<1>1. Init => Named
  BY DEF Init, Named, OneAddressEach
<1>2. TypeOK /\ Named /\ [Next]_vars => Named'
  BY StepNamed
<1>3. Named => DistinctHostnames /\ OneAddressEach(announced.block)
  BY DEF Named, DistinctHostnames, OneAddressEach
<1> QED BY <1>1, <1>2, <1>3, TypeCorrect, PTL DEF Spec
=============================================================================
