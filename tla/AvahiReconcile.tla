--------------------------- MODULE AvahiReconcile ---------------------------
(***************************************************************************)
(* The Bonjour records of dedicated raw endpoints:                         *)
(* reconcile_raw_printer_services and remove_managed_printer_services of   *)
(* src/airprint_server/avahi.py, as a command or the uninstaller runs them.*)
(*                                                                         *)
(* A command loads state.yaml, changes the endpoint of a printer, checks   *)
(* the service files it is going to write, reads /etc/avahi/hosts, writes  *)
(* its block there, writes and removes service files one by one, restarts  *)
(* avahi-daemon if anything has changed, and saves state.yaml, which lists *)
(* the service files the project has made.  It may fail or be interrupted  *)
(* between any two of these, an administrator may edit the hosts file at   *)
(* any time, and avahi-daemon may be restarted by others.                  *)
(*                                                                         *)
(* The service file of a queue has a path of its own (_service_path's      *)
(* digest), so files are named by their queues.                            *)
(*                                                                         *)
(* Simplifications.  Commands run one at a time; those that overlap are    *)
(* the subject of ManagedState, as is their work on queues, routes and     *)
(* addresses.  Display names are Titles, cut and cleaned already; the port *)
(* of a dedicated endpoint is left out, and so are symbolic links, which   *)
(* are refused, and the temporary file of an atomic write.  The block is   *)
(* at the end of the hosts file, where _render_hosts puts it.              *)
(***************************************************************************)
EXTENDS FiniteSets

CONSTANTS
  Queues,      \* queue names
  Addresses,   \* virtual addresses
  Titles,      \* display names, as Bonjour may show them (63 bytes)
  Label,       \* per queue, its normalised name (_printer_label)
  Short,       \* per queue, the first 55 characters of its label
  Stem,        \* per queue, the first 30 characters of its name
  AdminLines   \* what an administrator may have in the hosts file

ASSUME NamesAssumption ==
  /\ \A p, q \in Queues : Label[p] = Label[q] => Short[p] = Short[q]
  /\ {Short[q] : q \in Queues} \cap Queues = {}
  /\ "hosts" \notin Queues

VARIABLES
  printers,  \* state.yaml: per queue, its dedicated endpoint or NotShown
  tracked,   \* state.yaml: avahi_services
  files,     \* per queue, its service file or NoFile
  lines,     \* the hosts file outside the project's block
  block,     \* the project's block
  sound,     \* the block's markers are well-formed
  announced, \* what avahi-daemon loaded: the service files and the block
  pc,        \* where the command is, "off" when none runs
  want,      \* the command's State.printers
  known,     \* the command's State.avahi_services
  removing,  \* the command is uninstall
  read,      \* the command's `existing_hosts'
  todo,      \* service files still to be written or removed
  changed,   \* the command's `changed'
  wrote,     \* history: what this command has written
  left,      \* history: what commands have written that did not save
  meant,     \* history: the lines the administrator last wrote
  raced,     \* history: the administrator wrote between a read and its write
  missed,    \* history: a command changed files and did not restart the daemon
  last       \* history: the request of the last command that passed its checks

stateVars   == <<printers, tracked>>
diskVars    == <<files, lines, block, sound>>
commandVars == <<pc, want, known, removing, read, todo, changed, wrote>>
historyVars == <<left, meant, raced, missed, last>>
vars == <<stateVars, diskVars, announced, commandVars, historyVars>>

NotShown == [address |-> "none", title |-> "none"]
NoFile   == [name |-> [title |-> "none", of |-> "none"], host |-> "none"]
HostsFile == "hosts"

Endpoints == [address : Addresses, title : Titles]
AllPrinters == [Queues -> Endpoints \cup {NotShown}]
Nobody == [q \in Queues |-> NotShown]
NoFiles == [q \in Queues |-> NoFile]
NoLines == "none"

-----------------------------------------------------------------------------
(* Names                                                                   *)

Shown(m) == {q \in Queues : m[q] # NotShown}

\* raw_printer_hostnames: a label that two queues share gets the digest of the
\* queue's name, which stands for the queue; any other label is cut.
Hostname(m, q) ==
  IF \E p \in Shown(m) \ {q} : Label[p] = Label[q] THEN q ELSE Short[q]

\* _raw_printer_service_names: a title that two queues share is told apart by
\* the beginning of the queue's name.
ServiceName(m, q) ==
  [title |-> m[q].title,
   of |-> IF \E p \in Shown(m) \ {q} : m[p].title = m[q].title
          THEN Stem[q] ELSE "none"]

\* _service_document
Document(m, q) == [name |-> ServiceName(m, q), host |-> Hostname(m, q)]

Mappings(m, Q) == {[address |-> m[q].address, host |-> Hostname(m, q)] : q \in Q}

\* `desired': uninstall publishes nothing.
Published == IF removing = "yes" THEN {} ELSE Shown(want)

-----------------------------------------------------------------------------
Init ==
  /\ printers = Nobody /\ tracked = {} /\ files = NoFiles
  /\ lines \in AdminLines /\ meant = lines
  /\ block = {} /\ sound = "yes"
  /\ announced = [files |-> NoFiles, block |-> {}]
  /\ pc = "off" /\ want = Nobody /\ known = {} /\ removing = "no"
  /\ read = NoLines /\ todo = {} /\ changed = "no" /\ wrote = {}
  /\ left = {} /\ raced = "no" /\ missed = "no"
  /\ last = [printers |-> Nobody, removing |-> "no"]

Load ==
  /\ pc = "off"
  /\ pc' = "ready" /\ want' = printers /\ known' = tracked
  /\ UNCHANGED <<stateVars, diskVars, announced, removing, read, todo, changed, wrote,
                 historyVars>>

\* The command fails, is refused, is interrupted or is done.
Ends ==
  /\ pc' = "off" /\ want' = Nobody /\ known' = {} /\ removing' = "no"
  /\ read' = NoLines /\ todo' = {} /\ changed' = "no" /\ wrote' = {}
  /\ left' = left \cup wrote
  /\ missed' = IF changed = "yes" THEN "yes" ELSE missed
  /\ UNCHANGED <<stateVars, diskVars, meant, raced, last>>

End == pc # "off" /\ Ends /\ UNCHANGED announced

\* add-printer, expose-raw, unexpose-raw, remove-printer and install: one endpoint
\* changes, or none; no two printers have one address (_prepare_raw_endpoint).
Request(q, e) ==
  /\ pc = "ready"
  /\ e # NotShown => \A p \in Shown(want) \ {q} : want[p].address # e.address
  /\ want' = [want EXCEPT ![q] = e]
  /\ pc' = "check"
  /\ UNCHANGED <<stateVars, diskVars, announced, known, removing, read, todo,
                 changed, wrote, historyVars>>

RequestUninstall ==
  /\ pc = "ready"
  /\ removing' = "yes" /\ pc' = "check"
  /\ UNCHANGED <<stateVars, diskVars, announced, want, known, read, todo, changed,
                 wrote, historyVars>>

\* Nothing is published and nothing was: the Avahi step is left out.
Skip ==
  /\ pc = "check" /\ known = {} /\ Published = {}
  /\ pc' = "save"
  /\ UNCHANGED <<stateVars, diskVars, announced, want, known, removing, read, todo,
                 changed, wrote, historyVars>>

\* Mutant: whatever is at the path of a new service file is refused.
Refuses_Any(q) == files[q] # NoFile /\ q \notin known

\* "refusing to overwrite unmanaged Avahi service"
Refuses(q) ==
  /\ files[q] # NoFile /\ q \notin known
  /\ files[q] # Document(want, q)

\* The checks pass, and the hosts file is read.  A refusal, or a malformed
\* block, ends the command.
Check ==
  /\ pc = "check" /\ (known # {} \/ Published # {})
  /\ \A q \in Published : ~Refuses(q)
  /\ sound = "yes"
  /\ read' = lines /\ pc' = "hosts"
  /\ last' = [printers |-> want, removing |-> removing]
  /\ UNCHANGED <<stateVars, diskVars, announced, want, known, removing, todo,
                 changed, wrote, left, meant, raced, missed>>

\* Mutant: the hosts file is taken for an empty one.
Rendered_Empty == NoLines

\* Mutant: the hosts file is always rendered from the same text.
Rendered_BlockOnly == CHOOSE l \in AdminLines : TRUE

\* The lines outside the block, in the text _render_hosts returns.
Rendered == read

WriteHosts ==
  /\ pc = "hosts"
  /\ pc' = "write" /\ read' = NoLines /\ todo' = Published
  /\ IF lines = Rendered /\ block = Mappings(want, Published) /\ sound = "yes"
     THEN UNCHANGED <<diskVars, changed, wrote>>
     ELSE /\ lines' = Rendered /\ sound' = "yes"
          /\ block' = Mappings(want, Published)
          /\ changed' = "yes" /\ wrote' = wrote \cup {HostsFile}
          /\ UNCHANGED files
  /\ UNCHANGED <<stateVars, announced, want, known, removing, historyVars>>

\* Mutant: `changed' tells about the last file only.
ChangedBy_Last(differs) == IF differs THEN "yes" ELSE "no"

\* changed = _write_text(path, content) or changed
ChangedBy(differs) == IF differs THEN "yes" ELSE changed

\* Mutant: a service file that exists is not written again.
Content_OfNewFiles(q) == IF files[q] = NoFile THEN Document(want, q) ELSE files[q]

\* desired[path]
Content(q) == Document(want, q)

\* Service files are written in the order of their names, which is left open.
WriteFile(q) ==
  /\ pc = "write" /\ q \in todo
  /\ files' = [files EXCEPT ![q] = Content(q)]
  /\ changed' = ChangedBy(files[q] # Content(q))
  /\ wrote' = IF files[q] # Content(q) THEN wrote \cup {q} ELSE wrote
  /\ todo' = todo \ {q}
  /\ UNCHANGED <<stateVars, lines, block, sound, announced, pc, want, known,
                 removing, read, historyVars>>

Written ==
  /\ pc = "write" /\ todo = {}
  /\ pc' = "unlink" /\ todo' = known \ Published
  /\ UNCHANGED <<stateVars, diskVars, announced, want, known, removing, read,
                 changed, wrote, historyVars>>

RemoveFile(q) ==
  /\ pc = "unlink" /\ q \in todo
  /\ changed' = IF files[q] # NoFile THEN "yes" ELSE changed
  /\ files' = [files EXCEPT ![q] = NoFile]
  /\ left' = left \ {q}
  /\ todo' = todo \ {q}
  /\ UNCHANGED <<stateVars, lines, block, sound, announced, pc, want, known,
                 removing, read, wrote, meant, raced, missed, last>>

\* Mutant: the list of service files is not updated.
Tracked_Old == known

\* state.avahi_services = [...]
Tracked == Published

\* What avahi-daemon announces once it has read the files.
OnDisk == [files |-> files, block |-> block]

\* All files are in place; avahi-daemon is restarted if one has changed.
Restart ==
  /\ pc = "unlink" /\ todo = {}
  /\ known' = Tracked /\ pc' = "save"
  /\ IF changed = "yes"
     THEN announced' = OnDisk /\ changed' = "no" /\ missed' = "no"
     ELSE UNCHANGED <<announced, changed, missed>>
  /\ UNCHANGED <<stateVars, diskVars, want, removing, read, todo, wrote, left,
                 meant, raced, last>>

\* The restart fails: the old daemon goes on, or none runs.
RestartFails ==
  /\ pc = "unlink" /\ todo = {} /\ changed = "yes"
  /\ \/ announced' = [files |-> NoFiles, block |-> {}]
     \/ UNCHANGED announced
  /\ Ends

\* save_state.  Uninstall may have removed the queues, or removes the state.
\* What is listed now is not left over, nor is a block that goes with the list.
Save ==
  /\ pc = "save"
  /\ printers' = want \/ (removing = "yes" /\ printers' = Nobody)
  /\ tracked' = known
  /\ pc' = "done" /\ wrote' = {}
  /\ left' = {x \in left : x \notin known /\ (x = HostsFile => known = {} /\ block # {})}
  /\ UNCHANGED <<diskVars, announced, want, known, removing, read, todo, changed,
                 meant, raced, missed, last>>

-----------------------------------------------------------------------------
(* The environment                                                         *)

\* An administrator edits the hosts file and leaves the block's lines alone,
\* though he may damage or repair its markers.
AdminEdits ==
  /\ lines' \in AdminLines /\ sound' \in {"yes", "no"}
  /\ <<lines', sound'>> # <<lines, sound>>
  /\ meant' = lines'
  /\ raced' = IF pc = "hosts" THEN "yes" ELSE "no"
  /\ UNCHANGED <<stateVars, files, block, announced, commandVars, left, missed, last>>

\* A boot, a reload, or another restart of avahi-daemon.
DaemonReloads ==
  /\ announced # OnDisk
  /\ announced' = OnDisk
  /\ missed' = "no"
  /\ UNCHANGED <<stateVars, diskVars, commandVars, left, meant, raced, last>>

Command ==
  \/ Load \/ End \/ RequestUninstall \/ Skip \/ Check \/ WriteHosts \/ Written
  \/ Restart \/ RestartFails \/ Save
  \/ \E q \in Queues :
       \/ \E e \in Endpoints \cup {NotShown} : Request(q, e)
       \/ WriteFile(q) \/ RemoveFile(q)

Next == Command \/ AdminEdits \/ DaemonReloads

Spec == Init /\ [][Next]_vars

-----------------------------------------------------------------------------
Hosts == Queues \cup {Short[q] : q \in Queues}
ServiceNames == [title : Titles, of : {Stem[q] : q \in Queues} \cup {"none"}]
Documents == [name : ServiceNames, host : Hosts]
FileMaps == [Queues -> Documents \cup {NoFile}]
Blocks == SUBSET [address : Addresses, host : Hosts]

TypeOK ==
  /\ printers \in AllPrinters /\ want \in AllPrinters
  /\ tracked \subseteq Queues /\ known \subseteq Queues /\ todo \subseteq Queues
  /\ files \in FileMaps /\ block \in Blocks
  /\ lines \in AdminLines /\ meant \in AdminLines
  /\ read \in AdminLines \cup {NoLines} /\ (pc = "hosts" => read \in AdminLines)
  /\ announced \in [files : FileMaps, block : Blocks]
  /\ pc \in {"off", "ready", "check", "hosts", "write", "unlink", "save", "done"}
  /\ {sound, removing, changed, raced, missed} \subseteq {"yes", "no"}
  /\ wrote \subseteq Queues \cup {HostsFile} /\ left \subseteq Queues \cup {HostsFile}
  /\ last \in [printers : AllPrinters, removing : {"yes", "no"}]

\* Every service file of the project is listed in state.yaml, or was written by
\* a command that has not saved: only such files, and the block they left, can
\* outlive their printer and the uninstallation.
NothingUntracked ==
  /\ {q \in Queues : files[q] # NoFile} \subseteq tracked \cup left \cup wrote
  /\ block # {} => tracked # {} \/ HostsFile \in left \cup wrote

\* A command that has succeeded has published every dedicated endpoint under the
\* names the state gives it, and nothing else except what unfinished commands
\* have left.
SuccessIsPublished ==
  pc = "done" =>
    /\ tracked = Published
    /\ \A q \in Published : files[q] = Document(want, q)
    /\ \A q \in Queues \ Published : files[q] # NoFile => q \in left
    /\ block = Mappings(want, Published) \/ (Published = {} /\ HostsFile \in left)

\* avahi-daemon announces what the files say, unless a command has changed them
\* and its restart of the daemon has not come yet, failed or was cut off.
AnnouncedIsOnDisk == changed = "no" /\ missed = "no" => announced = OnDisk

\* The administrator's part of /etc/avahi/hosts is never lost, except for an
\* edit made between a command's read of the file and its write.
AdminLinesKept == lines = meant \/ raced = "yes"

\* A command that was cut off after its checks can be repeated: it never takes
\* what it left itself for somebody else's service file.
RetryIsNotRefused ==
  pc = "check" /\ last = [printers |-> want, removing |-> removing] =>
    \A q \in Published : ~Refuses(q)

\* README.md:14: dedicated endpoints "receive matching .local hostnames", a
\* hostname for each: no hostname stands for two addresses.
DistinctHostnames ==
  \A m, n \in block : m.host = n.host => m.address = n.address

=============================================================================
