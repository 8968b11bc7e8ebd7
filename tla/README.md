# A TLA+ verification project for airprint-server

airprint-server turns a Debian or Raspberry Pi host into a print server: it
manages CUPS queues, shares them over AirPrint, and offers some of them to
other computers as raw TCP/JetDirect printers, each on a port of the host or on
a virtual address of its own. This directory holds TLA+ models of the parts
that keep state across steps, the TLC runs that check them on small instances,
and TLAPS proofs of their main properties for every instance. Paths below such
as `raw_proxy.py` are under `src/airprint_server/`.

## The system

| Part | State it keeps | Operations | Talks to |
| --- | --- | --- | --- |
| Raw gateway (`raw_proxy.py`: `serve`, `_RawRequestHandler`, `receive_raw_job`, `submit_raw_job`) | listeners and their accept threads, a semaphore of four job slots, one spool file per job | bind, start, accept, receive, submit, shut down | clients over TCP, CUPS through `lp`, systemd through signals |
| Virtual addresses (`raw_proxy.py`: `apply_virtual_addresses`) | `raw-addresses.yaml`, /32 addresses on interfaces | one oneshot run: delete, look, probe, add, save | the kernel through `ip`, the LAN through `arping` |
| Commands (`cli.py`) | a `State` object per process | add, adopt, expose-raw, unexpose-raw, remove, setup, install, update, uninstall, reports | all other parts |
| State files (`config.py`, `raw_proxy.py`) | `state.yaml`, `raw-proxy.yaml` | load with checks, replace in one step | |
| Service units (`raw_proxy.py`: `install_service`, `reconcile_service`, `remove_service`) | two unit files, enabled or not | write, enable, restart, disable | systemd |
| CUPS adapter (`cups.py`) | the queues of CUPS | create, enable, remove, list | CUPS |
| Avahi (`avahi.py`) | service files, a block of `/etc/avahi/hosts`, `avahi_services` in the state | reconcile, remove | avahi-daemon |
| Installer (`installer.py`, `install.sh`, `uninstall.sh`) | packages, `cups_backups`, `ipp_usb_previous` in the state | install in phases, disable and restore ipp-usb, uninstall | apt, systemd, CUPS |
| Updater (`updater.py`) | a git checkout, `installed_revision` in the state | check, fast-forward, run the installer | git |
| Vendor drivers (`bixolon_driver.py`, `xprinter_driver.py`) | filter and PPD files, `vendor_drivers` in the state | stage and replace, remove | CUPS, the vendor's site |
| Wizard (`wizard.py`) | which ports and addresses are taken, for the prompts | ask, then add or expose through `cli.py` | commands |
| Profiles, discovery, validation, diagnostics, test pages, progress bar, runner | none that outlives a call | parse, check, report, run a command | |

What is hard in it:

* **Threads.** The gateway runs an accept thread per listener and a daemon
  thread per connection; they share one semaphore and the disk. A handler can
  leave in a dozen ways. `serve` must undo a start that fails half way without
  waiting for a thread that was never started.
* **Clients and children that stall.** A client may say nothing and `lp` may
  hang; only the 60 s and 120 s timeouts bring the slot back.
* **A sequence of commands without a transaction.** Applying addresses is a
  list of `ip` and `arping` calls followed by one save; a CLI command changes
  CUPS, a file, addresses, a process and another file. Either may fail, be
  interrupted or be overtaken at every step, and nothing is undone.
* **No lock.** Two CLI processes, or a CLI process and a oneshot unit that a
  boot started, work on the same files.
* **One rule in three places.** When endpoints collide is decided by
  `_prepare_raw_endpoint`, `State.from_mapping` and `load_routes`.
* **The environment.** The machine reboots, other devices take addresses, an
  administrator has queues and addresses of his own.

`PROJECT.json` lists these hazards at the lines where they bite, with the
properties that cover them, or why none does yet.

## Modules

| Module | Models |
| --- | --- |
| `RawGateway` | the gateway process: `serve`, its listeners, its handlers, their clients, kills and restarts |
| `RawJobs` | what the gateway promises: bounded admission, one bounded job per connection |
| `RawAddresses` | runs of `apply_virtual_addresses` in an environment that changes |
| `AddressUnit` | what a run of the address unit promises whoever restarts it |
| `ManagedState` | overlapping commands on `state.yaml`, `raw-proxy.yaml`, CUPS, addresses and the gateway |
| `Wizard` | the setup wizard, whose requests are commands of `ManagedState` |
| `AvahiReconcile` | the Bonjour records of dedicated endpoints, as commands and the uninstaller change them |
| `Installer` | what install, the vendor driver commands and add-printer put on the host, and what uninstall takes away |
| `Updater` | overlapping runs of `update` on the managed checkout, an upstream that moves, an installer that fails |
| `RawGatewayProofs`, `RawAddressesProofs`, `ManagedStateProofs`, `WizardProofs`, `AvahiReconcileProofs`, `InstallerProofs`, `UpdaterProofs` | the theorems about them |
| `MCRawGateway`, `MCRawAddresses`, `MCManagedState`, `MCManagedStateOverlap`, `MCWizard`, `MCAvahiReconcile`, `MCInstaller`, `MCUpdater` | instances for TLC |

Operators whose name has a suffix after an underscore (`Release_OnSuccess`) are
faulty variants of the definition that follows them. They are used by no
specification; each property is known to fail when the variant takes the place
of the original.

### RawGateway

`main`, `at`, `servers`, `started` are the program counter of `serve`, its
position in the list it walks and the lengths of `servers` and
`started_servers`. `sock`, `loop`, `asked` are the socket, the `serve_forever`
thread and the shutdown request of each listener. `slots` is the semaphore.
For each connection, `st` is where its client or handler is, `via` its
listener, `sent`/`fin` what the client did, `got` the variable `received`,
`spool` the size of the temporary file, `how` how reading ended, `logged`
whether something was logged, and `printed` the jobs CUPS queued.

`Bind` to `Exit` are the statements of `serve`; `LoopEnds` and `Accept` the
threads socketserver provides; `RefuseAddress` to `Release` the handler, one
action per call that blocks or changes shared state, each with its failures.
`Kill` ends the process at any point, `Restart` is systemd's. A byte stands for
one unit of data; bytes a client sends once nobody reads are not modelled. The
outcome of `lp` is external: it queues the job or not, and reports success or
not, and may do the first and not the second (the 120 s timeout).

`ImplementsRawJobs` maps a connection that holds a slot to `active` and checks
that the gateway is a `RawJobs`.

### RawAddresses

`pc`, `want`, `todo` are the run's position, `desired`, and what is left of the
list it walks; `routes`, `applied`, `kernel` are `raw-proxy.yaml`,
`raw-addresses.yaml` and the addresses the runs have put on the interfaces.
`foreign` and `lan` belong to the administrator and to other devices. One
action per external command. Two of the commands go unchecked in the code:
`DeleteOld` may leave the address in place and goes on all the same, and `Check`
and `Probe` may be shown an interface without the address that is on it.
`StartRun` is a `systemctl restart`, which kills a run in progress; `Reboot`
clears `kernel` and starts the enabled unit. `added`, `before`, `leaked`, `stuck`
and `late` are history variables for the properties: `leaked` is what a run that
did not finish has added, `stuck` what a run has failed to delete.

`AddressUnit` has the same run as one step. `Succeeds` puts the wanted addresses
in place and in the file, and cannot happen when one that is new is there
already; whether the old ones are gone it does not say, as the code does not look.
`Fails` has gone part of the way and leaves the file alone.
`ImplementsAddressUnit` maps a run to the step in which it ends: until then
`aliases` is `before`, what it found. That is what lets `ManagedState` take the
unit as one step: its `ApplyAddresses` and `AddressesFail` are `Succeeds` and
`Fails` of the same module, instantiated with the addresses of `raw-proxy.yaml`.

### ManagedState

A session is one CLI process. `Load`, the `Request` actions (the checks of a
command on the state it has loaded), `Decline`, `ChangeQueue`, `WriteRoutes`,
`ApplyAddresses`, `RestartGateway` or `DisableGateway`, and `Save` follow the
order of the code; `End`, `EnableFails`, `AddressesFail` and `RestartFails` are the
failures with what they leave behind. `DisableGateway` is the `systemctl disable
--now` whose failure the code ignores: the command goes on to its save, and the
gateway may go on serving. `mem`, `services` and `job` are the session's `State`
and what it is doing; `saved` and `marked` are `state.yaml`, `routes` is
`raw-proxy.yaml`, `gateway` what the gateway process has loaded and `enabled`
whether its unit is. `stale` and `unstopped` are history variables: sessions
during which another one changed something, and whether the last attempt to stop an
enabled gateway failed unnoticed.

Choices a reader should know:

* a request that is refused, whatever the reason, is a session that ends; that
  includes an address which the interface already shows, since the look at the
  interface is unchecked too and may show nothing;
* the address unit is one step of `AddressUnit` (`RawAddresses` has the run
  itself, the LAN and reboots);
* the Avahi step between the gateway and the save is a possible failure there
  (`AvahiReconcile` has the step itself);
* the marks `raw_proxy_service_managed` and `raw_address_service_managed` are
  one, since the code sets and clears them together;
* `--adopt` lifts both refusals of add-printer, so the `adopted` mark never
  restricts what can happen and is left out;
* `--dry-run` changes none of this state.

### Wizard

`Wizard` extends `ManagedState` and adds to its actions what `run_wizard` keeps
beside them. `owners` is the pair of maps `occupied_raw_port_owners` and
`occupied_raw_address_owners` (the owner `""` of the code is `"several"`),
`stage` whether a session is a wizard and has left its first screen, `choice` the
selection that is being carried out; `passed` is a history variable, below.

`StartWizard` builds the maps from the printers (`OwnersOf`), `ChooseExposure` is
the first screen, `ChoosePrinter` the description of a printer, completed by
`cmd_add` from the record it has (`Completed`). Both take what the prompts accept
(`Offered`) and then make the request of `ManagedState`, so that
`_prepare_raw_endpoint` has its say; a selection it refuses ends the session
(`Stops`). `Carries` are the steps of the request, `WizardSaves` its end with
`record_raw_exposure` or the update in `run_wizard`'s loop, `WizardDeclines` a
printer that is not confirmed, for which the maps are updated all the same:
`add_printer` returns nothing. `Commands` are the sessions that are not wizards.

`PromptsAreSound` says that a prompt accepts nothing that `_prepare_raw_endpoint`
refuses because another queue has it. It needs two exemptions, each of them
necessary: ports, once a queue whose own endpoint stays was passed over (`passed`,
see the observations), and addresses while another queue has the standard port on
every interface.

### AvahiReconcile

One command at a time runs `reconcile_raw_printer_services` (or, for uninstall,
`remove_managed_printer_services`, which is the same with nothing to publish):
`Load`, `Request`, `Check`, `WriteHosts`, `WriteFile` and `RemoveFile` per queue,
`Restart`, `Save`. `End` cuts it off anywhere, `RestartFails` is a failing
`systemctl restart`, `Skip` the callers' test that leaves the step out.
`want` and `known` are the command's `printers` and `avahi_services`, `read` is
`existing_hosts`, `changed` the variable of that name. `files`, `lines` and
`block` are the service files and the two parts of `/etc/avahi/hosts`;
`announced` is what avahi-daemon has loaded. `AdminEdits` changes the
administrator's lines or the block's markers, `DaemonReloads` stands for a boot
or any other restart. `left`, `wrote`, `meant`, `raced`, `missed` and `last` are
history variables for the properties.

`Hostname` and `ServiceName` follow `raw_printer_hostnames` and
`_raw_printer_service_names`: what a queue is called depends on which other
queues share its label or title, so that exposing one queue rewrites the files
of others. Labels are constants (`Label`, and `Short` for their first 55
characters); the digest that tells two equal labels apart stands for the queue.
A malformed block ends the command before it writes anything, as a refused
service file does. Service files are written in any order.

### Installer

What the commands put on the host are items `<<whole, part>>`: the two raw
units, the two parts of rastertoescpos, the PPD and filter of each vendor
driver, the queues. `state.yaml` (`saved`) records wholes (`owns`: the marks of
the units, `rastertoescpos_managed`, the entries of `vendor_drivers` and
`printers`) and the previous state of ipp-usb; the parts are written one by one.
`file` is what is at each item's place (nothing, an administrator's, the
project's, for a unit the text of a version), `usb` the ipp-usb service,
`runtime` the version in the virtual environment. `pc`, `mem`, `todo`, `goal`
and `dry` are the one command that runs: its position, its `State` object, the
items it has yet to write or remove, the wholes it will record or remove, and
uninstall's `--dry-run`.

`BeginInstall` to `Built` are `install`, with the refusal of `_managed_unit` and
the rule that rastertoescpos is the project's only if no part was there;
`BeginDriver` to `ReloadCups` both vendor driver commands, which replace, reload
and record alike; `BeginAdd`, `CreateQueue`, `BeginDisable` and `DisableUsb`
add-printer as far as uninstall is concerned, with `--disable-ipp-usb`;
`AdoptQueue` adopt-printer, after which a queue is the project's, whoever had
created it, and uninstall removes it as it does the others;
`BeginUninstall` to `Finish` uninstall, with what its options and answers select.
`End`, `DisableFails` and `RestoreFails` are the failures and interruptions, at
any step. `Deploy` and `RemoveRuntime` are the shell scripts; an administrator
puts files of his own in the items' places between commands.

`left`, `loose`, `usb0` and `spoiled` are history variables: the items and the
records that an interrupted command (or a dry run, or an operator who keeps
files and has the record removed) left unaccounted for, the first state of
ipp-usb, and whether its record may be lost. Each property fails without its
exemption, so none of them is idle.

### Updater

A session is a process that runs `update`: `Load` reads `installed_revision`
into `seen`, `LsRemote` asks for `target`, `Inspect` validates the checkout and
decides, `Clone`, or `Fetch` and `Merge`, move it, `Validate` compares it with
the confirmed target, `Pip`, `StartInstaller` and `RunInstaller` are install.sh,
`Record` loads the state anew and saves it. `checkout`, `origin` and `tree` are the
managed clone, `runtime` and `complete` what is in the virtual environment and
whether its installer got through, `recorded` what state.yaml says. There is no
lock in the code and none in the model.

state.yaml is loaded and saved as a whole. The `airprint-server install` that
install.sh runs loads it when it starts (`StartInstaller`, into `seen`) and saves it
at its end (`RunInstaller`), which puts back the revision that was recorded when it
started. Any other command may do the same (`OtherSaves`, with a revision of
`past`, the history of all that has been recorded).

Trouble is bounded by `MaxTrouble`: failures and kills (`End`), git killed half
way (`Cut`), pushes and rewritten history (`Push`), a save by another command
(`OtherSaves`), install.sh from another clone (`ManualInstall`), uninstall
(`RemoveState`), local changes (`AdminEdits`). `disturbed`, `foreign` and `forced`
are the other history variables its properties need: sessions overtaken between
their check and pip, or whose code was replaced under their installer, code that did
not come from this checkout, and a rewritten history.

## Runs

| Run | Instance | Shows |
| --- | --- | --- |
| `raw_gateway` | 2 clients, 2 listeners, 1 slot, limit 1 byte, clients send up to 2 | slots and spool files are accounted for, jobs are faithful, losses are logged, `RawJobs` is implemented |
| `raw_gateway_live` | 1 private and 1 foreign client, 2 listeners, 1 slot | `serve` ends after a signal or a failure and cleans up; every connection ends |
| `raw_addresses` | 2 addresses | no unprobed claim; only unfinished runs and failed deletes lose track of an address; success is exact but for these; a run looks like one step of `AddressUnit` |
| `raw_addresses_doc` | 2 addresses, no kill, reboot or I/O error | an alias can outlive its exposure (finding) |
| `managed_state` | 1 session at a time, 2 queues, 2 ports, 2 addresses | any sequence of commands and wizards with failures at each step: the gateway loads its file, success repairs all but a gateway whose stop failed, prompts do not accept what is taken |
| `managed_state_overlap` | 2 sessions, 2 queues, 1 port, 1 address, at most 4 requests | overlapping commands keep state.yaml loadable and change only their target |
| `managed_state_doc` | as `managed_state`, no wizards, 1 address | unexpose-raw can leave the gateway serving (finding) |
| `avahi` | 2 queues with one label and title, 2 addresses, 2 texts of the hosts file | files have an owner; success publishes exactly the endpoints; stale records have a cause; a retry is not refused |
| `avahi_hostnames` | 2 queues whose labels differ behind the cut | one hostname for two addresses (finding) |
| `installer` | 2 versions, 1 driver, 1 queue, two slices (below) | uninstall finds what was installed, records are true, an administrator's files stay, ipp-usb can be restored, a dry run touches drivers' files only |
| `installer_doc` | as `installer`, whole, nothing interrupted | uninstall need not restore ipp-usb (finding) |
| `updater` | 2 sessions, a history with a fork, 3 troubles | "already up to date" is true, what is installed is the confirmed revision or, for an overtaken session, a descendant, updates go forward, repeated updates install upstream's revision, and record it once they stop overlapping |

Why the bounds are enough. One slot and two connections make the slot scarce,
so that refusal, release and reuse all happen; two listeners are what binding,
starting, and closing half of a list needs, and what a wrong queue needs.
`ClientBytes` is one more than `MaxBytes`, so both sides of the limit are
reached. Two addresses let a run succeed on one and fail on the other. Two
queues, two ports and two addresses give every kind of collision (shared and
shared, shared and dedicated, dedicated and dedicated). `MaxRequests = 4` in the
overlap run allows two commands that leave something unfinished and two that
meet it; the run with one session has no such bound. There
`WizardsStartInOrder` lets a wizard start only when files and addresses agree, so
that what failures leave behind is met by the other commands; it keeps the run
short, and `WizardProofs` has no such restriction. In `avahi` one label and
one title make each queue's records depend on the other's exposure, the case in
which a command has several files to write; two texts are enough to tell an
edit from the text before it. `installer` needs two versions for a unit whose text is
another version's. `OneSlice` splits its state space in two: a host without
ipp-usb runs the installer, adds a driver and uninstalls; a host with ipp-usb
adds a driver and a printer, disables the service and uninstalls. What is left
out is only the product of parts that share no variable but the record, and
`InstallerProofs` has no such restriction. Two updates, one step forward and one
fork are what it takes for a session to be overtaken, and for the fast-forward
to be refused; three troubles allow a session that fails, one that meets what it
left and an upstream that moves meanwhile. Clients, queues, addresses and the
sessions of `ManagedState` are interchangeable, which the symmetry sets use; no
liveness property is checked under symmetry.

**Fairness.** Only `raw_gateway_live` and `updater` have any. The gateway has
weak fairness of `serve`'s thread, of each accept loop and of each handler. It is
what a scheduler gives to threads that can run, together with `settimeout` for
`recv` and `timeout=120` for `lp`, which is why `RecvTimeout` and `LpFails` are
part of a fair handler.
Clients, signals, kills and restarts are owed nothing. The model's silent
client is one that neither sends nor closes; a client that sends for ever is
stopped by the size limit. In `Updater` each session goes on, which includes
that update is run again, and somebody cleans a checkout that update refuses, as
`docs/updating.md:83-85` tells the operator to do; every kind of trouble may
happen but need not. Fairness is of `AdminCleans`, of someone starting an update
(`\E s : Load(s)`, no session in particular) and of each `Progress(s)`. Without
`WF_vars(AdminCleans)` a dirty checkout refuses every update for ever.

Under this fairness the code converges however updates overlap (`CodeConverges`), but
the record need not: two updates that keep overlapping can undo each other's record
for ever, each one's installer saving what it loaded before the other recorded.
`RecordConverges` therefore has the premise that from some time on at most one update
is at work (`<>[]Alone`). Deadlock is checked everywhere.

## Proofs

All constants are arbitrary: any finite set of connections, any number of
listeners and slots, any limits; any number of addresses; any sets of sessions,
queues, ports and addresses; any versions, drivers, queues; any set of revisions
with any ancestry. The assumptions are the `ASSUME`s of the modules.

* **RawGatewayProofs.** `MainInv` relates `serve`'s lists to sockets and loops
  at each of its positions: `started_servers` lists exactly the loops that were
  started, so `shutdown` cannot block (`ShutdownNeverBlocks`), and all that was
  opened is in `servers` (`ReturnIsClean`). `ConnInv` says what a handler's
  counters, file and job are in each state; it gives `JobsAreFaithful` and
  `LossIsLogged`. The slot count is a third invariant over
  cardinalities of the set of holders; with it and `ConnInv` come
  `SpoolIsBounded` and, step by step, `GatewayImplementsRawJobs`.

  Two theorems are what can be proved of the liveness properties.
  `ShutdownIsBounded` gives `serve` a measure, `StepsToExit`, from the moment a
  stop or a failed start has it leave: at most `3 * NRoutes + 3`, lowered by each
  of its own steps, raised by nobody else's, and where it waits for a loop that
  loop can end. `ConnectionsMoveOn` does the same for a connection with
  `StepsToClose`, at most `ClientBytes + 8`, and says that its next step can be
  taken. What is missing to `StopLeadsToExit` and `ConnectionEnds` is fairness,
  which takes those steps.
* **RawAddressesProofs.** `SuccessIsExact` speaks about the end of a run, so
  `IInv` adds `Walk`, what a run has done at each point, and `Probed`, that the
  address about to be added was probed and any later owner is in `late`.
  `EveryLeakHasACause` says that an address the file has lost was added by a run
  that did not finish, or its delete failed.
  `RunLooksLikeOneStep` is the refinement of `AddressUnit`. It needs `HInv`, how
  what is on the interfaces now comes from what was there `before` the run: some of
  the old addresses go, then the wanted ones are added one by one, none of
  which was there. `EndedRunFails` and `SavedRunSucceeds` turn that into the
  abstract step when the run ends.
* **ManagedStateProofs.** `Inv` says that every `State` a session holds is
  acceptable, and so is the request it is about to carry out, from the lemma
  that an endpoint `Fits` lets pass keeps the printers acceptable; that gives
  `StateAlwaysLoads` and `RoutesAlwaysLoad` under any interleaving.
  `SuccessRepairs` and `NoOtherPrinterChanges` rest on `AloneInv`: a session
  that nobody interfered with knows, at each of its steps, what the files, the
  gateway, the addresses and CUPS hold. `AutomaticPortIsFree` needs that the
  minimum of a set of numbers is one of them, which is derived from the
  well-foundedness of `<`. `EndpointsAreMarked` rests on `Marks`: state.yaml, and
  each `State` in memory, has the service marks if it has an endpoint. From it
  follows `RecordedEndpointsAreReconciled`: a request for a queue whose endpoint
  was loaded never leaves the services out, which confines finding 2 to
  endpoints that no command has saved.
* **WizardProofs.** `WizardIsCommands` maps every step of a wizard to a step of
  `ManagedState` or a stutter, so that its theorems hold with wizards too
  (`WizardSuccessRepairs`, `WizardEndpointsAreMarked`, `WizardReconcilesRecorded`). `PromptsSound` rests on `WInv`: `KnownHere` says
  that the maps list the port and the address of every exposed queue, and `Follows`
  and `Keeps` track one request from its prompt to the update of the maps, at the end of which its own
  queue is known again.
* **AvahiReconcileProofs.** `IInv` adds to the properties what a command has done
  at each step: `Walk` (which files are written or removed, and that the block
  is), `WroteInv` and `Knows` (what it wrote is what it publishes, and its list
  is the state's until the end), from which `Covered` follows at the save: the
  list that is saved covers every file but those of unfinished commands. That
  gives `FilesHaveAnOwner` and `SuccessPublishes`. `Repeatable`, that the last
  request which passed the checks finds no foreign file in its way, is
  invariant on its own account and gives `RetryPasses`. Type correctness needs
  `Writes`: only published endpoints have a document to write.
  `HostnamesAreDistinct` confines finding 3: where labels that differ also differ
  before the cut (`CutsAreDistinct`, an assumption of that theorem only, as the
  code does not ensure it), each dedicated endpoint has a hostname of its own and
  avahi-daemon announces one address for each.

* **InstallerProofs.** The properties speak of the time between commands, so
  `IInv` follows one command: `MemHolds` (what its `State` may differ in from
  `saved`), `TodoFits` and `DoneIsThere` (which parts it has dealt with), and from
  them `Tracked`, that an own item without a record is in `left` or `Pending` in
  this command, its mirror `Truthful`, with `Gone`, and `UsbKnown`, where the first
  state of ipp-usb is at each step. `UninstallIsComplete` puts them together: when
  an uninstall of all that is recorded is about to save, the host has no item of
  the project's but those in `left`, and ipp-usb is as the first command found it
  unless `spoiled`. It needs `Struck`, that past the removals the `State` lists what
  was not selected.
* **UpdaterProofs.** `UpToDateIsInstalled` needs an order among the revisions that
  are around. As a command may save what it loaded long ago, the order is one of
  `past`, all that has ever been recorded, in which `recorded` and whatever a session
  or an installer has loaded are found (`Known`). While history is not rewritten,
  everything in `past`, targeted or checked out is upstream's head or an ancestor of it
  (`Behind`), what is in `past` or beyond its check is in the checkout's history
  (`Ahead`), what is installed came from the checkout (`FromCheckout`), and all of
  `past` is installed or has been overtaken by a descendant (`Reflected`): an older
  record that is put back never claims too much. A session for which recorded,
  checked out and target agree then has them installed. `CheckHolds` says that a
  session that was not overtaken finds the checkout as it checked it; `Ahead` says
  that one that was overtaken finds a descendant, and both make `ConfirmedRuns`.
  `RecordsAreInstalled` and `RecordIsCheckedOut` state what the order says of
  state.yaml: the record is never ahead of what runs, nor of the checkout.
  `UpdatesAreRefusedForCause` is the safety part of `CodeConverges`: with `Fetched`,
  that a session finds its target or a later revision in what it fetched, whoever
  moved the checkout, no update is refused because the checkout lags behind, so
  running it again has something later to offer.

Only model-checked: the liveness properties `StopLeadsToExit`, `ConnectionEnds`,
`CodeConverges` and `RecordConverges` (fairness and ENABLED are out of the prover's
reach; the safety part of the first three is proved, as said above). Every other
property of a passing run has a theorem. `AutomaticPortIsFree` is proved only: no
run checks it.

## Findings

1. *An alias can outlive its exposure.* `docs/network-printers.md:43-44` says
   that aliases are removed when their exposure is disabled. A run that fails
   after it has added an address does not record it; later runs refuse it as
   foreign while it is wanted and ignore it when it is not (`raw_addresses_doc`).
   `EveryLeakHasACause` proves that a lost alias comes from such a run, one that was
   cut off, or an `ip address del` that failed (see the observations).
2. *unexpose-raw can do nothing.* `docs/network-printers.md:70-71`. Before the
   services are recorded as managed, a command interrupted between the gateway's
   restart and the save leaves the gateway serving the queue, and `unexpose-raw`
   skips the services because state.yaml has neither mark nor endpoint
   (`managed_state_doc`). `RecordedEndpointsAreReconciled` proves that it cannot
   happen to an endpoint the command found in state.yaml.
3. *Two printers can share a hostname.* `README.md:14-15` and
   `docs/setup-wizard.md:53` promise each dedicated endpoint a hostname.
   `raw_printer_hostnames` compares labels before it cuts them to 55 characters,
   so two long names that differ only behind the cut get one hostname for two
   addresses (`avahi_hostnames`). `HostnamesAreDistinct` proves that nothing else
   makes them share one.
4. *uninstall need not restore ipp-usb.* `README.md:263` says that its previous
   state is restored. `disable_ipp_usb` (`installer.py:118`) records the state it
   finds over the one it recorded before: after a second
   `add-printer --disable-ipp-usb` the record says "off" (`installer_doc`).
   `UsbIsRestorable` proves that only this and interrupted commands lose it.

Observations without a run of their own:

* A failing `ip address del` is ignored (`raw_proxy.py:435-439`): the run succeeds and
  saves a file that no longer lists the address, which stays until a reboot. This is
  `stuck` in `SuccessIsExact` and `LeaksHaveACause`.
* A failing `systemctl disable --now` is ignored (`raw_proxy.py:506-507`): the command
  that hides the last endpoint reports success and the gateway goes on serving it.
  This is the exemption `unstopped` of `SuccessIsComplete`. The same call is unchecked
  for the address unit (`raw_proxy.py:501-502`), which has nothing left to apply then,
  and for both units in `remove_service` (`raw_proxy.py:564-567`).
* The installer of an update saves the state it loaded minutes before
  (`cli.py:671`, `installer.py:249`), and so puts back the `installed_revision` of that
  time. Two updates that overlap can undo each other's record, again and again; the
  code that runs is not affected. This is the premise of `RecordConverges`.
* The wizard forgets the port of a queue that keeps its endpoint: a printer that is
  described again without raw access, or declined, loses its port in
  `occupied_raw_port_owners` (`wizard.py:733-737`), while `cmd_add` keeps the
  endpoint (`cli.py:267-271`). The wizard then suggests that port for the next
  printer, add-printer refuses it, and the wizard ends. This is the exemption
  `passed` of `PromptsAreSound`. In the same way an address is accepted while
  another queue has port 9100 on every interface, and refused by add-printer.

* `uninstall --dry-run` deletes the files of recorded vendor drivers
  (`installer.py:287-294`) and saves nothing, so the record outlives them;
  `DryRunsTouchDrivers` proves that it changes nothing else.
* `README.md:314-316` lists vendor drivers among what is left untouched;
  uninstall removes the recorded ones.
* When upstream's history is rewritten while two updates overlap, the record can
  name one revision while another is installed, and `update` then reports that it
  is up to date: the exemption `forced`.

## Not modelled, and the plan

The gateway was modelled first, then the addresses, the commands that drive both,
the wizard on top of them, what they publish, and how the project gets on the host,
stays current and leaves it. What remains, in this order:

1. The search for a free address (`find_available_virtual_address`), which reads
   the interfaces and the LAN before the address unit does.
2. An administrator as an actor of `ManagedState`: queues created while a command
   waits for its confirmation (`cli.py:375`), and the ownership promise of
   `README.md:296`.

Theorems planned: for each of these the type invariant and its main safety
invariant.

In the parts that are modelled, left out are: packages, the CUPS configuration and
its backups, the migration of printer defaults and the directory of profiles, and,
of the drivers, downloads and archives. They are calls to apt, systemd, CUPS and
vendors whose outcome is theirs; in the models they are places where a command may
end.

Out of the models for good: parsing of `ip`, `lpstat`, `git` and YAML text,
names and their checks, archive formats and downloads, printing options,
diagnostics, test pages, the progress bar, and the shell scripts around them.
