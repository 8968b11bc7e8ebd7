------------------------------ MODULE Updater -------------------------------
(***************************************************************************)
(* airprint-server update (src/airprint_server/updater.py): the managed    *)
(* checkout under the state directory follows upstream's main branch, and  *)
(* install.sh, run from it, replaces the code in the virtual environment.  *)
(*                                                                         *)
(* A session is one process that runs `update'.  It reads the recorded     *)
(* revision, asks upstream for its own (git ls-remote), looks at the       *)
(* checkout, waits for the operator, clones or fetches and fast-forwards,  *)
(* checks that the checkout is what the operator confirmed, runs install.sh*)
(* and records the revision last.  There is no lock: sessions interleave,  *)
(* and upstream moves meanwhile.  Each step may fail or be interrupted.    *)
(*                                                                         *)
(* state.yaml is loaded and saved as a whole, by the installer that        *)
(* install.sh runs and by every other command that changes something: it   *)
(* puts back the revision that was recorded when it began.                 *)
(*                                                                         *)
(* Ownership, remote and branch of the checkout are taken as right, and    *)
(* install.sh as executable; release tags only label a revision.  `update  *)
(* --check' and `--dry-run' are sessions that end at a report.             *)
(***************************************************************************)
EXTENDS Naturals

CONSTANTS
  Sessions,    \* processes that run update
  Revisions,   \* commits
  Older,       \* pairs of commits, the first an ancestor of the second
  MaxTrouble   \* bound: pushes, interruptions and what administrators do

ASSUME RevisionsAssumption ==
  /\ {"none", "short"} \cap Revisions = {}
  /\ Older \subseteq Revisions \X Revisions
  /\ \A r \in Revisions : <<r, r>> \notin Older
  /\ \A q, r, s \in Revisions : <<q, r>> \in Older /\ <<r, s>> \in Older => <<q, s>> \in Older
ASSUME TroubleAssumption == MaxTrouble \in Nat

VARIABLES
  upstream,   \* the head of the branch at the remote
  checkout,   \* HEAD of the managed checkout, "none" if there is no checkout
  origin,     \* its origin/main
  tree,       \* "clean", or "dirty" with local changes or half of a clone or merge
  runtime,    \* the revision in the virtual environment
  complete,   \* "yes" once an installer run of that revision succeeded
  recorded,   \* state.yaml: installed_revision
  pc,         \* per session, where it is
  seen,       \* per session, the recorded revision as it, or its installer, loaded it
  target,     \* per session, the revision to update to
  trouble,    \* how much of MaxTrouble is used up
  past,       \* history: all that has been recorded; some command may have loaded it
  disturbed,  \* history: sessions whose checkout was moved since they checked it, or
              \* whose code was replaced since their installer started
  foreign,    \* history: "yes" until the code of this checkout is installed
  forced      \* history: "yes" once upstream's history was rewritten

checkoutVars == <<checkout, origin, tree>>
runtimeVars  == <<runtime, complete, foreign>>
sessionVars  == <<pc, seen, target>>
envVars      == <<upstream, trouble, forced>>
recordVars   == <<recorded, past>>
vars == <<checkoutVars, runtimeVars, recordVars, sessionVars, envVars, disturbed>>

OrNone == Revisions \cup {"none"}
Reaches(r, s) == r = s \/ <<r, s>> \in Older

\* The first installation is from an operator's own clone.
Init ==
  /\ upstream \in Revisions /\ runtime \in {r \in Revisions : Reaches(r, upstream)}
  /\ checkout = "none" /\ origin = "none" /\ tree = "clean"
  /\ complete = "yes" /\ recorded = "none" /\ past = {"none"}
  /\ pc = [s \in Sessions |-> "off"]
  /\ seen = [s \in Sessions |-> "none"] /\ target = [s \in Sessions |-> "none"]
  /\ trouble = 0 /\ disturbed = {} /\ foreign = "yes" /\ forced = "no"

Goto(s, label) == pc' = [pc EXCEPT ![s] = label]

Ends(s) ==
  /\ Goto(s, "off")
  /\ seen' = [seen EXCEPT ![s] = "none"] /\ target' = [target EXCEPT ![s] = "none"]
  /\ disturbed' = disturbed \ {s}

Troubles == trouble < MaxTrouble /\ trouble' = trouble + 1

\* Sessions that have checked the checkout, and rely on it.
Relying == {s \in Sessions : pc[s] = "install"}
Disturbs(s) == disturbed' = disturbed \cup (Relying \ {s})

\* Sessions whose installer is at work.
Installing == {s \in Sessions : pc[s] = "running"}

-----------------------------------------------------------------------------
(* The steps of update_project                                             *)

Load(s) ==
  /\ pc[s] = "off"
  /\ Goto(s, "remote")
  /\ seen' = [seen EXCEPT ![s] = recorded]
  /\ UNCHANGED <<checkoutVars, runtimeVars, recordVars, target, envVars, disturbed>>

LsRemote(s) ==
  /\ pc[s] = "remote"
  /\ Goto(s, "inspect")
  /\ target' = [target EXCEPT ![s] = upstream]
  /\ UNCHANGED <<checkoutVars, runtimeVars, recordVars, seen, envVars, disturbed>>

\* Mutant: only the checkout tells whether there is an update.
Available_CheckoutOnly(s) == checkout # target[s]

\* An update is available if it is not recorded or not checked out.
Available(s) == seen[s] # target[s] \/ checkout # target[s]

\* validate_managed_source refuses a checkout with local changes.
Inspect(s) ==
  /\ pc[s] = "inspect" /\ (checkout = "none" \/ tree = "clean")
  /\ Goto(s, IF Available(s) THEN "fetch" ELSE "uptodate")
  /\ seen' = [seen EXCEPT ![s] = "none"]
  /\ UNCHANGED <<checkoutVars, runtimeVars, recordVars, target, envVars, disturbed>>

ReportUpToDate(s) ==
  /\ pc[s] = "uptodate"
  /\ Ends(s)
  /\ UNCHANGED <<checkoutVars, runtimeVars, recordVars, envVars>>

\* The operator has confirmed the target.
Clone(s) ==
  /\ pc[s] = "fetch" /\ checkout = "none"
  /\ checkout' = upstream /\ origin' = upstream /\ tree' = "clean"
  /\ Goto(s, "validate")
  /\ Disturbs(s)
  /\ UNCHANGED <<runtimeVars, recordVars, seen, target, envVars>>

Fetch(s) ==
  /\ pc[s] = "fetch" /\ checkout # "none"
  /\ origin' = upstream
  /\ Goto(s, "merge")
  /\ UNCHANGED <<checkout, tree, runtimeVars, recordVars, seen, target, envVars, disturbed>>

\* Mutant: the checkout is reset to what was fetched.
Merge_Resets(s) ==
  /\ pc[s] = "merge" /\ checkout # "none"
  /\ checkout' = origin
  /\ Goto(s, "validate")
  /\ Disturbs(s)
  /\ UNCHANGED <<origin, tree, runtimeVars, recordVars, seen, target, envVars>>

\* merge-base --is-ancestor, then merge --ff-only.
Merge(s) ==
  /\ pc[s] = "merge" /\ checkout # "none" /\ Reaches(checkout, origin)
  /\ checkout' = origin
  /\ Goto(s, "validate")
  /\ Disturbs(s)
  /\ UNCHANGED <<origin, tree, runtimeVars, recordVars, seen, target, envVars>>

\* Mutant: the checkout is not compared with the confirmed revision.
Validate_AnyRevision(s) ==
  /\ pc[s] = "validate" /\ tree = "clean"
  /\ Goto(s, "install")
  /\ UNCHANGED <<checkoutVars, runtimeVars, recordVars, seen, target, envVars, disturbed>>

\* Mutant: the revision is recorded before it is installed.
Validate_Records(s) ==
  /\ pc[s] = "validate" /\ tree = "clean" /\ checkout = target[s]
  /\ recorded' = target[s] /\ past' = past \cup {target[s]}
  /\ Goto(s, "install")
  /\ UNCHANGED <<checkoutVars, runtimeVars, seen, target, envVars, disturbed>>

Validate(s) ==
  /\ pc[s] = "validate" /\ tree = "clean" /\ checkout = target[s]
  /\ Goto(s, "install")
  /\ UNCHANGED <<checkoutVars, runtimeVars, recordVars, seen, target, envVars, disturbed>>

\* install.sh: pip copies what the checkout holds by then into the environment.
\* An installer that is running by then goes on with the code it has loaded.
Pip(s) ==
  /\ pc[s] = "install" /\ checkout # "none"
  /\ runtime' = checkout
  /\ complete' = IF checkout = runtime THEN complete ELSE "no"
  /\ Goto(s, "installing")
  /\ disturbed' = (disturbed \ {s})
                    \cup (IF checkout = runtime THEN {} ELSE Installing)
  /\ UNCHANGED <<checkoutVars, foreign, recordVars, seen, target, envVars>>

\* install.sh goes on with `airprint-server install', which loads the state ...
StartInstaller(s) ==
  /\ pc[s] = "installing"
  /\ seen' = [seen EXCEPT ![s] = recorded]
  /\ Goto(s, "running")
  /\ UNCHANGED <<checkoutVars, runtimeVars, recordVars, target, envVars, disturbed>>

\* ... does its work (Installer) and saves what it has loaded.
RunInstaller(s) ==
  /\ pc[s] = "running"
  /\ complete' = IF s \in disturbed THEN complete ELSE "yes"
  /\ foreign' = IF s \notin disturbed /\ runtime = checkout THEN "no" ELSE foreign
  /\ recorded' = seen[s]
  /\ seen' = [seen EXCEPT ![s] = "none"]
  /\ Goto(s, "record")
  /\ UNCHANGED <<checkoutVars, runtime, past, target, envVars, disturbed>>

\* Mutant: the abbreviated revision is recorded.
Record_Short(s) ==
  /\ pc[s] = "record"
  /\ recorded' = "short"
  /\ Ends(s)
  /\ UNCHANGED <<checkoutVars, runtimeVars, past, envVars>>

\* Mutant: a revision that is recorded stays.
Record_Once(s) ==
  /\ pc[s] = "record"
  /\ recorded' = IF recorded = "none" THEN target[s] ELSE recorded
  /\ past' = past \cup {target[s]}
  /\ Ends(s)
  /\ UNCHANGED <<checkoutVars, runtimeVars, envVars>>

\* The state is loaded anew and saved with the revision.
Record(s) ==
  /\ pc[s] = "record"
  /\ recorded' = target[s] /\ past' = past \cup {target[s]}
  /\ Ends(s)
  /\ UNCHANGED <<checkoutVars, runtimeVars, envVars>>

\* A check of the session fails.
Refuse(s) ==
  /\ \/ pc[s] = "inspect" /\ checkout # "none" /\ tree = "dirty"
     \/ pc[s] = "merge" /\ (checkout = "none" \/ ~Reaches(checkout, origin))
     \/ pc[s] = "validate" /\ (tree = "dirty" \/ checkout # target[s])
     \/ pc[s] = "install" /\ checkout = "none"
  /\ Ends(s)
  /\ UNCHANGED <<checkoutVars, runtimeVars, recordVars, envVars>>

\* What a process does once it has begun.
Progress(s) ==
  \/ LsRemote(s) \/ Inspect(s) \/ ReportUpToDate(s)
  \/ Clone(s) \/ Fetch(s) \/ Merge(s) \/ Validate(s)
  \/ Pip(s) \/ StartInstaller(s) \/ RunInstaller(s) \/ Record(s) \/ Refuse(s)

-----------------------------------------------------------------------------
(* Trouble                                                                 *)

\* A command fails, the operator declines or the process is killed.
End(s) ==
  /\ pc[s] # "off" /\ Troubles
  /\ Ends(s)
  /\ UNCHANGED <<checkoutVars, runtimeVars, recordVars, upstream, forced>>

\* git is killed and leaves half of the work.
Cut(s) ==
  /\ Troubles
  /\ \/ pc[s] = "fetch" /\ checkout = "none" /\ checkout' = upstream /\ origin' = upstream
     \/ pc[s] = "merge" /\ checkout # "none" /\ UNCHANGED <<checkout, origin>>
  /\ tree' = "dirty"
  /\ Goto(s, "off")
  /\ target' = [target EXCEPT ![s] = "none"]
  /\ Disturbs(s)
  /\ UNCHANGED <<runtimeVars, recordVars, seen, upstream, forced>>

\* New commits upstream, or its history is rewritten.
Push(r) ==
  /\ Troubles /\ r # upstream
  /\ upstream' = r
  /\ forced' = IF Reaches(upstream, r) THEN forced ELSE "yes"
  /\ UNCHANGED <<checkoutVars, runtimeVars, recordVars, sessionVars, disturbed>>

\* Another command, which had loaded the state by the time this was recorded, saves
\* it.
OtherSaves(r) ==
  /\ Troubles /\ r \in past /\ r # recorded
  /\ recorded' = r
  /\ UNCHANGED <<checkoutVars, runtimeVars, past, sessionVars, upstream, forced,
                 disturbed>>

\* install.sh is run from another clone; it, too, saves the state (OtherSaves).
ManualInstall(r) ==
  /\ Troubles
  /\ runtime' = r /\ complete' = "yes" /\ foreign' = "yes"
  /\ UNCHANGED <<checkoutVars, recordVars, sessionVars, upstream, forced, disturbed>>

\* uninstall removes the state directory: the record and the checkout.
RemoveState ==
  /\ Troubles
  /\ checkout' = "none" /\ origin' = "none" /\ tree' = "clean"
  /\ recorded' = "none" /\ foreign' = "yes"
  /\ disturbed' = disturbed \cup Relying
  /\ UNCHANGED <<runtime, complete, past, sessionVars, upstream, forced>>

AdminEdits ==
  /\ Troubles /\ checkout # "none"
  /\ tree' = "dirty"
  /\ disturbed' = disturbed \cup Relying
  /\ UNCHANGED <<checkout, origin, runtimeVars, recordVars, sessionVars, upstream, forced>>

\* docs/updating.md: "Resolve the reported error and rerun the update."
AdminCleans ==
  /\ tree = "dirty" /\ tree' = "clean"
  /\ UNCHANGED <<checkout, origin, runtimeVars, recordVars, sessionVars, envVars, disturbed>>

Trouble ==
  \/ \E s \in Sessions : End(s) \/ Cut(s)
  \/ \E r \in Revisions : Push(r) \/ ManualInstall(r)
  \/ \E r \in past : OtherSaves(r)
  \/ RemoveState \/ AdminEdits

Next == (\E s \in Sessions : Load(s) \/ Progress(s)) \/ AdminCleans \/ Trouble

\* A process that has begun goes on, the administrator cleans up, and update is run
\* again, by whoever it may be.
Fairness ==
  /\ WF_vars(AdminCleans) /\ WF_vars(\E s \in Sessions : Load(s))
  /\ \A s \in Sessions : WF_vars(Progress(s))

Spec == Init /\ [][Next]_vars /\ Fairness

-----------------------------------------------------------------------------
TypeOK ==
  /\ upstream \in Revisions
  /\ checkout \in OrNone /\ origin \in OrNone /\ tree \in {"clean", "dirty"}
  /\ runtime \in Revisions /\ complete \in {"yes", "no"}
  /\ recorded \in OrNone /\ past \subseteq OrNone
  /\ pc \in [Sessions -> {"off", "remote", "inspect", "uptodate", "fetch", "merge",
                          "validate", "install", "installing", "running", "record"}]
  /\ seen \in [Sessions -> OrNone] /\ target \in [Sessions -> OrNone]
  /\ trouble \in 0..MaxTrouble /\ disturbed \subseteq Sessions
  /\ foreign \in {"yes", "no"} /\ forced \in {"yes", "no"}

\* `already up to date' is true: the revision runs and its installer succeeded,
\* however earlier updates were interrupted or overlapped, unless install.sh was
\* run from another clone, or upstream's history was rewritten.
UpToDateIsInstalled ==
  [][\A s \in Sessions : pc[s] = "inspect" /\ pc'[s] = "uptodate" =>
       foreign = "yes" \/ forced = "yes"
         \/ (runtime = target[s] /\ complete = "yes")]_vars

\* Only the revision the operator confirmed is installed, without local changes,
\* or, if the checkout was moved between its check and the installer, a descendant
\* of that revision, unless upstream's history was rewritten.
OnlyConfirmedRuns ==
  [][\A s \in Sessions : pc[s] = "install" /\ pc'[s] = "installing" =>
       \/ runtime' = target[s] /\ tree = "clean"
       \/ s \in disturbed /\ (forced = "yes" \/ Reaches(target[s], runtime'))]_vars

\* An update replaces code that came from the checkout by a descendant of it only.
UpdatesGoForward ==
  [][\A s \in Sessions : pc[s] = "install" /\ pc'[s] = "installing" /\ foreign = "no" =>
       Reaches(runtime, runtime')]_vars

\* Repeated updates install upstream's revision once trouble stops, be it that they
\* go on overlapping, unless upstream's history was rewritten, or install.sh from
\* another clone replaced code that is recorded as up to date.
CodeConverges ==
  <>[](\/ runtime = upstream /\ complete = "yes"
       \/ forced = "yes" \/ (foreign = "yes" /\ recorded # "none"))

Alone == \A s, t \in Sessions : pc[s] # "off" /\ pc[t] # "off" => s = t

\* The record follows, with the same exceptions, once updates no longer overlap:
\* the installer of one may put back what was recorded before another recorded its
\* own, time and again.
RecordConverges ==
  <>[]Alone => <>[](recorded = upstream \/ forced = "yes" \/ foreign = "yes")

=============================================================================
