--------------------------- MODULE UpdaterProofs ----------------------------
(***************************************************************************)
(* Proofs about Updater for any number of overlapping updates and any      *)
(* history of commits.                                                     *)
(*                                                                         *)
(* That `up to date' is true rests on an order.  A command may save what   *)
(* it has loaded long ago, so the order is one of everything that has ever *)
(* been recorded (past), which holds what is recorded and what any session *)
(* or installer has loaded (Known).  As long as upstream only goes         *)
(* forward, all that is known or targeted is behind upstream (Behind),     *)
(* what has been recorded or checked is behind the checkout (Ahead), the   *)
(* installed code is behind the checkout as well (FromCheckout), but not   *)
(* behind what has been recorded (Reflected).                              *)
(***************************************************************************)
EXTENDS Updater, TLAPS

Under(x, y) == x = "none" \/ Reaches(x, y)

\* A session that has asked upstream has a target.
Targets == \A s \in Sessions : pc[s] \notin {"off", "remote"} => target[s] \in Revisions

\* Whoever saves, saves what has been recorded before.
Known == {"none", recorded} \subseteq past /\ \A s \in Sessions : seen[s] \in past

Behind ==
  forced = "no" =>
    /\ \A x \in past : Under(x, upstream)
    /\ Under(checkout, upstream) /\ Under(origin, upstream)
    /\ \A s \in Sessions : Under(target[s], upstream)

Checked == {s \in Sessions : pc[s] \in {"install", "installing", "running", "record"}}

Ahead ==
  forced = "no" /\ checkout # "none" =>
    /\ \A x \in past : Under(x, checkout)
    /\ \A s \in Checked : Under(target[s], checkout)

FromCheckout == foreign = "no" => checkout # "none" /\ Reaches(runtime, checkout)

\* Revision x is installed, or a later one is.
Installed(x) == Under(x, runtime) /\ (x = runtime => complete = "yes")

\* A session whose code was replaced while its installer ran has been overtaken.
Reflected ==
  forced = "no" /\ foreign = "no" =>
    /\ \A x \in past : Installed(x)
    /\ \A s \in Sessions :
         /\ pc[s] \in {"installing", "running"} =>
              Under(target[s], runtime) /\ (s \in disturbed => Installed(target[s]))
         /\ pc[s] = "record" => Installed(target[s])

\* What a session has checked is in the checkout, or it has been disturbed.
CheckHolds ==
  \A s \in Sessions : pc[s] = "install" =>
    s \in disturbed \/ (checkout = target[s] /\ tree = "clean")

-----------------------------------------------------------------------------
(* The order of commits.                                                   *)

LEMMA ReachesItself == \A r : Reaches(r, r)
  BY DEF Reaches

LEMMA ReachesTransitive ==
  \A q, r, s \in Revisions : Reaches(q, r) /\ Reaches(r, s) => Reaches(q, s)
  BY RevisionsAssumption DEF Reaches

LEMMA ReachesAntisymmetric ==
  \A r, s \in Revisions : Reaches(r, s) /\ Reaches(s, r) => r = s
  BY RevisionsAssumption DEF Reaches

LEMMA UnderTransitive ==
  \A x \in OrNone, r, s \in Revisions : Under(x, r) /\ Reaches(r, s) => Under(x, s)
  BY ReachesTransitive DEF Under, OrNone

LEMMA NoneIsNoRevision == "none" \notin Revisions
  BY RevisionsAssumption

-----------------------------------------------------------------------------
(* Types.                                                                  *)

LEMMA InitTypeOK == Init => TypeOK
  BY TroubleAssumption DEF Init, TypeOK, OrNone

LEMMA StepTypeOK == TypeOK /\ [Next]_vars => TypeOK'
<1> SUFFICES ASSUME TypeOK, [Next]_vars PROVE TypeOK'
  OBVIOUS
<1>1. ASSUME NEW s \in Sessions, Load(s) PROVE TypeOK'
  BY <1>1, TroubleAssumption DEF TypeOK, OrNone, Load, Goto, checkoutVars,
     runtimeVars, recordVars, sessionVars, envVars
<1>2. ASSUME NEW s \in Sessions, LsRemote(s) PROVE TypeOK'
  BY <1>2, TroubleAssumption DEF TypeOK, OrNone, LsRemote, Goto, checkoutVars,
     runtimeVars, recordVars, sessionVars, envVars
<1>3. ASSUME NEW s \in Sessions, Inspect(s) PROVE TypeOK'
  BY <1>3, TroubleAssumption DEF TypeOK, OrNone, Inspect, Goto, checkoutVars,
     runtimeVars, recordVars, sessionVars, envVars
<1>4. ASSUME NEW s \in Sessions, ReportUpToDate(s) PROVE TypeOK'
  BY <1>4, TroubleAssumption DEF TypeOK, OrNone, ReportUpToDate, Goto, Ends,
     checkoutVars, runtimeVars, recordVars, sessionVars, envVars
<1>5. ASSUME NEW s \in Sessions, Clone(s) PROVE TypeOK'
  BY <1>5, TroubleAssumption DEF TypeOK, OrNone, Clone, Goto, Disturbs, Relying,
     checkoutVars, runtimeVars, recordVars, sessionVars, envVars
<1>6. ASSUME NEW s \in Sessions, Fetch(s) PROVE TypeOK'
  BY <1>6, TroubleAssumption DEF TypeOK, OrNone, Fetch, Goto, checkoutVars,
     runtimeVars, recordVars, sessionVars, envVars
<1>7. ASSUME NEW s \in Sessions, Merge(s) PROVE TypeOK'
  BY <1>7, TroubleAssumption DEF TypeOK, OrNone, Merge, Goto, Disturbs, Relying,
     checkoutVars, runtimeVars, recordVars, sessionVars, envVars
<1>8. ASSUME NEW s \in Sessions, Validate(s) PROVE TypeOK'
  BY <1>8, TroubleAssumption DEF TypeOK, OrNone, Validate, Goto, checkoutVars,
     runtimeVars, recordVars, sessionVars, envVars
<1>9. ASSUME NEW s \in Sessions, Pip(s) PROVE TypeOK'
  BY <1>9, TroubleAssumption DEF TypeOK, OrNone, Pip, Goto, Installing,
     checkoutVars, runtimeVars, recordVars, sessionVars, envVars
<1>10. ASSUME NEW s \in Sessions, StartInstaller(s) PROVE TypeOK'
  BY <1>10, TroubleAssumption DEF TypeOK, OrNone, StartInstaller, Goto,
     checkoutVars, runtimeVars, recordVars, sessionVars, envVars
<1>11. ASSUME NEW s \in Sessions, RunInstaller(s) PROVE TypeOK'
  BY <1>11, TroubleAssumption DEF TypeOK, OrNone, RunInstaller, Goto, checkoutVars,
     runtimeVars, recordVars, sessionVars, envVars
<1>12. ASSUME NEW s \in Sessions, Record(s) PROVE TypeOK'
  BY <1>12, TroubleAssumption DEF TypeOK, OrNone, Record, Goto, Ends, checkoutVars,
     runtimeVars, recordVars, sessionVars, envVars
<1>13. ASSUME NEW s \in Sessions, Refuse(s) PROVE TypeOK'
  BY <1>13, TroubleAssumption DEF TypeOK, OrNone, Refuse, Goto, Ends, checkoutVars,
     runtimeVars, recordVars, sessionVars, envVars
<1>14. ASSUME NEW s \in Sessions, End(s) PROVE TypeOK'
  BY <1>14, TroubleAssumption DEF TypeOK, OrNone, End, Goto, Ends, Troubles,
     checkoutVars, runtimeVars, recordVars, sessionVars, envVars
<1>15. ASSUME NEW s \in Sessions, Cut(s) PROVE TypeOK'
  BY <1>15, TroubleAssumption DEF TypeOK, OrNone, Cut, Goto, Disturbs, Relying,
     Troubles, checkoutVars, runtimeVars, recordVars, sessionVars, envVars
<1>16. ASSUME NEW r \in Revisions, Push(r) PROVE TypeOK'
  BY <1>16, TroubleAssumption DEF TypeOK, OrNone, Push, Troubles, checkoutVars,
     runtimeVars, recordVars, sessionVars, envVars
<1>17. ASSUME NEW r \in Revisions, ManualInstall(r) PROVE TypeOK'
  BY <1>17, TroubleAssumption DEF TypeOK, OrNone, ManualInstall, Troubles,
     checkoutVars, runtimeVars, recordVars, sessionVars, envVars
<1>18. ASSUME NEW r \in past, OtherSaves(r) PROVE TypeOK'
  BY <1>18, TroubleAssumption DEF TypeOK, OrNone, OtherSaves, Troubles,
     checkoutVars, runtimeVars, recordVars, sessionVars, envVars
<1>19. CASE RemoveState
  BY <1>19, TroubleAssumption DEF TypeOK, OrNone, RemoveState, Troubles, Relying,
     checkoutVars, runtimeVars, recordVars, sessionVars, envVars
<1>20. CASE AdminEdits
  BY <1>20, TroubleAssumption DEF TypeOK, OrNone, AdminEdits, Troubles, Relying,
     checkoutVars, runtimeVars, recordVars, sessionVars, envVars
<1>21. CASE AdminCleans
  BY <1>21, TroubleAssumption DEF TypeOK, OrNone, AdminCleans, checkoutVars,
     runtimeVars, recordVars, sessionVars, envVars
<1>22. CASE UNCHANGED vars
  BY <1>22, TroubleAssumption DEF TypeOK, OrNone, vars, checkoutVars, runtimeVars,
     recordVars, sessionVars, envVars
<1> QED
  BY <1>1, <1>2, <1>3, <1>4, <1>5, <1>6, <1>7, <1>8, <1>9, <1>10, <1>11, <1>12,
     <1>13, <1>14, <1>15, <1>16, <1>17, <1>18, <1>19, <1>20, <1>21, <1>22
     DEF Next, Progress, Trouble

-----------------------------------------------------------------------------
(* The parts of the invariant.                                             *)

LEMMA StepKnown == TypeOK /\ Known /\ [Next]_vars => Known'
<1> SUFFICES ASSUME TypeOK, Known, [Next]_vars PROVE Known'
  OBVIOUS
<1>1. ASSUME NEW s \in Sessions, Load(s) PROVE Known'
  BY <1>1 DEF Known, TypeOK, Load, Goto, checkoutVars, runtimeVars, recordVars,
     sessionVars, envVars
<1>2. ASSUME NEW s \in Sessions, LsRemote(s) PROVE Known'
  BY <1>2 DEF Known, TypeOK, LsRemote, Goto, checkoutVars, runtimeVars, recordVars,
     sessionVars, envVars
<1>3. ASSUME NEW s \in Sessions, Inspect(s) PROVE Known'
  BY <1>3 DEF Known, TypeOK, Inspect, Goto, checkoutVars, runtimeVars, recordVars,
     sessionVars, envVars
<1>4. ASSUME NEW s \in Sessions, ReportUpToDate(s) PROVE Known'
  BY <1>4 DEF Known, TypeOK, ReportUpToDate, Goto, Ends, checkoutVars, runtimeVars,
     recordVars, sessionVars, envVars
<1>5. ASSUME NEW s \in Sessions, Clone(s) PROVE Known'
  BY <1>5 DEF Known, TypeOK, Clone, Goto, Disturbs, Relying, checkoutVars,
     runtimeVars, recordVars, sessionVars, envVars
<1>6. ASSUME NEW s \in Sessions, Fetch(s) PROVE Known'
  BY <1>6 DEF Known, TypeOK, Fetch, Goto, checkoutVars, runtimeVars, recordVars,
     sessionVars, envVars
<1>7. ASSUME NEW s \in Sessions, Merge(s) PROVE Known'
  BY <1>7 DEF Known, TypeOK, Merge, Goto, Disturbs, Relying, checkoutVars,
     runtimeVars, recordVars, sessionVars, envVars
<1>8. ASSUME NEW s \in Sessions, Validate(s) PROVE Known'
  BY <1>8 DEF Known, TypeOK, Validate, Goto, checkoutVars, runtimeVars, recordVars,
     sessionVars, envVars
<1>9. ASSUME NEW s \in Sessions, Pip(s) PROVE Known'
  BY <1>9 DEF Known, TypeOK, Pip, Goto, Installing, checkoutVars, runtimeVars,
     recordVars, sessionVars, envVars
<1>10. ASSUME NEW s \in Sessions, StartInstaller(s) PROVE Known'
  BY <1>10 DEF Known, TypeOK, StartInstaller, Goto, checkoutVars, runtimeVars,
     recordVars, sessionVars, envVars
<1>11. ASSUME NEW s \in Sessions, RunInstaller(s) PROVE Known'
  BY <1>11 DEF Known, TypeOK, RunInstaller, Goto, checkoutVars, runtimeVars,
     recordVars, sessionVars, envVars
<1>12. ASSUME NEW s \in Sessions, Record(s) PROVE Known'
  BY <1>12 DEF Known, TypeOK, Record, Goto, Ends, checkoutVars, runtimeVars,
     recordVars, sessionVars, envVars
<1>13. ASSUME NEW s \in Sessions, Refuse(s) PROVE Known'
  BY <1>13 DEF Known, TypeOK, Refuse, Goto, Ends, checkoutVars, runtimeVars,
     recordVars, sessionVars, envVars
<1>14. ASSUME NEW s \in Sessions, End(s) PROVE Known'
  BY <1>14 DEF Known, TypeOK, End, Goto, Ends, Troubles, checkoutVars, runtimeVars,
     recordVars, sessionVars, envVars
<1>15. ASSUME NEW s \in Sessions, Cut(s) PROVE Known'
  BY <1>15 DEF Known, TypeOK, Cut, Goto, Disturbs, Relying, Troubles, checkoutVars,
     runtimeVars, recordVars, sessionVars, envVars
<1>16. ASSUME NEW r \in Revisions, Push(r) PROVE Known'
  BY <1>16 DEF Known, TypeOK, Push, Troubles, checkoutVars, runtimeVars, recordVars,
     sessionVars, envVars
<1>17. ASSUME NEW r \in Revisions, ManualInstall(r) PROVE Known'
  BY <1>17 DEF Known, TypeOK, ManualInstall, Troubles, checkoutVars, runtimeVars,
     recordVars, sessionVars, envVars
<1>18. ASSUME NEW r \in past, OtherSaves(r) PROVE Known'
  BY <1>18 DEF Known, TypeOK, OtherSaves, Troubles, checkoutVars, runtimeVars,
     recordVars, sessionVars, envVars
<1>19. CASE RemoveState
  BY <1>19 DEF Known, TypeOK, RemoveState, Troubles, Relying, checkoutVars,
     runtimeVars, recordVars, sessionVars, envVars
<1>20. CASE AdminEdits
  BY <1>20 DEF Known, TypeOK, AdminEdits, Troubles, Relying, checkoutVars,
     runtimeVars, recordVars, sessionVars, envVars
<1>21. CASE AdminCleans
  BY <1>21 DEF Known, TypeOK, AdminCleans, checkoutVars, runtimeVars, recordVars,
     sessionVars, envVars
<1>22. CASE UNCHANGED vars
  BY <1>22 DEF Known, TypeOK, vars, checkoutVars, runtimeVars, recordVars,
     sessionVars, envVars
<1> QED
  BY <1>1, <1>2, <1>3, <1>4, <1>5, <1>6, <1>7, <1>8, <1>9, <1>10, <1>11, <1>12,
     <1>13, <1>14, <1>15, <1>16, <1>17, <1>18, <1>19, <1>20, <1>21, <1>22
     DEF Next, Progress, Trouble

LEMMA StepTargets == TypeOK /\ Targets /\ [Next]_vars => Targets'
<1> SUFFICES ASSUME TypeOK, Targets, [Next]_vars PROVE Targets'
  OBVIOUS
<1>1. ASSUME NEW s \in Sessions, Load(s) PROVE Targets'
  BY <1>1 DEF Targets, TypeOK, Load, Goto, checkoutVars, runtimeVars, recordVars,
     sessionVars, envVars
<1>2. ASSUME NEW s \in Sessions, LsRemote(s) PROVE Targets'
  BY <1>2 DEF Targets, TypeOK, LsRemote, Goto, checkoutVars, runtimeVars,
     recordVars, sessionVars, envVars
<1>3. ASSUME NEW s \in Sessions, Inspect(s) PROVE Targets'
  BY <1>3 DEF Targets, TypeOK, Inspect, Goto, checkoutVars, runtimeVars, recordVars,
     sessionVars, envVars
<1>4. ASSUME NEW s \in Sessions, ReportUpToDate(s) PROVE Targets'
  BY <1>4 DEF Targets, TypeOK, ReportUpToDate, Goto, Ends, checkoutVars,
     runtimeVars, recordVars, sessionVars, envVars
<1>5. ASSUME NEW s \in Sessions, Clone(s) PROVE Targets'
  BY <1>5 DEF Targets, TypeOK, Clone, Goto, Disturbs, Relying, checkoutVars,
     runtimeVars, recordVars, sessionVars, envVars
<1>6. ASSUME NEW s \in Sessions, Fetch(s) PROVE Targets'
  BY <1>6 DEF Targets, TypeOK, Fetch, Goto, checkoutVars, runtimeVars, recordVars,
     sessionVars, envVars
<1>7. ASSUME NEW s \in Sessions, Merge(s) PROVE Targets'
  BY <1>7 DEF Targets, TypeOK, Merge, Goto, Disturbs, Relying, checkoutVars,
     runtimeVars, recordVars, sessionVars, envVars
<1>8. ASSUME NEW s \in Sessions, Validate(s) PROVE Targets'
  BY <1>8 DEF Targets, TypeOK, Validate, Goto, checkoutVars, runtimeVars,
     recordVars, sessionVars, envVars
<1>9. ASSUME NEW s \in Sessions, Pip(s) PROVE Targets'
  BY <1>9 DEF Targets, TypeOK, Pip, Goto, Installing, checkoutVars, runtimeVars,
     recordVars, sessionVars, envVars
<1>10. ASSUME NEW s \in Sessions, StartInstaller(s) PROVE Targets'
  BY <1>10 DEF Targets, TypeOK, StartInstaller, Goto, checkoutVars, runtimeVars,
     recordVars, sessionVars, envVars
<1>11. ASSUME NEW s \in Sessions, RunInstaller(s) PROVE Targets'
  BY <1>11 DEF Targets, TypeOK, RunInstaller, Goto, checkoutVars, runtimeVars,
     recordVars, sessionVars, envVars
<1>12. ASSUME NEW s \in Sessions, Record(s) PROVE Targets'
  BY <1>12 DEF Targets, TypeOK, Record, Goto, Ends, checkoutVars, runtimeVars,
     recordVars, sessionVars, envVars
<1>13. ASSUME NEW s \in Sessions, Refuse(s) PROVE Targets'
  BY <1>13 DEF Targets, TypeOK, Refuse, Goto, Ends, checkoutVars, runtimeVars,
     recordVars, sessionVars, envVars
<1>14. ASSUME NEW s \in Sessions, End(s) PROVE Targets'
  BY <1>14 DEF Targets, TypeOK, End, Goto, Ends, Troubles, checkoutVars,
     runtimeVars, recordVars, sessionVars, envVars
<1>15. ASSUME NEW s \in Sessions, Cut(s) PROVE Targets'
  BY <1>15 DEF Targets, TypeOK, Cut, Goto, Disturbs, Relying, Troubles,
     checkoutVars, runtimeVars, recordVars, sessionVars, envVars
<1>16. ASSUME NEW r \in Revisions, Push(r) PROVE Targets'
  BY <1>16 DEF Targets, TypeOK, Push, Troubles, checkoutVars, runtimeVars,
     recordVars, sessionVars, envVars
<1>17. ASSUME NEW r \in Revisions, ManualInstall(r) PROVE Targets'
  BY <1>17 DEF Targets, TypeOK, ManualInstall, Troubles, checkoutVars, runtimeVars,
     recordVars, sessionVars, envVars
<1>18. ASSUME NEW r \in past, OtherSaves(r) PROVE Targets'
  BY <1>18 DEF Targets, TypeOK, OtherSaves, Troubles, checkoutVars, runtimeVars,
     recordVars, sessionVars, envVars
<1>19. CASE RemoveState
  BY <1>19 DEF Targets, TypeOK, RemoveState, Troubles, Relying, checkoutVars,
     runtimeVars, recordVars, sessionVars, envVars
<1>20. CASE AdminEdits
  BY <1>20 DEF Targets, TypeOK, AdminEdits, Troubles, Relying, checkoutVars,
     runtimeVars, recordVars, sessionVars, envVars
<1>21. CASE AdminCleans
  BY <1>21 DEF Targets, TypeOK, AdminCleans, checkoutVars, runtimeVars, recordVars,
     sessionVars, envVars
<1>22. CASE UNCHANGED vars
  BY <1>22 DEF Targets, TypeOK, vars, checkoutVars, runtimeVars, recordVars,
     sessionVars, envVars
<1> QED
  BY <1>1, <1>2, <1>3, <1>4, <1>5, <1>6, <1>7, <1>8, <1>9, <1>10, <1>11, <1>12,
     <1>13, <1>14, <1>15, <1>16, <1>17, <1>18, <1>19, <1>20, <1>21, <1>22
     DEF Next, Progress, Trouble

LEMMA StepBehind == TypeOK /\ Known /\ Behind /\ [Next]_vars => Behind'
<1> SUFFICES ASSUME TypeOK, Known, Behind, [Next]_vars PROVE Behind'
  OBVIOUS
<1>1. ASSUME NEW s \in Sessions, Load(s) PROVE Behind'
  BY <1>1, NoneIsNoRevision, ReachesItself, UnderTransitive, ReachesTransitive DEF
     Behind, Known, TypeOK, OrNone, Under, Load, Goto, checkoutVars, runtimeVars,
     recordVars, sessionVars, envVars
<1>2. ASSUME NEW s \in Sessions, LsRemote(s) PROVE Behind'
  BY <1>2, NoneIsNoRevision, ReachesItself, UnderTransitive, ReachesTransitive DEF
     Behind, Known, TypeOK, OrNone, Under, LsRemote, Goto, checkoutVars,
     runtimeVars, recordVars, sessionVars, envVars
<1>3. ASSUME NEW s \in Sessions, Inspect(s) PROVE Behind'
  BY <1>3, NoneIsNoRevision, ReachesItself, UnderTransitive, ReachesTransitive DEF
     Behind, Known, TypeOK, OrNone, Under, Inspect, Goto, checkoutVars, runtimeVars,
     recordVars, sessionVars, envVars
<1>4. ASSUME NEW s \in Sessions, ReportUpToDate(s) PROVE Behind'
  BY <1>4, NoneIsNoRevision, ReachesItself, UnderTransitive, ReachesTransitive DEF
     Behind, Known, TypeOK, OrNone, Under, ReportUpToDate, Goto, Ends, checkoutVars,
     runtimeVars, recordVars, sessionVars, envVars
<1>5. ASSUME NEW s \in Sessions, Clone(s) PROVE Behind'
  BY <1>5, NoneIsNoRevision, ReachesItself, UnderTransitive, ReachesTransitive DEF
     Behind, Known, TypeOK, OrNone, Under, Clone, Goto, Disturbs, Relying,
     checkoutVars, runtimeVars, recordVars, sessionVars, envVars
<1>6. ASSUME NEW s \in Sessions, Fetch(s) PROVE Behind'
  BY <1>6, NoneIsNoRevision, ReachesItself, UnderTransitive, ReachesTransitive DEF
     Behind, Known, TypeOK, OrNone, Under, Fetch, Goto, checkoutVars, runtimeVars,
     recordVars, sessionVars, envVars
<1>7. ASSUME NEW s \in Sessions, Merge(s) PROVE Behind'
  BY <1>7, NoneIsNoRevision, ReachesItself, UnderTransitive, ReachesTransitive DEF
     Behind, Known, TypeOK, OrNone, Under, Merge, Goto, Disturbs, Relying,
     checkoutVars, runtimeVars, recordVars, sessionVars, envVars
<1>8. ASSUME NEW s \in Sessions, Validate(s) PROVE Behind'
  BY <1>8, NoneIsNoRevision, ReachesItself, UnderTransitive, ReachesTransitive DEF
     Behind, Known, TypeOK, OrNone, Under, Validate, Goto, checkoutVars,
     runtimeVars, recordVars, sessionVars, envVars
<1>9. ASSUME NEW s \in Sessions, Pip(s) PROVE Behind'
  BY <1>9, NoneIsNoRevision, ReachesItself, UnderTransitive, ReachesTransitive DEF
     Behind, Known, TypeOK, OrNone, Under, Pip, Goto, Installing, checkoutVars,
     runtimeVars, recordVars, sessionVars, envVars
<1>10. ASSUME NEW s \in Sessions, StartInstaller(s) PROVE Behind'
  BY <1>10, NoneIsNoRevision, ReachesItself, UnderTransitive, ReachesTransitive DEF
     Behind, Known, TypeOK, OrNone, Under, StartInstaller, Goto, checkoutVars,
     runtimeVars, recordVars, sessionVars, envVars
<1>11. ASSUME NEW s \in Sessions, RunInstaller(s) PROVE Behind'
  BY <1>11, NoneIsNoRevision, ReachesItself, UnderTransitive, ReachesTransitive DEF
     Behind, Known, TypeOK, OrNone, Under, RunInstaller, Goto, checkoutVars,
     runtimeVars, recordVars, sessionVars, envVars
<1>12. ASSUME NEW s \in Sessions, Record(s) PROVE Behind'
  BY <1>12, NoneIsNoRevision, ReachesItself, UnderTransitive, ReachesTransitive DEF
     Behind, Known, TypeOK, OrNone, Under, Record, Goto, Ends, checkoutVars,
     runtimeVars, recordVars, sessionVars, envVars
<1>13. ASSUME NEW s \in Sessions, Refuse(s) PROVE Behind'
  BY <1>13, NoneIsNoRevision, ReachesItself, UnderTransitive, ReachesTransitive DEF
     Behind, Known, TypeOK, OrNone, Under, Refuse, Goto, Ends, checkoutVars,
     runtimeVars, recordVars, sessionVars, envVars
<1>14. ASSUME NEW s \in Sessions, End(s) PROVE Behind'
  BY <1>14, NoneIsNoRevision, ReachesItself, UnderTransitive, ReachesTransitive DEF
     Behind, Known, TypeOK, OrNone, Under, End, Goto, Ends, Troubles, checkoutVars,
     runtimeVars, recordVars, sessionVars, envVars
<1>15. ASSUME NEW s \in Sessions, Cut(s) PROVE Behind'
  BY <1>15, NoneIsNoRevision, ReachesItself, UnderTransitive, ReachesTransitive DEF
     Behind, Known, TypeOK, OrNone, Under, Cut, Goto, Disturbs, Relying, Troubles,
     checkoutVars, runtimeVars, recordVars, sessionVars, envVars
<1>16. ASSUME NEW r \in Revisions, Push(r) PROVE Behind'
  BY <1>16, NoneIsNoRevision, ReachesItself, UnderTransitive, ReachesTransitive DEF
     Behind, Known, TypeOK, OrNone, Under, Push, Troubles, checkoutVars,
     runtimeVars, recordVars, sessionVars, envVars
<1>17. ASSUME NEW r \in Revisions, ManualInstall(r) PROVE Behind'
  BY <1>17, NoneIsNoRevision, ReachesItself, UnderTransitive, ReachesTransitive DEF
     Behind, Known, TypeOK, OrNone, Under, ManualInstall, Troubles, checkoutVars,
     runtimeVars, recordVars, sessionVars, envVars
<1>18. ASSUME NEW r \in past, OtherSaves(r) PROVE Behind'
  BY <1>18, NoneIsNoRevision, ReachesItself, UnderTransitive, ReachesTransitive DEF
     Behind, Known, TypeOK, OrNone, Under, OtherSaves, Troubles, checkoutVars,
     runtimeVars, recordVars, sessionVars, envVars
<1>19. CASE RemoveState
  BY <1>19, NoneIsNoRevision, ReachesItself, UnderTransitive, ReachesTransitive DEF
     Behind, Known, TypeOK, OrNone, Under, RemoveState, Troubles, Relying,
     checkoutVars, runtimeVars, recordVars, sessionVars, envVars
<1>20. CASE AdminEdits
  BY <1>20, NoneIsNoRevision, ReachesItself, UnderTransitive, ReachesTransitive DEF
     Behind, Known, TypeOK, OrNone, Under, AdminEdits, Troubles, Relying,
     checkoutVars, runtimeVars, recordVars, sessionVars, envVars
<1>21. CASE AdminCleans
  BY <1>21, NoneIsNoRevision, ReachesItself, UnderTransitive, ReachesTransitive DEF
     Behind, Known, TypeOK, OrNone, Under, AdminCleans, checkoutVars, runtimeVars,
     recordVars, sessionVars, envVars
<1>22. CASE UNCHANGED vars
  BY <1>22, NoneIsNoRevision, ReachesItself, UnderTransitive, ReachesTransitive DEF
     Behind, Known, TypeOK, OrNone, Under, vars, checkoutVars, runtimeVars,
     recordVars, sessionVars, envVars
<1> QED
  BY <1>1, <1>2, <1>3, <1>4, <1>5, <1>6, <1>7, <1>8, <1>9, <1>10, <1>11, <1>12,
     <1>13, <1>14, <1>15, <1>16, <1>17, <1>18, <1>19, <1>20, <1>21, <1>22
     DEF Next, Progress, Trouble

LEMMA StepAhead == TypeOK /\ Known /\ Behind /\ Ahead /\ [Next]_vars => Ahead'
<1> SUFFICES ASSUME TypeOK, Known, Behind, Ahead, [Next]_vars PROVE Ahead'
  OBVIOUS
<1>1. ASSUME NEW s \in Sessions, Load(s) PROVE Ahead'
  BY <1>1, NoneIsNoRevision, ReachesItself, UnderTransitive, ReachesTransitive DEF
     Ahead, Behind, Known, Checked, TypeOK, OrNone, Under, Load, Goto, checkoutVars,
     runtimeVars, recordVars, sessionVars, envVars
<1>2. ASSUME NEW s \in Sessions, LsRemote(s) PROVE Ahead'
  BY <1>2, NoneIsNoRevision, ReachesItself, UnderTransitive, ReachesTransitive DEF
     Ahead, Behind, Known, Checked, TypeOK, OrNone, Under, LsRemote, Goto,
     checkoutVars, runtimeVars, recordVars, sessionVars, envVars
<1>3. ASSUME NEW s \in Sessions, Inspect(s) PROVE Ahead'
  BY <1>3, NoneIsNoRevision, ReachesItself, UnderTransitive, ReachesTransitive DEF
     Ahead, Behind, Known, Checked, TypeOK, OrNone, Under, Inspect, Goto,
     checkoutVars, runtimeVars, recordVars, sessionVars, envVars
<1>4. ASSUME NEW s \in Sessions, ReportUpToDate(s) PROVE Ahead'
  BY <1>4, NoneIsNoRevision, ReachesItself, UnderTransitive, ReachesTransitive DEF
     Ahead, Behind, Known, Checked, TypeOK, OrNone, Under, ReportUpToDate, Goto,
     Ends, checkoutVars, runtimeVars, recordVars, sessionVars, envVars
<1>5. ASSUME NEW s \in Sessions, Clone(s) PROVE Ahead'
  BY <1>5, NoneIsNoRevision, ReachesItself, UnderTransitive, ReachesTransitive DEF
     Ahead, Behind, Known, Checked, TypeOK, OrNone, Under, Clone, Goto, Disturbs,
     Relying, checkoutVars, runtimeVars, recordVars, sessionVars, envVars
<1>6. ASSUME NEW s \in Sessions, Fetch(s) PROVE Ahead'
  BY <1>6, NoneIsNoRevision, ReachesItself, UnderTransitive, ReachesTransitive DEF
     Ahead, Behind, Known, Checked, TypeOK, OrNone, Under, Fetch, Goto,
     checkoutVars, runtimeVars, recordVars, sessionVars, envVars
<1>7. ASSUME NEW s \in Sessions, Merge(s) PROVE Ahead'
  BY <1>7, NoneIsNoRevision, ReachesItself, UnderTransitive, ReachesTransitive DEF
     Ahead, Behind, Known, Checked, TypeOK, OrNone, Under, Merge, Goto, Disturbs,
     Relying, checkoutVars, runtimeVars, recordVars, sessionVars, envVars
<1>8. ASSUME NEW s \in Sessions, Validate(s) PROVE Ahead'
  BY <1>8, NoneIsNoRevision, ReachesItself, UnderTransitive, ReachesTransitive DEF
     Ahead, Behind, Known, Checked, TypeOK, OrNone, Under, Validate, Goto,
     checkoutVars, runtimeVars, recordVars, sessionVars, envVars
<1>9. ASSUME NEW s \in Sessions, Pip(s) PROVE Ahead'
  BY <1>9, NoneIsNoRevision, ReachesItself, UnderTransitive, ReachesTransitive DEF
     Ahead, Behind, Known, Checked, TypeOK, OrNone, Under, Pip, Goto, Installing,
     checkoutVars, runtimeVars, recordVars, sessionVars, envVars
<1>10. ASSUME NEW s \in Sessions, StartInstaller(s) PROVE Ahead'
  BY <1>10, NoneIsNoRevision, ReachesItself, UnderTransitive, ReachesTransitive DEF
     Ahead, Behind, Known, Checked, TypeOK, OrNone, Under, StartInstaller, Goto,
     checkoutVars, runtimeVars, recordVars, sessionVars, envVars
<1>11. ASSUME NEW s \in Sessions, RunInstaller(s) PROVE Ahead'
  BY <1>11, NoneIsNoRevision, ReachesItself, UnderTransitive, ReachesTransitive DEF
     Ahead, Behind, Known, Checked, TypeOK, OrNone, Under, RunInstaller, Goto,
     checkoutVars, runtimeVars, recordVars, sessionVars, envVars
<1>12. ASSUME NEW s \in Sessions, Record(s) PROVE Ahead'
  BY <1>12, NoneIsNoRevision, ReachesItself, UnderTransitive, ReachesTransitive DEF
     Ahead, Behind, Known, Checked, TypeOK, OrNone, Under, Record, Goto, Ends,
     checkoutVars, runtimeVars, recordVars, sessionVars, envVars
<1>13. ASSUME NEW s \in Sessions, Refuse(s) PROVE Ahead'
  BY <1>13, NoneIsNoRevision, ReachesItself, UnderTransitive, ReachesTransitive DEF
     Ahead, Behind, Known, Checked, TypeOK, OrNone, Under, Refuse, Goto, Ends,
     checkoutVars, runtimeVars, recordVars, sessionVars, envVars
<1>14. ASSUME NEW s \in Sessions, End(s) PROVE Ahead'
  BY <1>14, NoneIsNoRevision, ReachesItself, UnderTransitive, ReachesTransitive DEF
     Ahead, Behind, Known, Checked, TypeOK, OrNone, Under, End, Goto, Ends,
     Troubles, checkoutVars, runtimeVars, recordVars, sessionVars, envVars
<1>15. ASSUME NEW s \in Sessions, Cut(s) PROVE Ahead'
  BY <1>15, NoneIsNoRevision, ReachesItself, UnderTransitive, ReachesTransitive DEF
     Ahead, Behind, Known, Checked, TypeOK, OrNone, Under, Cut, Goto, Disturbs,
     Relying, Troubles, checkoutVars, runtimeVars, recordVars, sessionVars, envVars
<1>16. ASSUME NEW r \in Revisions, Push(r) PROVE Ahead'
  BY <1>16, NoneIsNoRevision, ReachesItself, UnderTransitive, ReachesTransitive DEF
     Ahead, Behind, Known, Checked, TypeOK, OrNone, Under, Push, Troubles,
     checkoutVars, runtimeVars, recordVars, sessionVars, envVars
<1>17. ASSUME NEW r \in Revisions, ManualInstall(r) PROVE Ahead'
  BY <1>17, NoneIsNoRevision, ReachesItself, UnderTransitive, ReachesTransitive DEF
     Ahead, Behind, Known, Checked, TypeOK, OrNone, Under, ManualInstall, Troubles,
     checkoutVars, runtimeVars, recordVars, sessionVars, envVars
<1>18. ASSUME NEW r \in past, OtherSaves(r) PROVE Ahead'
  BY <1>18, NoneIsNoRevision, ReachesItself, UnderTransitive, ReachesTransitive DEF
     Ahead, Behind, Known, Checked, TypeOK, OrNone, Under, OtherSaves, Troubles,
     checkoutVars, runtimeVars, recordVars, sessionVars, envVars
<1>19. CASE RemoveState
  BY <1>19, NoneIsNoRevision, ReachesItself, UnderTransitive, ReachesTransitive DEF
     Ahead, Behind, Known, Checked, TypeOK, OrNone, Under, RemoveState, Troubles,
     Relying, checkoutVars, runtimeVars, recordVars, sessionVars, envVars
<1>20. CASE AdminEdits
  BY <1>20, NoneIsNoRevision, ReachesItself, UnderTransitive, ReachesTransitive DEF
     Ahead, Behind, Known, Checked, TypeOK, OrNone, Under, AdminEdits, Troubles,
     Relying, checkoutVars, runtimeVars, recordVars, sessionVars, envVars
<1>21. CASE AdminCleans
  BY <1>21, NoneIsNoRevision, ReachesItself, UnderTransitive, ReachesTransitive DEF
     Ahead, Behind, Known, Checked, TypeOK, OrNone, Under, AdminCleans,
     checkoutVars, runtimeVars, recordVars, sessionVars, envVars
<1>22. CASE UNCHANGED vars
  BY <1>22, NoneIsNoRevision, ReachesItself, UnderTransitive, ReachesTransitive DEF
     Ahead, Behind, Known, Checked, TypeOK, OrNone, Under, vars, checkoutVars,
     runtimeVars, recordVars, sessionVars, envVars
<1> QED
  BY <1>1, <1>2, <1>3, <1>4, <1>5, <1>6, <1>7, <1>8, <1>9, <1>10, <1>11, <1>12,
     <1>13, <1>14, <1>15, <1>16, <1>17, <1>18, <1>19, <1>20, <1>21, <1>22
     DEF Next, Progress, Trouble

LEMMA StepFromCheckout == TypeOK /\ FromCheckout /\ [Next]_vars => FromCheckout'
<1> SUFFICES ASSUME TypeOK, FromCheckout, [Next]_vars PROVE FromCheckout'
  OBVIOUS
<1>1. ASSUME NEW s \in Sessions, Load(s) PROVE FromCheckout'
  BY <1>1, NoneIsNoRevision, ReachesItself, ReachesTransitive DEF FromCheckout,
     TypeOK, OrNone, Load, Goto, checkoutVars, runtimeVars, recordVars, sessionVars,
     envVars
<1>2. ASSUME NEW s \in Sessions, LsRemote(s) PROVE FromCheckout'
  BY <1>2, NoneIsNoRevision, ReachesItself, ReachesTransitive DEF FromCheckout,
     TypeOK, OrNone, LsRemote, Goto, checkoutVars, runtimeVars, recordVars,
     sessionVars, envVars
<1>3. ASSUME NEW s \in Sessions, Inspect(s) PROVE FromCheckout'
  BY <1>3, NoneIsNoRevision, ReachesItself, ReachesTransitive DEF FromCheckout,
     TypeOK, OrNone, Inspect, Goto, checkoutVars, runtimeVars, recordVars,
     sessionVars, envVars
<1>4. ASSUME NEW s \in Sessions, ReportUpToDate(s) PROVE FromCheckout'
  BY <1>4, NoneIsNoRevision, ReachesItself, ReachesTransitive DEF FromCheckout,
     TypeOK, OrNone, ReportUpToDate, Goto, Ends, checkoutVars, runtimeVars,
     recordVars, sessionVars, envVars
<1>5. ASSUME NEW s \in Sessions, Clone(s) PROVE FromCheckout'
  BY <1>5, NoneIsNoRevision, ReachesItself, ReachesTransitive DEF FromCheckout,
     TypeOK, OrNone, Clone, Goto, Disturbs, Relying, checkoutVars, runtimeVars,
     recordVars, sessionVars, envVars
<1>6. ASSUME NEW s \in Sessions, Fetch(s) PROVE FromCheckout'
  BY <1>6, NoneIsNoRevision, ReachesItself, ReachesTransitive DEF FromCheckout,
     TypeOK, OrNone, Fetch, Goto, checkoutVars, runtimeVars, recordVars,
     sessionVars, envVars
<1>7. ASSUME NEW s \in Sessions, Merge(s) PROVE FromCheckout'
  <2>1. checkout' = origin /\ Reaches(checkout, origin) /\ checkout # "none"
    BY <1>7 DEF Merge
  <2>2. checkout \in Revisions /\ origin \in Revisions /\ runtime \in Revisions
    BY <2>1, RevisionsAssumption DEF TypeOK, OrNone, Reaches
  <2>3. runtime' = runtime /\ foreign' = foreign
    BY <1>7 DEF Merge, runtimeVars
  <2> QED
    BY <2>1, <2>2, <2>3, ReachesTransitive, NoneIsNoRevision DEF FromCheckout
<1>8. ASSUME NEW s \in Sessions, Validate(s) PROVE FromCheckout'
  BY <1>8, NoneIsNoRevision, ReachesItself, ReachesTransitive DEF FromCheckout,
     TypeOK, OrNone, Validate, Goto, checkoutVars, runtimeVars, recordVars,
     sessionVars, envVars
<1>9. ASSUME NEW s \in Sessions, Pip(s) PROVE FromCheckout'
  BY <1>9, NoneIsNoRevision, ReachesItself, ReachesTransitive DEF FromCheckout,
     TypeOK, OrNone, Pip, Goto, Installing, checkoutVars, runtimeVars, recordVars,
     sessionVars, envVars
<1>10. ASSUME NEW s \in Sessions, StartInstaller(s) PROVE FromCheckout'
  BY <1>10, NoneIsNoRevision, ReachesItself, ReachesTransitive DEF FromCheckout,
     TypeOK, OrNone, StartInstaller, Goto, checkoutVars, runtimeVars, recordVars,
     sessionVars, envVars
<1>11. ASSUME NEW s \in Sessions, RunInstaller(s) PROVE FromCheckout'
  BY <1>11, NoneIsNoRevision, ReachesItself, ReachesTransitive DEF FromCheckout,
     TypeOK, OrNone, RunInstaller, Goto, checkoutVars, runtimeVars, recordVars,
     sessionVars, envVars
<1>12. ASSUME NEW s \in Sessions, Record(s) PROVE FromCheckout'
  BY <1>12, NoneIsNoRevision, ReachesItself, ReachesTransitive DEF FromCheckout,
     TypeOK, OrNone, Record, Goto, Ends, checkoutVars, runtimeVars, recordVars,
     sessionVars, envVars
<1>13. ASSUME NEW s \in Sessions, Refuse(s) PROVE FromCheckout'
  BY <1>13, NoneIsNoRevision, ReachesItself, ReachesTransitive DEF FromCheckout,
     TypeOK, OrNone, Refuse, Goto, Ends, checkoutVars, runtimeVars, recordVars,
     sessionVars, envVars
<1>14. ASSUME NEW s \in Sessions, End(s) PROVE FromCheckout'
  BY <1>14, NoneIsNoRevision, ReachesItself, ReachesTransitive DEF FromCheckout,
     TypeOK, OrNone, End, Goto, Ends, Troubles, checkoutVars, runtimeVars,
     recordVars, sessionVars, envVars
<1>15. ASSUME NEW s \in Sessions, Cut(s) PROVE FromCheckout'
  BY <1>15, NoneIsNoRevision, ReachesItself, ReachesTransitive DEF FromCheckout,
     TypeOK, OrNone, Cut, Goto, Disturbs, Relying, Troubles, checkoutVars,
     runtimeVars, recordVars, sessionVars, envVars
<1>16. ASSUME NEW r \in Revisions, Push(r) PROVE FromCheckout'
  BY <1>16, NoneIsNoRevision, ReachesItself, ReachesTransitive DEF FromCheckout,
     TypeOK, OrNone, Push, Troubles, checkoutVars, runtimeVars, recordVars,
     sessionVars, envVars
<1>17. ASSUME NEW r \in Revisions, ManualInstall(r) PROVE FromCheckout'
  BY <1>17, NoneIsNoRevision, ReachesItself, ReachesTransitive DEF FromCheckout,
     TypeOK, OrNone, ManualInstall, Troubles, checkoutVars, runtimeVars, recordVars,
     sessionVars, envVars
<1>18. ASSUME NEW r \in past, OtherSaves(r) PROVE FromCheckout'
  BY <1>18, NoneIsNoRevision, ReachesItself, ReachesTransitive DEF FromCheckout,
     TypeOK, OrNone, OtherSaves, Troubles, checkoutVars, runtimeVars, recordVars,
     sessionVars, envVars
<1>19. CASE RemoveState
  BY <1>19, NoneIsNoRevision, ReachesItself, ReachesTransitive DEF FromCheckout,
     TypeOK, OrNone, RemoveState, Troubles, Relying, checkoutVars, runtimeVars,
     recordVars, sessionVars, envVars
<1>20. CASE AdminEdits
  BY <1>20, NoneIsNoRevision, ReachesItself, ReachesTransitive DEF FromCheckout,
     TypeOK, OrNone, AdminEdits, Troubles, Relying, checkoutVars, runtimeVars,
     recordVars, sessionVars, envVars
<1>21. CASE AdminCleans
  BY <1>21, NoneIsNoRevision, ReachesItself, ReachesTransitive DEF FromCheckout,
     TypeOK, OrNone, AdminCleans, checkoutVars, runtimeVars, recordVars,
     sessionVars, envVars
<1>22. CASE UNCHANGED vars
  BY <1>22, NoneIsNoRevision, ReachesItself, ReachesTransitive DEF FromCheckout,
     TypeOK, OrNone, vars, checkoutVars, runtimeVars, recordVars, sessionVars,
     envVars
<1> QED
  BY <1>1, <1>2, <1>3, <1>4, <1>5, <1>6, <1>7, <1>8, <1>9, <1>10, <1>11, <1>12,
     <1>13, <1>14, <1>15, <1>16, <1>17, <1>18, <1>19, <1>20, <1>21, <1>22
     DEF Next, Progress, Trouble

LEMMA StepReflected == TypeOK /\ Targets /\ Known /\ Ahead /\ FromCheckout /\
   Reflected /\ [Next]_vars => Reflected'
<1> SUFFICES ASSUME TypeOK, Targets, Known, Ahead, FromCheckout, Reflected,
   [Next]_vars PROVE Reflected'
  OBVIOUS
<1>1. ASSUME NEW s \in Sessions, Load(s) PROVE Reflected'
  BY <1>1, NoneIsNoRevision, ReachesItself, UnderTransitive, ReachesTransitive,
     ReachesAntisymmetric DEF Reflected, Installed, Ahead, FromCheckout, Checked,
     TypeOK, Targets, Known, OrNone, Under, Load, Goto, checkoutVars, runtimeVars,
     recordVars, sessionVars, envVars
<1>2. ASSUME NEW s \in Sessions, LsRemote(s) PROVE Reflected'
  BY <1>2, NoneIsNoRevision, ReachesItself, UnderTransitive, ReachesTransitive,
     ReachesAntisymmetric DEF Reflected, Installed, Ahead, FromCheckout, Checked,
     TypeOK, Targets, Known, OrNone, Under, LsRemote, Goto, checkoutVars,
     runtimeVars, recordVars, sessionVars, envVars
<1>3. ASSUME NEW s \in Sessions, Inspect(s) PROVE Reflected'
  BY <1>3, NoneIsNoRevision, ReachesItself, UnderTransitive, ReachesTransitive,
     ReachesAntisymmetric DEF Reflected, Installed, Ahead, FromCheckout, Checked,
     TypeOK, Targets, Known, OrNone, Under, Inspect, Goto, checkoutVars,
     runtimeVars, recordVars, sessionVars, envVars
<1>4. ASSUME NEW s \in Sessions, ReportUpToDate(s) PROVE Reflected'
  BY <1>4, NoneIsNoRevision, ReachesItself, UnderTransitive, ReachesTransitive,
     ReachesAntisymmetric DEF Reflected, Installed, Ahead, FromCheckout, Checked,
     TypeOK, Targets, Known, OrNone, Under, ReportUpToDate, Goto, Ends,
     checkoutVars, runtimeVars, recordVars, sessionVars, envVars
<1>5. ASSUME NEW s \in Sessions, Clone(s) PROVE Reflected'
  BY <1>5, NoneIsNoRevision, ReachesItself, UnderTransitive, ReachesTransitive,
     ReachesAntisymmetric DEF Reflected, Installed, Ahead, FromCheckout, Checked,
     TypeOK, Targets, Known, OrNone, Under, Clone, Goto, Disturbs, Relying,
     checkoutVars, runtimeVars, recordVars, sessionVars, envVars
<1>6. ASSUME NEW s \in Sessions, Fetch(s) PROVE Reflected'
  BY <1>6, NoneIsNoRevision, ReachesItself, UnderTransitive, ReachesTransitive,
     ReachesAntisymmetric DEF Reflected, Installed, Ahead, FromCheckout, Checked,
     TypeOK, Targets, Known, OrNone, Under, Fetch, Goto, checkoutVars, runtimeVars,
     recordVars, sessionVars, envVars
<1>7. ASSUME NEW s \in Sessions, Merge(s) PROVE Reflected'
  BY <1>7, NoneIsNoRevision, ReachesItself, UnderTransitive, ReachesTransitive,
     ReachesAntisymmetric DEF Reflected, Installed, Ahead, FromCheckout, Checked,
     TypeOK, Targets, Known, OrNone, Under, Merge, Goto, Disturbs, Relying,
     checkoutVars, runtimeVars, recordVars, sessionVars, envVars
<1>8. ASSUME NEW s \in Sessions, Validate(s) PROVE Reflected'
  BY <1>8, NoneIsNoRevision, ReachesItself, UnderTransitive, ReachesTransitive,
     ReachesAntisymmetric DEF Reflected, Installed, Ahead, FromCheckout, Checked,
     TypeOK, Targets, Known, OrNone, Under, Validate, Goto, checkoutVars,
     runtimeVars, recordVars, sessionVars, envVars
<1>9. ASSUME NEW s \in Sessions, Pip(s) PROVE Reflected'
  BY <1>9, NoneIsNoRevision, ReachesItself, UnderTransitive, ReachesTransitive,
     ReachesAntisymmetric DEF Reflected, Installed, Ahead, FromCheckout, Checked,
     TypeOK, Targets, Known, OrNone, Under, Pip, Goto, Installing, checkoutVars,
     runtimeVars, recordVars, sessionVars, envVars
<1>10. ASSUME NEW s \in Sessions, StartInstaller(s) PROVE Reflected'
  BY <1>10, NoneIsNoRevision, ReachesItself, UnderTransitive, ReachesTransitive,
     ReachesAntisymmetric DEF Reflected, Installed, Ahead, FromCheckout, Checked,
     TypeOK, Targets, Known, OrNone, Under, StartInstaller, Goto, checkoutVars,
     runtimeVars, recordVars, sessionVars, envVars
<1>11. ASSUME NEW s \in Sessions, RunInstaller(s) PROVE Reflected'
  BY <1>11, NoneIsNoRevision, ReachesItself, UnderTransitive, ReachesTransitive,
     ReachesAntisymmetric DEF Reflected, Installed, Ahead, FromCheckout, Checked,
     TypeOK, Targets, Known, OrNone, Under, RunInstaller, Goto, checkoutVars,
     runtimeVars, recordVars, sessionVars, envVars
<1>12. ASSUME NEW s \in Sessions, Record(s) PROVE Reflected'
  BY <1>12, NoneIsNoRevision, ReachesItself, UnderTransitive, ReachesTransitive,
     ReachesAntisymmetric DEF Reflected, Installed, Ahead, FromCheckout, Checked,
     TypeOK, Targets, Known, OrNone, Under, Record, Goto, Ends, checkoutVars,
     runtimeVars, recordVars, sessionVars, envVars
<1>13. ASSUME NEW s \in Sessions, Refuse(s) PROVE Reflected'
  BY <1>13, NoneIsNoRevision, ReachesItself, UnderTransitive, ReachesTransitive,
     ReachesAntisymmetric DEF Reflected, Installed, Ahead, FromCheckout, Checked,
     TypeOK, Targets, Known, OrNone, Under, Refuse, Goto, Ends, checkoutVars,
     runtimeVars, recordVars, sessionVars, envVars
<1>14. ASSUME NEW s \in Sessions, End(s) PROVE Reflected'
  BY <1>14, NoneIsNoRevision, ReachesItself, UnderTransitive, ReachesTransitive,
     ReachesAntisymmetric DEF Reflected, Installed, Ahead, FromCheckout, Checked,
     TypeOK, Targets, Known, OrNone, Under, End, Goto, Ends, Troubles, checkoutVars,
     runtimeVars, recordVars, sessionVars, envVars
<1>15. ASSUME NEW s \in Sessions, Cut(s) PROVE Reflected'
  BY <1>15, NoneIsNoRevision, ReachesItself, UnderTransitive, ReachesTransitive,
     ReachesAntisymmetric DEF Reflected, Installed, Ahead, FromCheckout, Checked,
     TypeOK, Targets, Known, OrNone, Under, Cut, Goto, Disturbs, Relying, Troubles,
     checkoutVars, runtimeVars, recordVars, sessionVars, envVars
<1>16. ASSUME NEW r \in Revisions, Push(r) PROVE Reflected'
  BY <1>16, NoneIsNoRevision, ReachesItself, UnderTransitive, ReachesTransitive,
     ReachesAntisymmetric DEF Reflected, Installed, Ahead, FromCheckout, Checked,
     TypeOK, Targets, Known, OrNone, Under, Push, Troubles, checkoutVars,
     runtimeVars, recordVars, sessionVars, envVars
<1>17. ASSUME NEW r \in Revisions, ManualInstall(r) PROVE Reflected'
  BY <1>17, NoneIsNoRevision, ReachesItself, UnderTransitive, ReachesTransitive,
     ReachesAntisymmetric DEF Reflected, Installed, Ahead, FromCheckout, Checked,
     TypeOK, Targets, Known, OrNone, Under, ManualInstall, Troubles, checkoutVars,
     runtimeVars, recordVars, sessionVars, envVars
<1>18. ASSUME NEW r \in past, OtherSaves(r) PROVE Reflected'
  BY <1>18, NoneIsNoRevision, ReachesItself, UnderTransitive, ReachesTransitive,
     ReachesAntisymmetric DEF Reflected, Installed, Ahead, FromCheckout, Checked,
     TypeOK, Targets, Known, OrNone, Under, OtherSaves, Troubles, checkoutVars,
     runtimeVars, recordVars, sessionVars, envVars
<1>19. CASE RemoveState
  BY <1>19, NoneIsNoRevision, ReachesItself, UnderTransitive, ReachesTransitive,
     ReachesAntisymmetric DEF Reflected, Installed, Ahead, FromCheckout, Checked,
     TypeOK, Targets, Known, OrNone, Under, RemoveState, Troubles, Relying,
     checkoutVars, runtimeVars, recordVars, sessionVars, envVars
<1>20. CASE AdminEdits
  BY <1>20, NoneIsNoRevision, ReachesItself, UnderTransitive, ReachesTransitive,
     ReachesAntisymmetric DEF Reflected, Installed, Ahead, FromCheckout, Checked,
     TypeOK, Targets, Known, OrNone, Under, AdminEdits, Troubles, Relying,
     checkoutVars, runtimeVars, recordVars, sessionVars, envVars
<1>21. CASE AdminCleans
  BY <1>21, NoneIsNoRevision, ReachesItself, UnderTransitive, ReachesTransitive,
     ReachesAntisymmetric DEF Reflected, Installed, Ahead, FromCheckout, Checked,
     TypeOK, Targets, Known, OrNone, Under, AdminCleans, checkoutVars, runtimeVars,
     recordVars, sessionVars, envVars
<1>22. CASE UNCHANGED vars
  BY <1>22, NoneIsNoRevision, ReachesItself, UnderTransitive, ReachesTransitive,
     ReachesAntisymmetric DEF Reflected, Installed, Ahead, FromCheckout, Checked,
     TypeOK, Targets, Known, OrNone, Under, vars, checkoutVars, runtimeVars,
     recordVars, sessionVars, envVars
<1> QED
  BY <1>1, <1>2, <1>3, <1>4, <1>5, <1>6, <1>7, <1>8, <1>9, <1>10, <1>11, <1>12,
     <1>13, <1>14, <1>15, <1>16, <1>17, <1>18, <1>19, <1>20, <1>21, <1>22
     DEF Next, Progress, Trouble

LEMMA StepCheckHolds == TypeOK /\ CheckHolds /\ [Next]_vars => CheckHolds'
<1> SUFFICES ASSUME TypeOK, CheckHolds, [Next]_vars PROVE CheckHolds'
  OBVIOUS
<1>1. ASSUME NEW s \in Sessions, Load(s) PROVE CheckHolds'
  BY <1>1 DEF CheckHolds, TypeOK, Load, Goto, checkoutVars, runtimeVars, recordVars,
     sessionVars, envVars
<1>2. ASSUME NEW s \in Sessions, LsRemote(s) PROVE CheckHolds'
  BY <1>2 DEF CheckHolds, TypeOK, LsRemote, Goto, checkoutVars, runtimeVars,
     recordVars, sessionVars, envVars
<1>3. ASSUME NEW s \in Sessions, Inspect(s) PROVE CheckHolds'
  BY <1>3 DEF CheckHolds, TypeOK, Inspect, Goto, checkoutVars, runtimeVars,
     recordVars, sessionVars, envVars
<1>4. ASSUME NEW s \in Sessions, ReportUpToDate(s) PROVE CheckHolds'
  BY <1>4 DEF CheckHolds, TypeOK, ReportUpToDate, Goto, Ends, checkoutVars,
     runtimeVars, recordVars, sessionVars, envVars
<1>5. ASSUME NEW s \in Sessions, Clone(s) PROVE CheckHolds'
  BY <1>5 DEF CheckHolds, TypeOK, Clone, Goto, Disturbs, Relying, checkoutVars,
     runtimeVars, recordVars, sessionVars, envVars
<1>6. ASSUME NEW s \in Sessions, Fetch(s) PROVE CheckHolds'
  BY <1>6 DEF CheckHolds, TypeOK, Fetch, Goto, checkoutVars, runtimeVars,
     recordVars, sessionVars, envVars
<1>7. ASSUME NEW s \in Sessions, Merge(s) PROVE CheckHolds'
  BY <1>7 DEF CheckHolds, TypeOK, Merge, Goto, Disturbs, Relying, checkoutVars,
     runtimeVars, recordVars, sessionVars, envVars
<1>8. ASSUME NEW s \in Sessions, Validate(s) PROVE CheckHolds'
  BY <1>8 DEF CheckHolds, TypeOK, Validate, Goto, checkoutVars, runtimeVars,
     recordVars, sessionVars, envVars
<1>9. ASSUME NEW s \in Sessions, Pip(s) PROVE CheckHolds'
  BY <1>9 DEF CheckHolds, TypeOK, Pip, Goto, Installing, checkoutVars, runtimeVars,
     recordVars, sessionVars, envVars
<1>10. ASSUME NEW s \in Sessions, StartInstaller(s) PROVE CheckHolds'
  BY <1>10 DEF CheckHolds, TypeOK, StartInstaller, Goto, checkoutVars, runtimeVars,
     recordVars, sessionVars, envVars
<1>11. ASSUME NEW s \in Sessions, RunInstaller(s) PROVE CheckHolds'
  BY <1>11 DEF CheckHolds, TypeOK, RunInstaller, Goto, checkoutVars, runtimeVars,
     recordVars, sessionVars, envVars
<1>12. ASSUME NEW s \in Sessions, Record(s) PROVE CheckHolds'
  BY <1>12 DEF CheckHolds, TypeOK, Record, Goto, Ends, checkoutVars, runtimeVars,
     recordVars, sessionVars, envVars
<1>13. ASSUME NEW s \in Sessions, Refuse(s) PROVE CheckHolds'
  BY <1>13 DEF CheckHolds, TypeOK, Refuse, Goto, Ends, checkoutVars, runtimeVars,
     recordVars, sessionVars, envVars
<1>14. ASSUME NEW s \in Sessions, End(s) PROVE CheckHolds'
  BY <1>14 DEF CheckHolds, TypeOK, End, Goto, Ends, Troubles, checkoutVars,
     runtimeVars, recordVars, sessionVars, envVars
<1>15. ASSUME NEW s \in Sessions, Cut(s) PROVE CheckHolds'
  BY <1>15 DEF CheckHolds, TypeOK, Cut, Goto, Disturbs, Relying, Troubles,
     checkoutVars, runtimeVars, recordVars, sessionVars, envVars
<1>16. ASSUME NEW r \in Revisions, Push(r) PROVE CheckHolds'
  BY <1>16 DEF CheckHolds, TypeOK, Push, Troubles, checkoutVars, runtimeVars,
     recordVars, sessionVars, envVars
<1>17. ASSUME NEW r \in Revisions, ManualInstall(r) PROVE CheckHolds'
  BY <1>17 DEF CheckHolds, TypeOK, ManualInstall, Troubles, checkoutVars,
     runtimeVars, recordVars, sessionVars, envVars
<1>18. ASSUME NEW r \in past, OtherSaves(r) PROVE CheckHolds'
  BY <1>18 DEF CheckHolds, TypeOK, OtherSaves, Troubles, checkoutVars, runtimeVars,
     recordVars, sessionVars, envVars
<1>19. CASE RemoveState
  BY <1>19 DEF CheckHolds, TypeOK, RemoveState, Troubles, Relying, checkoutVars,
     runtimeVars, recordVars, sessionVars, envVars
<1>20. CASE AdminEdits
  BY <1>20 DEF CheckHolds, TypeOK, AdminEdits, Troubles, Relying, checkoutVars,
     runtimeVars, recordVars, sessionVars, envVars
<1>21. CASE AdminCleans
  BY <1>21 DEF CheckHolds, TypeOK, AdminCleans, checkoutVars, runtimeVars,
     recordVars, sessionVars, envVars
<1>22. CASE UNCHANGED vars
  BY <1>22 DEF CheckHolds, TypeOK, vars, checkoutVars, runtimeVars, recordVars,
     sessionVars, envVars
<1> QED
  BY <1>1, <1>2, <1>3, <1>4, <1>5, <1>6, <1>7, <1>8, <1>9, <1>10, <1>11, <1>12,
     <1>13, <1>14, <1>15, <1>16, <1>17, <1>18, <1>19, <1>20, <1>21, <1>22
     DEF Next, Progress, Trouble

-----------------------------------------------------------------------------
IInv == /\ TypeOK /\ Targets /\ Known /\ Behind /\ Ahead /\ FromCheckout /\ Reflected
        /\ CheckHolds

LEMMA InitIInv == Init => IInv
<1> SUFFICES ASSUME Init PROVE IInv
  OBVIOUS
<1>1. TypeOK
  BY InitTypeOK
<1>2. Targets /\ Known /\ Behind /\ CheckHolds
  BY DEF Init, Targets, Known, Behind, CheckHolds, Under
<1>3. Ahead /\ FromCheckout /\ Reflected
  BY DEF Init, Ahead, FromCheckout, Reflected
<1> QED
  BY <1>1, <1>2, <1>3 DEF IInv

LEMMA StepIInv == IInv /\ [Next]_vars => IInv'
  BY StepTypeOK, StepTargets, StepKnown, StepBehind, StepAhead, StepFromCheckout,
     StepReflected, StepCheckHolds DEF IInv

LEMMA Invariance == Spec => []IInv
  BY InitIInv, StepIInv, PTL DEF Spec

\* The state of the updater is always well formed.
THEOREM TypeCorrect == Spec => []TypeOK
<1>1. IInv => TypeOK
  BY DEF IInv
<1> QED
  BY <1>1, Invariance, PTL

\* A session that passes its availability check for nothing finds its target
\* recorded, checked out, and therefore installed: update's "already up to date"
\* is true.
THEOREM UpToDateIsTrue == Spec => UpToDateIsInstalled
<1>1. ASSUME IInv, [Next]_vars
      PROVE  [\A s \in Sessions : pc[s] = "inspect" /\ pc'[s] = "uptodate" =>
                foreign = "yes" \/ forced = "yes"
                  \/ (runtime = target[s] /\ complete = "yes")]_vars
  <2> SUFFICES ASSUME NEW s \in Sessions, pc[s] = "inspect", pc'[s] = "uptodate",
                      foreign = "no", forced = "no"
               PROVE  runtime = target[s] /\ complete = "yes"
    BY <1>1 DEF IInv, TypeOK
  <2>1. seen[s] = target[s] /\ checkout = target[s]
    <3>1. Inspect(s)
      BY <1>1 DEF Next, Progress, Trouble, IInv, TypeOK, vars, Load, LsRemote,
         Inspect, ReportUpToDate, Clone, Fetch, Merge, Validate, Pip, StartInstaller,
         RunInstaller, Record, Refuse, End, Cut, Push, ManualInstall, OtherSaves,
         RemoveState, AdminEdits, AdminCleans, Goto, Ends, checkoutVars, runtimeVars,
         recordVars, sessionVars, envVars
    <3> QED
      BY <3>1, <1>1 DEF Inspect, Available, Goto, IInv, TypeOK
  <2>2. target[s] \in Revisions
    BY <1>1 DEF IInv, Targets
  <2>3. Reaches(runtime, checkout) /\ Installed(seen[s])
    BY <1>1 DEF IInv, FromCheckout, Known, Reflected
  <2>4. runtime = target[s]
    BY <2>1, <2>2, <2>3, <1>1, NoneIsNoRevision, ReachesAntisymmetric
       DEF Installed, Under, IInv, TypeOK
  <2> QED
    BY <2>1, <2>3, <2>4 DEF Installed
<1> QED
  BY <1>1, Invariance, PTL DEF Spec, UpToDateIsInstalled

LEMMA OnlyPip ==
  ASSUME IInv, [Next]_vars, NEW s \in Sessions, pc[s] = "install", pc'[s] = "installing"
  PROVE  Pip(s)
  BY DEF Next, Progress, Trouble, IInv, TypeOK, vars, Load, LsRemote, Inspect,
     ReportUpToDate, Clone, Fetch, Merge, Validate, Pip, StartInstaller, RunInstaller,
     Record, Refuse, End, Cut, Push, ManualInstall, OtherSaves, RemoveState, AdminEdits,
     AdminCleans, Goto, Ends, checkoutVars, runtimeVars, recordVars, sessionVars, envVars

\* What is installed is what the operator confirmed, or, for a session that was
\* overtaken between its check and the installer, a descendant of it.
THEOREM ConfirmedRuns == Spec => OnlyConfirmedRuns
<1>1. ASSUME IInv, [Next]_vars
      PROVE  [\A s \in Sessions : pc[s] = "install" /\ pc'[s] = "installing" =>
                \/ runtime' = target[s] /\ tree = "clean"
                \/ s \in disturbed
                     /\ (forced = "yes" \/ Reaches(target[s], runtime'))]_vars
  <2> SUFFICES ASSUME NEW s \in Sessions, pc[s] = "install", pc'[s] = "installing"
               PROVE  \/ runtime' = target[s] /\ tree = "clean"
                      \/ s \in disturbed
                           /\ (forced = "yes" \/ Reaches(target[s], runtime'))
    OBVIOUS
  <2>1. Pip(s)
    BY <1>1, OnlyPip
  <2>2. runtime' = checkout /\ checkout # "none"
    BY <2>1 DEF Pip
  <2>3. target[s] # "none"
    BY <1>1, NoneIsNoRevision DEF IInv, Targets
  <2>4. forced = "no" => Reaches(target[s], checkout)
    BY <1>1, <2>2, <2>3 DEF IInv, Ahead, Checked, Under
  <2>5. s \in disturbed \/ (checkout = target[s] /\ tree = "clean")
    BY <1>1 DEF IInv, CheckHolds
  <2>6. forced \in {"yes", "no"}
    BY <1>1 DEF IInv, TypeOK
  <2> QED
    BY <2>2, <2>4, <2>5, <2>6
<1> QED
  BY <1>1, Invariance, PTL DEF Spec, OnlyConfirmedRuns

\* Code from the checkout is replaced by a descendant of it only.
THEOREM GoForward == Spec => UpdatesGoForward
<1>1. ASSUME IInv, [Next]_vars
      PROVE  [\A s \in Sessions : pc[s] = "install" /\ pc'[s] = "installing"
                /\ foreign = "no" => Reaches(runtime, runtime')]_vars
  <2> SUFFICES ASSUME NEW s \in Sessions, pc[s] = "install", pc'[s] = "installing",
                      foreign = "no"
               PROVE  Reaches(runtime, runtime')
    OBVIOUS
  <2>1. Pip(s)
    BY <1>1, OnlyPip
  <2> QED
    BY <1>1, <2>1 DEF IInv, FromCheckout, Pip
<1> QED
  BY <1>1, Invariance, PTL DEF Spec, UpdatesGoForward

\* What state.yaml records as installed is in the code that runs, and if it is the
\* code that runs its installer succeeded: a record never runs ahead of the
\* installation, however updates overlap and wherever they are cut off, unless
\* upstream's history was rewritten or other code was installed by hand.
RecordIsInstalled == forced = "no" /\ foreign = "no" => Installed(recorded)

THEOREM RecordsAreInstalled == Spec => []RecordIsInstalled
<1>1. IInv => RecordIsInstalled
  BY DEF IInv, Known, Reflected, RecordIsInstalled
<1> QED
  BY <1>1, Invariance, PTL

\* The record is never ahead of the checkout either, so that the next update that
\* merges finds a checkout that descends from what is recorded.
THEOREM RecordIsCheckedOut ==
  Spec => [](forced = "no" /\ checkout # "none" /\ recorded # "none" =>
               Reaches(recorded, checkout) /\ Reaches(checkout, upstream))
<1>1. IInv => (forced = "no" /\ checkout # "none" /\ recorded # "none" =>
                 Reaches(recorded, checkout) /\ Reaches(checkout, upstream))
  BY DEF IInv, Known, Ahead, Behind, Under
<1> QED
  BY <1>1, Invariance, PTL

-----------------------------------------------------------------------------
(* Refusals.                                                               *)

\* What a session has fetched or merged is its target or a later revision, whoever
\* moved the checkout in between.
Fetched ==
  forced = "no" /\ checkout # "none" =>
    /\ Reaches(checkout, origin)
    /\ \A s \in Sessions : /\ pc[s] = "merge" => Under(target[s], origin)
                           /\ pc[s] = "validate" => Under(target[s], checkout)

LEMMA StepFetched == TypeOK /\ Behind /\ Fetched /\ [Next]_vars => Fetched'
<1> SUFFICES ASSUME TypeOK, Behind, Fetched, [Next]_vars PROVE Fetched'
  OBVIOUS
<1>1. ASSUME NEW s \in Sessions, Load(s) PROVE Fetched'
  BY <1>1, NoneIsNoRevision, ReachesItself, UnderTransitive, ReachesTransitive DEF
     Fetched, Behind, TypeOK, OrNone, Under, Load, Goto, checkoutVars, runtimeVars,
     recordVars, sessionVars, envVars
<1>2. ASSUME NEW s \in Sessions, LsRemote(s) PROVE Fetched'
  BY <1>2, NoneIsNoRevision, ReachesItself, UnderTransitive, ReachesTransitive DEF
     Fetched, Behind, TypeOK, OrNone, Under, LsRemote, Goto, checkoutVars,
     runtimeVars, recordVars, sessionVars, envVars
<1>3. ASSUME NEW s \in Sessions, Inspect(s) PROVE Fetched'
  BY <1>3, NoneIsNoRevision, ReachesItself, UnderTransitive, ReachesTransitive DEF
     Fetched, Behind, TypeOK, OrNone, Under, Inspect, Goto, checkoutVars,
     runtimeVars, recordVars, sessionVars, envVars
<1>4. ASSUME NEW s \in Sessions, ReportUpToDate(s) PROVE Fetched'
  BY <1>4, NoneIsNoRevision, ReachesItself, UnderTransitive, ReachesTransitive DEF
     Fetched, Behind, TypeOK, OrNone, Under, ReportUpToDate, Goto, Ends,
     checkoutVars, runtimeVars, recordVars, sessionVars, envVars
<1>5. ASSUME NEW s \in Sessions, Clone(s) PROVE Fetched'
  BY <1>5, NoneIsNoRevision, ReachesItself, UnderTransitive, ReachesTransitive DEF
     Fetched, Behind, TypeOK, OrNone, Under, Clone, Goto, Disturbs, Relying,
     checkoutVars, runtimeVars, recordVars, sessionVars, envVars
<1>6. ASSUME NEW s \in Sessions, Fetch(s) PROVE Fetched'
  BY <1>6, NoneIsNoRevision, ReachesItself, UnderTransitive, ReachesTransitive DEF
     Fetched, Behind, TypeOK, OrNone, Under, Fetch, Goto, checkoutVars, runtimeVars,
     recordVars, sessionVars, envVars
<1>7. ASSUME NEW s \in Sessions, Merge(s) PROVE Fetched'
  BY <1>7, NoneIsNoRevision, ReachesItself, UnderTransitive, ReachesTransitive DEF
     Fetched, Behind, TypeOK, OrNone, Under, Merge, Goto, Disturbs, Relying,
     checkoutVars, runtimeVars, recordVars, sessionVars, envVars
<1>8. ASSUME NEW s \in Sessions, Validate(s) PROVE Fetched'
  BY <1>8, NoneIsNoRevision, ReachesItself, UnderTransitive, ReachesTransitive DEF
     Fetched, Behind, TypeOK, OrNone, Under, Validate, Goto, checkoutVars,
     runtimeVars, recordVars, sessionVars, envVars
<1>9. ASSUME NEW s \in Sessions, Pip(s) PROVE Fetched'
  BY <1>9, NoneIsNoRevision, ReachesItself, UnderTransitive, ReachesTransitive DEF
     Fetched, Behind, TypeOK, OrNone, Under, Pip, Goto, Installing, checkoutVars,
     runtimeVars, recordVars, sessionVars, envVars
<1>10. ASSUME NEW s \in Sessions, StartInstaller(s) PROVE Fetched'
  BY <1>10, NoneIsNoRevision, ReachesItself, UnderTransitive, ReachesTransitive DEF
     Fetched, Behind, TypeOK, OrNone, Under, StartInstaller, Goto, checkoutVars,
     runtimeVars, recordVars, sessionVars, envVars
<1>11. ASSUME NEW s \in Sessions, RunInstaller(s) PROVE Fetched'
  BY <1>11, NoneIsNoRevision, ReachesItself, UnderTransitive, ReachesTransitive DEF
     Fetched, Behind, TypeOK, OrNone, Under, RunInstaller, Goto, checkoutVars,
     runtimeVars, recordVars, sessionVars, envVars
<1>12. ASSUME NEW s \in Sessions, Record(s) PROVE Fetched'
  BY <1>12, NoneIsNoRevision, ReachesItself, UnderTransitive, ReachesTransitive DEF
     Fetched, Behind, TypeOK, OrNone, Under, Record, Goto, Ends, checkoutVars,
     runtimeVars, recordVars, sessionVars, envVars
<1>13. ASSUME NEW s \in Sessions, Refuse(s) PROVE Fetched'
  BY <1>13, NoneIsNoRevision, ReachesItself, UnderTransitive, ReachesTransitive DEF
     Fetched, Behind, TypeOK, OrNone, Under, Refuse, Goto, Ends, checkoutVars,
     runtimeVars, recordVars, sessionVars, envVars
<1>14. ASSUME NEW s \in Sessions, End(s) PROVE Fetched'
  BY <1>14, NoneIsNoRevision, ReachesItself, UnderTransitive, ReachesTransitive DEF
     Fetched, Behind, TypeOK, OrNone, Under, End, Goto, Ends, Troubles,
     checkoutVars, runtimeVars, recordVars, sessionVars, envVars
<1>15. ASSUME NEW s \in Sessions, Cut(s) PROVE Fetched'
  BY <1>15, NoneIsNoRevision, ReachesItself, UnderTransitive, ReachesTransitive DEF
     Fetched, Behind, TypeOK, OrNone, Under, Cut, Goto, Disturbs, Relying, Troubles,
     checkoutVars, runtimeVars, recordVars, sessionVars, envVars
<1>16. ASSUME NEW r \in Revisions, Push(r) PROVE Fetched'
  BY <1>16, NoneIsNoRevision, ReachesItself, UnderTransitive, ReachesTransitive DEF
     Fetched, Behind, TypeOK, OrNone, Under, Push, Troubles, checkoutVars,
     runtimeVars, recordVars, sessionVars, envVars
<1>17. ASSUME NEW r \in Revisions, ManualInstall(r) PROVE Fetched'
  BY <1>17, NoneIsNoRevision, ReachesItself, UnderTransitive, ReachesTransitive DEF
     Fetched, Behind, TypeOK, OrNone, Under, ManualInstall, Troubles, checkoutVars,
     runtimeVars, recordVars, sessionVars, envVars
<1>18. ASSUME NEW r \in past, OtherSaves(r) PROVE Fetched'
  BY <1>18, NoneIsNoRevision, ReachesItself, UnderTransitive, ReachesTransitive DEF
     Fetched, Behind, TypeOK, OrNone, Under, OtherSaves, Troubles, checkoutVars,
     runtimeVars, recordVars, sessionVars, envVars
<1>19. CASE RemoveState
  BY <1>19, NoneIsNoRevision, ReachesItself, UnderTransitive, ReachesTransitive DEF
     Fetched, Behind, TypeOK, OrNone, Under, RemoveState, Troubles, Relying,
     checkoutVars, runtimeVars, recordVars, sessionVars, envVars
<1>20. CASE AdminEdits
  BY <1>20, NoneIsNoRevision, ReachesItself, UnderTransitive, ReachesTransitive DEF
     Fetched, Behind, TypeOK, OrNone, Under, AdminEdits, Troubles, Relying,
     checkoutVars, runtimeVars, recordVars, sessionVars, envVars
<1>21. CASE AdminCleans
  BY <1>21, NoneIsNoRevision, ReachesItself, UnderTransitive, ReachesTransitive DEF
     Fetched, Behind, TypeOK, OrNone, Under, AdminCleans, checkoutVars, runtimeVars,
     recordVars, sessionVars, envVars
<1>22. CASE UNCHANGED vars
  BY <1>22, NoneIsNoRevision, ReachesItself, UnderTransitive, ReachesTransitive DEF
     Fetched, Behind, TypeOK, OrNone, Under, vars, checkoutVars, runtimeVars,
     recordVars, sessionVars, envVars
<1> QED
  BY <1>1, <1>2, <1>3, <1>4, <1>5, <1>6, <1>7, <1>8, <1>9, <1>10, <1>11, <1>12,
     <1>13, <1>14, <1>15, <1>16, <1>17, <1>18, <1>19, <1>20, <1>21, <1>22
     DEF Next, Progress, Trouble

\* A session that Refuse ends has met local changes or half of another's
\* work, has lost its checkout, or finds it past what was confirmed: an update is
\* never refused because the checkout lags behind or has left upstream's line, so
\* that running it again, as docs/updating.md says, has a later target to offer.
RefusedForCause ==
  \A s \in Sessions :
    /\ pc[s] = "merge" /\ ~Reaches(checkout, origin) => checkout = "none" \/ forced = "yes"
    /\ pc[s] = "validate" /\ checkout # target[s] =>
         checkout = "none" \/ forced = "yes" \/ <<target[s], checkout>> \in Older

THEOREM UpdatesAreRefusedForCause == Spec => []RefusedForCause
<1>1. Init => Fetched
  BY DEF Init, Fetched
<1>2. IInv /\ Fetched /\ [Next]_vars => Fetched'
  BY StepFetched DEF IInv
<1>3. IInv /\ Fetched => RefusedForCause
  <2> SUFFICES ASSUME IInv, Fetched, NEW s \in Sessions, forced = "no", checkout # "none"
               PROVE  /\ pc[s] = "merge" => Reaches(checkout, origin)
                      /\ pc[s] = "validate" /\ checkout # target[s] =>
                           <<target[s], checkout>> \in Older
    BY DEF RefusedForCause, IInv, TypeOK
  <2>1. pc[s] = "validate" => target[s] # "none"
    BY NoneIsNoRevision DEF IInv, Targets
  <2> QED
    BY <2>1 DEF Fetched, Under, Reaches
<1> QED
  BY <1>1, <1>2, <1>3, Invariance, PTL DEF Spec

=============================================================================
