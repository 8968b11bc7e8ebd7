---------------------------- MODULE MCInstaller -----------------------------
(* Instance of Installer for TLC.  A host without ipp-usb runs the installer, *)
(* adds a driver and uninstalls; on one with ipp-usb a driver and a printer   *)
(* are added, the service is disabled and everything is uninstalled.          *)
EXTENDS Installer

CONSTANTS v1, v2, d1, q1

OneSlice ==
  IF usb0 = "absent"
  THEN \A i \in Items : i[1] = q1 => file'[i] = "none"
  ELSE /\ pc' # "units"
       /\ \A i \in UnitItems \cup EscItems : file'[i] = "none"

\* Nothing fails and nobody interrupts a command; a refused one ends.
SpecUninterrupted ==
  Init /\ [][Works \/ (End /\ pc = "units" /\ \E i \in todo : NextUnit(i) /\ Refused(i))]_vars
=============================================================================
