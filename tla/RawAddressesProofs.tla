------------------------- MODULE RawAddressesProofs -------------------------
(***************************************************************************)
(* Proofs about RawAddresses for any number of virtual addresses.          *)
(*                                                                         *)
(* SuccessIsExact is about the end of a run, so the inductive invariant    *)
(* says what a run has already done at each point of its two walks (Walk): *)
(* what is left to delete or could not be deleted, and which wanted        *)
(* addresses are in place.                                                 *)
(***************************************************************************)
EXTENDS RawAddresses, TLAPS

\* What the run in progress has done so far.
Walk ==
  /\ pc = "idle" => added = {}
  /\ pc = "del" => /\ added = {}
                   /\ todo \subseteq applied \ want
                   /\ kernel \cap (applied \ want) \subseteq todo \cup stuck
  /\ pc \in {"check", "probe", "add"} =>
       /\ added \subseteq want /\ todo \subseteq want
       /\ kernel \cap (applied \ want) \subseteq stuck
       /\ want \ todo \subseteq kernel \cup foreign

\* The address that is about to be added has been probed.
Probed == pc = "add" => \A i \in Items : IsCurrent(i) /\ i \in lan => i \in late

IInv ==
  /\ TypeOK /\ Walk /\ Probed
  /\ ConflictsAreLate /\ LeaksHaveACause /\ SuccessIsExact

LEMMA InvInit == Init => IInv
  BY DEF Init, IInv, TypeOK, Walk, Probed, ConflictsAreLate,
         LeaksHaveACause, SuccessIsExact

LEMMA InvStep == IInv /\ [Next]_vars => IInv'
<1> SUFFICES ASSUME IInv, [Next]_vars PROVE IInv'
  OBVIOUS
<1> USE ItemsAssumption
    DEF Items, IInv, TypeOK, Walk, Probed, ConflictsAreLate,
        LeaksHaveACause, SuccessIsExact, IsCurrent
<1>1. ASSUME NEW S \in SUBSET Items, WriteRoutes(S) PROVE IInv'
  BY <1>1 DEF WriteRoutes, runVars
<1>2. ASSUME NEW i \in Items, AdminAdds(i) PROVE IInv'
  BY <1>2 DEF AdminAdds, runVars
<1>3. ASSUME NEW i \in Items, LanAppears(i) PROVE IInv'
  BY <1>3 DEF LanAppears, runVars
<1>4. ASSUME NEW i \in Items, LanLeaves(i) PROVE IInv'
  BY <1>4 DEF LanLeaves, runVars
<1>5. CASE Killed
  BY <1>5 DEF Killed, Abandon
<1>6. CASE StartRun
  BY <1>6 DEF StartRun, Begin
<1>7. CASE Reboot
  BY <1>7 DEF Reboot, Begin
<1>8. ASSUME NEW i \in Items, DeleteOld(i) PROVE IInv'
  BY <1>8 DEF DeleteOld
<1>9. CASE DeletedOld
  BY <1>9 DEF DeletedOld
<1>10. ASSUME NEW i \in Items, Check(i) PROVE IInv'
  <2>1. CASE /\ i \in kernel \cup foreign /\ todo' = todo \ {i}
             /\ UNCHANGED <<pc, want, added, before, result, leaked, applied, kernel>>
    BY <1>10, <2>1 DEF Check
  <2>2. CASE Fail
    BY <1>10, <2>2 DEF Check, Fail, Abandon
  <2>3. CASE /\ pc' = "probe"
             /\ UNCHANGED <<todo, want, added, before, result, leaked, applied,
                         kernel>>
    BY <1>10, <2>3 DEF Check
  <2> QED
    BY <1>10, <2>1, <2>2, <2>3 DEF Check, OnInterface, NeedsProbe
<1>11. ASSUME NEW i \in Items, Probe(i) PROVE IInv'
  <2>1. CASE Fail
    BY <1>11, <2>1 DEF Probe, Fail, Abandon
  <2>2. CASE /\ i \notin lan /\ pc' = "add"
             /\ UNCHANGED <<todo, want, added, before, result, leaked, applied,
                         kernel>>
    <3>1. UNCHANGED <<todo, lan, late>>
      BY <1>11, <2>2 DEF Probe
    <3>2. \A j \in Items : IsCurrent(j) => j = i
      BY <1>11 DEF Probe
    <3>3. Probed'
      BY <2>2, <3>1, <3>2
    <3> QED
      BY <1>11, <2>2, <3>3 DEF Probe
  <2> QED
    BY <1>11, <2>1, <2>2 DEF Probe, OnInterface
<1>12. ASSUME NEW i \in Items, Add(i) PROVE IInv'
  BY <1>12 DEF Add, Fail, Abandon
<1>13. CASE Save
  BY <1>13 DEF Save, Fail, Abandon
<1>14. CASE UNCHANGED vars
  BY <1>14 DEF vars, runVars
<1> QED
  BY <1>1, <1>2, <1>3, <1>4, <1>5, <1>6, <1>7, <1>8, <1>9, <1>10, <1>11,
     <1>12, <1>13, <1>14
  DEF Next, Run

THEOREM AddressInvariant == Spec => []IInv
  BY InvInit, InvStep, PTL DEF Spec

\* The state of apply_virtual_addresses is always well formed.
THEOREM TypeCorrect == Spec => []TypeOK
  BY AddressInvariant, PTL DEF IInv

\* Nothing is claimed unprobed: a shared address is the other device's doing.
THEOREM NoEarlyConflict == Spec => []ConflictsAreLate
  BY AddressInvariant, PTL DEF IInv

\* An address nobody tracks was left by a failed or interrupted run, or by a
\* delete that failed unnoticed.
THEOREM EveryLeakHasACause == Spec => []LeaksHaveACause
  BY AddressInvariant, PTL DEF IInv

\* After a successful run the file, the interfaces and the configuration agree,
\* up to what failed runs and failed deletes left behind.
THEOREM SuccessfulRunIsExact == Spec => []SuccessIsExact
  BY AddressInvariant, PTL DEF IInv

-----------------------------------------------------------------------------
(* A run looks like one step.                                              *)

\* How far the interfaces have come from what they were when the run began.
History ==
  /\ pc = "idle" => before = {}
  /\ pc = "del" => kernel \subseteq before
  /\ pc # "idle" => before \ kernel \subseteq applied \ want
  /\ pc \in {"check", "probe", "add"} =>
       /\ kernel \ before = added
       /\ added \subseteq want \ todo
       /\ (want \ applied) \ todo \subseteq added

HInv == TypeOK /\ History

LEMMA HistoryInit == Init => HInv
  BY DEF Init, HInv, TypeOK, History

LEMMA HistoryStep == IInv /\ HInv /\ [Next]_vars => HInv'
<1> SUFFICES ASSUME IInv, HInv, [Next]_vars PROVE HInv'
  OBVIOUS
<1>0. TypeOK /\ TypeOK'
  BY InvStep DEF IInv
<1> SUFFICES History'
  BY <1>0 DEF HInv
<1> USE <1>0, ItemsAssumption DEF Items, HInv, TypeOK, History, IsCurrent
<1>1. CASE UNCHANGED <<kernel, applied, runVars>>
  BY <1>1 DEF runVars
<1>2. CASE pc' = "idle" /\ before' = {}
  BY <1>2
<1>3. CASE Begin /\ before' = kernel' /\ applied' = applied
  BY <1>3 DEF Begin
<1>4. ASSUME NEW i \in Items, DeleteOld(i) PROVE History'
  BY <1>4, <1>0 DEF DeleteOld, IInv, Walk
<1>5. CASE DeletedOld
  BY <1>5 DEF DeletedOld, IInv, Walk
<1>6. ASSUME NEW i \in Items, Check(i) PROVE History'
  <2>1. CASE /\ i \in applied /\ todo' = todo \ {i}
             /\ UNCHANGED <<pc, want, added, before, result, leaked, applied, kernel>>
    BY <1>6, <2>1 DEF Check
  <2>2. CASE Fail
    BY <2>2 DEF Fail, Abandon
  <2>3. CASE /\ pc' = "probe"
             /\ UNCHANGED <<todo, want, added, before, result, leaked, applied,
                            kernel>>
    BY <1>6, <2>3 DEF Check
  <2> QED
    BY <1>6, <2>1, <2>2, <2>3 DEF Check, OnInterface, NeedsProbe
<1>7. ASSUME NEW i \in Items, Probe(i) PROVE History'
  <2>1. CASE Fail
    BY <2>1 DEF Fail, Abandon
  <2>2. CASE /\ pc' = "add"
             /\ UNCHANGED <<todo, want, added, before, result, leaked, applied,
                            kernel>>
    BY <1>7, <2>2 DEF Probe
  <2> QED
    BY <1>7, <2>1, <2>2 DEF Probe
<1>8. ASSUME NEW i \in Items, Add(i) PROVE History'
  <2>1. CASE Fail
    BY <2>1 DEF Fail, Abandon
  <2>2. CASE /\ i \notin kernel
             /\ kernel' = kernel \cup {i} /\ added' = added \cup {i}
             /\ todo' = todo \ {i} /\ pc' = "check"
             /\ UNCHANGED <<want, before, result, leaked, applied>>
    <3>1. i \in want
      BY <1>8 DEF Add, IInv, Walk
    <3>2. i \notin before
      BY <1>8, <2>2, <3>1 DEF Add
    <3> QED BY <1>8, <2>2, <3>1, <3>2 DEF Add
  <2> QED
    BY <1>8, <2>1, <2>2 DEF Add
<1>9. CASE Save
  BY <1>2, <1>9 DEF Save, Fail, Abandon
<1>10. CASE StartRun
  BY <1>3, <1>10 DEF StartRun
<1>11. CASE Reboot
  BY <1>3, <1>11 DEF Reboot
<1>12. CASE Killed
  BY <1>2, <1>12 DEF Killed, Abandon
<1>13. ASSUME NEW S \in SUBSET Items, WriteRoutes(S) PROVE History'
  BY <1>1, <1>13 DEF WriteRoutes
<1>14. ASSUME NEW i \in Items, AdminAdds(i) \/ LanAppears(i) \/ LanLeaves(i)
       PROVE  History'
  BY <1>1, <1>14 DEF AdminAdds, LanAppears, LanLeaves
<1>15. CASE UNCHANGED vars
  BY <1>1, <1>15 DEF vars
<1> QED
  BY <1>4, <1>5, <1>6, <1>7, <1>8, <1>9, <1>10, <1>11, <1>12, <1>13, <1>14, <1>15
  DEF Next, Run

\* The interfaces as the promise sees them.
Seen == IF pc = "idle" THEN kernel ELSE before

\* A run that ends without saving has gone part of the way.
LEMMA EndedRunFails ==
  ASSUME HInv, Seen' = kernel, applied' = applied
  PROVE  Unit!Fails
<1> USE DEF HInv, TypeOK, History, Seen
<1> DEFINE gone == Seen \ kernel
           done == kernel \ Seen
<1>1. gone \in SUBSET Unit!Old /\ done \in SUBSET want
  BY DEF Unit!Old
<1>2. Seen' = (Seen \ gone) \cup done
  OBVIOUS
<1> HIDE DEF gone, done
<1> QED BY <1>1, <1>2 DEF Unit!Fails

\* A run that saves has put the wanted addresses in place, and no new one was
\* there before.
LEMMA SavedRunSucceeds ==
  ASSUME HInv, pc = "check", todo = {}, applied' = want,
         pc' = "idle", kernel' = kernel
  PROVE  \E theirs, gone \in SUBSET Items : Unit!Succeeds(theirs, gone)
<1> USE DEF HInv, TypeOK, History, Seen
<1> DEFINE t == (want \cap applied) \ kernel
           g == before \ kernel
<1>1. Seen = before /\ Seen' = kernel
  OBVIOUS
<1>2. (want \ applied) \cap before = {}
  OBVIOUS
<1>3. t \subseteq (want \cap applied) \ before
  OBVIOUS
<1>4. kernel = (before \ g) \cup (want \ t)
  OBVIOUS
<1>5. Unit!Succeeds(t, g)
  BY <1>1, <1>2, <1>3, <1>4 DEF Unit!Succeeds, Unit!Old, Unit!New
<1>6. t \in SUBSET Items /\ g \in SUBSET Items
  OBVIOUS
<1> QED BY <1>5, <1>6

\* Whatever interrupts a run and whoever takes addresses meanwhile, a run of
\* apply_virtual_addresses looks like one step to the commands that restart the
\* unit: it does what was asked, or goes part of the way and keeps its file.
THEOREM RunLooksLikeOneStep == Spec => ImplementsAddressUnit
<1>1. Init => Unit!Init
  BY DEF Init, Unit!Init
<1>2. ASSUME IInv, HInv, [Next]_vars
      PROVE  [Unit!Next]_<<want, applied, Seen>>
  <2>0. want' \in SUBSET Items
    BY <1>2, InvStep DEF IInv, TypeOK
  <2>1. CASE UNCHANGED <<kernel, applied, runVars>>
    BY <2>1 DEF Seen, runVars
  <2>3. ASSUME pc # "idle", pc' # "idle", before' = before, applied' = applied
        PROVE  Unit!Rests
    BY <2>3 DEF Unit!Rests
  <2>4. ASSUME Seen' = kernel, applied' = applied PROVE Unit!Fails
    BY <1>2, <2>4, EndedRunFails
  <2>5. ASSUME Fail, UNCHANGED kernel PROVE Unit!Fails
    BY <2>4, <2>5 DEF Fail, Abandon, Seen
  <2>6. ASSUME NEW i \in Items, DeleteOld(i) \/ Check(i) \/ Probe(i) \/ Add(i)
        PROVE  Unit!Rests \/ Unit!Fails
    <3>1. CASE Fail
      BY <2>5, <2>6, <3>1 DEF Fail
    <3>2. CASE ~Fail
      BY <2>3, <2>6, <3>2 DEF DeleteOld, Check, Probe, Add, NeedsProbe
    <3> QED BY <3>1, <3>2
  <2>7. CASE DeletedOld
    BY <2>0, <2>3, <2>7 DEF DeletedOld, Unit!Next
  <2>8. CASE Save
    <3>1. CASE Fail
      BY <2>0, <2>5, <3>1 DEF Fail, Unit!Next
    <3>2. CASE ~Fail
      BY <1>2, <2>0, <2>8, <3>2, SavedRunSucceeds DEF Save, Unit!Next
    <3> QED BY <3>1, <3>2
  <2>9. CASE Killed
    BY <2>0, <2>4, <2>9 DEF Killed, Abandon, Seen, Unit!Next
  <2>10. CASE StartRun
    BY <2>0, <2>4, <2>10 DEF StartRun, Begin, Seen, Unit!Next
  <2>11. CASE Reboot
    BY <2>0, <2>11 DEF Reboot, Begin, Seen, Unit!Boots, Unit!Next
  <2>12. ASSUME NEW S \in SUBSET Items, WriteRoutes(S)
         PROVE  [Unit!Next]_<<want, applied, Seen>>
    BY <2>1, <2>12 DEF WriteRoutes
  <2>13. ASSUME NEW i \in Items, AdminAdds(i) \/ LanAppears(i) \/ LanLeaves(i)
         PROVE  [Unit!Next]_<<want, applied, Seen>>
    BY <2>1, <2>13 DEF AdminAdds, LanAppears, LanLeaves
  <2>14. CASE UNCHANGED vars
    BY <2>1, <2>14 DEF vars
  <2> QED
    BY <1>2, <2>0, <2>6, <2>7, <2>8, <2>9, <2>10, <2>11, <2>12, <2>13, <2>14
    DEF Next, Run, Unit!Next
<1>3. IInv /\ HInv /\ [Next]_vars => HInv'
  BY HistoryStep
<1> QED
  BY <1>1, <1>2, <1>3, InvInit, InvStep, HistoryInit, PTL
  DEF Spec, ImplementsAddressUnit, Unit!Spec, Seen
=============================================================================
