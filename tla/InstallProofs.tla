--------------------------- MODULE InstallProofs ---------------------------
(***************************************************************************)
(* Proofs about Install, for every set of images, boot limit, rollback mode *)
(* and number of faults, crashes and power losses.                          *)
(***************************************************************************)
EXTENDS Install, TLAPS

\* What makes the two safety properties inductive: which image runs while the
\* process is up, when U-boot has been told of the update, and where the cycle
\* thread is when the pending mark and the reboot flag change.
Running ==
  /\ pc # "boot" => booted \notin Bad
  /\ PackageManager # "kOstree" => deployments = <<0, 0>> /\ booted = 0
Notified ==
  /\ pc = "bootok2" => booted = deployments[1]
  /\ pc \in {"notify3", "deploy"} /\ RollbackMode = "kUbootMasked"
       => upgrade_available = 1 \/ envFaults > 0
Finalizing ==
  /\ pc = "fake_pending" => PackageManager = "kNone"
  /\ pc = "pending" => need_reboot = 1
  /\ pc = "finalize" => rows[target] = "kPending"
  /\ pc \in {"final_ok", "final_failed", "unflag", "unsentinel"} => ~hasPendingInstall
  /\ pc \in Manifesting /\ after = "unflag" => ~hasPendingInstall

RInv == TypeOK /\ Running /\ Notified /\ RollbackArmed
PInv == TypeOK /\ Finalizing /\ PendingWillFinalize

\* Where putManifestSimple returns to.
LEMMA ReturnType ==
  ASSUME TypeOK, NEW th \in {"cycle", "api"}, NEW sent \in BOOLEAN
  PROVE  Return(th, sent) \in {"idle", "fetch", "unflag"} /\ (th = "api" => Return(th, sent) = "idle")
BY DEF Return, TypeOK

\* The factory state is well formed.
LEMMA InitType == Init => TypeOK
BY InstallAssumption DEF Init, TypeOK, Results, NoResult, Modes, Starting

\* saveInstalledVersion keeps the table well formed.
LEMMA SaveType ==
  ASSUME TypeOK, NEW t \in Images, NEW mode \in {"kNone", "kCurrent", "kPending"},
         saveInstalledVersion(t, mode)
  PROVE  /\ rows' \in [Images -> Modes]
         /\ \A i, j \in Images : rows'[i] \in {"kCurrent", "kPending"} /\ rows'[j] = rows'[i] => i = j
         /\ rows'[t] = mode
         /\ \A i \in Images : i # t /\ rows'[i] = "kPending" => rows[i] = "kPending" /\ mode = "kNone"
<1>1. rows \in [Images -> Modes]  BY DEF TypeOK
<1>2. \A i, j \in Images : rows[i] \in {"kCurrent", "kPending"} /\ rows[j] = rows[i] => i = j
  BY DEF TypeOK
<1>3. CASE mode = "kNone"
  BY <1>1, <1>2, <1>3 DEF saveInstalledVersion, Modes
<1>4. CASE mode = "kCurrent"
  BY <1>1, <1>2, <1>4 DEF saveInstalledVersion, Modes
<1>5. CASE mode = "kPending"
  BY <1>1, <1>2, <1>5 DEF saveInstalledVersion, Modes
<1> QED  BY <1>3, <1>4, <1>5

\* Every step keeps the types and at most one version current and one pending.
LEMMA StepType == TypeOK /\ [Next]_vars => TypeOK'
<1> SUFFICES ASSUME TypeOK, [Next]_vars PROVE TypeOK'
  OBVIOUS
<1> USE DEF server, uboot, disk, thread, budget
<1>0. Starting \cup Manifesting \cup Installing \cup {"idle"} =
        {"boot", "bootok", "bootok2", "detect", "finalize", "final_ok", "final_failed", "unflag",
         "unsentinel", "assemble", "disabled", "put", "clear", "fetch", "install", "notify1",
         "notify2", "notify3", "deploy", "fake_pending", "sentinel", "need_reboot", "pending",
         "current", "store", "stored", "failed", "idle"}
      /\ Manifesting = {"assemble", "disabled", "put", "clear"}
  BY DEF Starting, Manifesting, Installing
<1>1. CASE Assign
  BY <1>1 DEF Assign, TypeOK
<1>2. CASE Boot
  <2>1. deployments[1] \in Images /\ deployments[2] \in Images
    BY DEF TypeOK
  <2>2. bootcount' \in 0..BootLimit + 1
    BY <1>2, InstallAssumption DEF Boot, TypeOK
  <2> QED  BY <1>0, <1>2, <2>1, <2>2 DEF Boot, TypeOK
<1>3. CASE SetBootOK
  BY <1>0, <1>3, InstallAssumption DEF SetBootOK, setBootOK, setenv, TypeOK
<1>4. CASE DetectReboot
  BY <1>0, <1>4 DEF DetectReboot, loadInstalledVersions, TypeOK
<1>5. CASE Finalize
  <2>1. saveInstalledVersion(target, IF finalizeInstall(target) THEN "kCurrent" ELSE "kNone")
    BY <1>5 DEF Finalize
  <2> QED  BY <1>0, <1>5, <2>1, SaveType DEF Finalize, TypeOK
<1>6. CASE StoreFinal
  BY <1>0, <1>6 DEF StoreFinal, TypeOK, Results, Codes
<1>7. CASE RebootFlagClear
  BY <1>0, <1>7 DEF RebootFlagClear, rebootFlagClear, TypeOK
<1>8. CASE updateMeta
  BY <1>0, <1>8 DEF updateMeta, TypeOK
<1>9. CASE CheckUpdates
  BY <1>0, <1>9, InstallAssumption DEF CheckUpdates, TypeOK
<1>10. ASSUME NEW th \in {"cycle", "api"}, putManifestSimple(th) PROVE TypeOK'
  <2>1. CASE AssembleManifest(th)
    BY <1>0, <2>1 DEF AssembleManifest, Goto, TypeOK
  <2>2. CASE CheckPending(th)
    BY <1>0, <2>2, ReturnType DEF CheckPending, Goto, TypeOK
  <2>3. CASE PutManifest(th)
    <3>0. manifest[th] \in Results /\ last \in Results /\ faults \in 0..MaxFaults
      BY DEF TypeOK
    <3>1a. last' = last \/ last' = manifest[th]
      BY <2>3 DEF PutManifest
    <3>1b. faults' = faults \/ (faults < MaxFaults /\ faults' = faults + 1)
      BY <2>3 DEF PutManifest
    <3>1. last' \in Results /\ faults' \in 0..MaxFaults
      BY <3>0, <3>1a, <3>1b, InstallAssumption
    <3>2. Return(th, FALSE) \in {"idle", "fetch", "unflag"} /\ (th = "api" => Return(th, FALSE) = "idle")
      BY ReturnType
    <3>3. /\ pc' \in Starting \cup Manifesting \cup Installing \cup {"idle"}
          /\ api' \in Manifesting \cup {"idle"}
      BY <1>0, <2>3, <3>2 DEF PutManifest, Goto, TypeOK
    <3> QED  BY <2>3, <3>1, <3>3 DEF PutManifest, TypeOK
  <2>4. CASE ClearInstallationResult(th)
    BY <1>0, <2>4, ReturnType DEF ClearInstallationResult, Goto, TypeOK, Results
  <2> QED  BY <1>10, <2>1, <2>2, <2>3, <2>4 DEF putManifestSimple
<1>11. CASE uptaneInstall
  BY <1>0, <1>11 DEF uptaneInstall, TypeOK, Results, Codes
<1>12. CASE UpdateNotify
  BY <1>0, <1>12, InstallAssumption DEF UpdateNotify, updateNotify, setenv, TypeOK
<1>13. CASE Deploy
  BY <1>0, <1>13, InstallAssumption
  DEF Deploy, ostreeInstall, fakeInstall, debianInstall, TypeOK
<1>14. CASE RebootFlagSet
  BY <1>0, <1>14 DEF RebootFlagSet, rebootFlagSet, TypeOK
<1>15. CASE SavePending
  <2>1. saveInstalledVersion(target, "kPending")
    BY <1>15 DEF SavePending
  <2> QED  BY <1>0, <1>15, <2>1, SaveType DEF SavePending, TypeOK
<1>15b. CASE SaveCurrent
  <2>1. saveInstalledVersion(target, "kCurrent")
    BY <1>15b DEF SaveCurrent
  <2> QED  BY <1>0, <1>15b, <2>1, SaveType DEF SaveCurrent, TypeOK
<1>16. CASE StoreResult
  BY <1>0, <1>16 DEF StoreResult, ResultAt, TypeOK, Results, Codes
<1>17. CASE ApiPutManifest
  BY <1>0, <1>17 DEF ApiPutManifest, TypeOK
<1>18. CASE Crash \/ PowerLoss \/ Reboot
  BY <1>0, <1>18, InstallAssumption DEF Crash, PowerLoss, Reboot, Restart, TypeOK, Results
<1>19. CASE UNCHANGED vars
  BY <1>19 DEF vars, TypeOK
<1> QED
  BY <1>1, <1>2, <1>3, <1>4, <1>5, <1>6, <1>7, <1>8, <1>9, <1>10, <1>11, <1>12, <1>13, <1>14,
     <1>15, <1>15b, <1>16, <1>17, <1>18, <1>19 DEF Next, Cycle

\* The configuration of the device never changes.
LEMMA StepDevice ==
  ASSUME [Next]_vars
  PROVE  device' = device /\ RollbackMode' = RollbackMode /\ PackageManager' = PackageManager
<1> USE DEF server
<1>1. CASE Assign \/ Boot \/ Crash \/ PowerLoss \/ Reboot \/ ApiPutManifest \/ UNCHANGED vars
  BY <1>1 DEF Assign, Boot, Crash, PowerLoss, Reboot, ApiPutManifest, vars, RollbackMode, PackageManager
<1>2. ASSUME NEW th \in {"cycle", "api"}, putManifestSimple(th) PROVE device' = device
  BY <1>2 DEF putManifestSimple, AssembleManifest, CheckPending, PutManifest, ClearInstallationResult
<1>3. CASE SetBootOK \/ DetectReboot \/ Finalize \/ StoreFinal \/ RebootFlagClear \/ updateMeta \/ CheckUpdates
  BY <1>3 DEF SetBootOK, DetectReboot, Finalize, StoreFinal, RebootFlagClear, updateMeta, CheckUpdates,
     RollbackMode, PackageManager
<1>4. CASE uptaneInstall \/ UpdateNotify \/ Deploy \/ RebootFlagSet \/ SavePending \/ SaveCurrent \/ StoreResult
  BY <1>4 DEF uptaneInstall, UpdateNotify, Deploy, RebootFlagSet, SavePending, SaveCurrent, StoreResult,
     RollbackMode, PackageManager
<1> QED
  BY <1>1, <1>2, <1>3, <1>4 DEF Next, Cycle, RollbackMode, PackageManager

\* The stored flags, the U-boot environment and the installed_versions table
\* keep their form, and at most one version is current and at most one pending.
THEOREM TypeCorrect == Spec => []TypeOK
BY InitType, StepType, PTL DEF Spec

-----------------------------------------------------------------------------
(* The rollback is armed whenever it may be needed. *)

\* The factory image is not a bad one.
LEMMA InitRollback == Init => RInv
BY InitType, InstallAssumption DEF Init, RInv, Running, Notified, RollbackArmed

\* One case per group of actions that touch the same part of the invariant.
LEMMA StepRollback == RInv /\ [Next]_vars => RInv'
<1> SUFFICES ASSUME RInv, [Next]_vars PROVE RInv'
  OBVIOUS
<1> USE DEF server, uboot, disk, thread, budget
<1>0. TypeOK /\ TypeOK'
  BY StepType DEF RInv
<1> SUFFICES (Running /\ Notified /\ RollbackArmed)'
  BY <1>0 DEF RInv
<1> DEFINE I == Running /\ Notified /\ RollbackArmed
<1>i. I
  BY DEF RInv
<1>d. device' = device /\ RollbackMode' = RollbackMode /\ PackageManager' = PackageManager
  BY StepDevice
<1>1. CASE Boot
  <2>1. pc' \in {"boot", "bootok"} /\ (pc' = "bootok" => booted' \notin Bad)
    BY <1>1 DEF Boot
  <2>2. RollbackArmed'
    BY <1>0, <1>1, <1>d, <1>i, InstallAssumption DEF Boot, RollbackArmed, TypeOK
  <2>3. PackageManager # "kOstree" => deployments' = <<0, 0>> /\ booted' = 0
    BY <1>1, <1>i DEF Boot, Running
  <2> QED  BY <1>d, <2>1, <2>2, <2>3 DEF Running, Notified
<1>2. CASE SetBootOK
  <2>1. booted = deployments[1] => deployments[1] \notin Bad
    BY <1>2, <1>i DEF SetBootOK, setBootOK, Running
  <2>2. imageUpdated => booted = deployments[1]
    BY <1>i DEF imageUpdated, Running
  <2>3. UNCHANGED <<deployments, booted>> /\ pc # "boot" /\ pc' \in {"bootok2", "detect"}
    BY <1>2 DEF SetBootOK, setBootOK
  <2>4. Running' /\ Notified'
    BY <1>2, <1>d, <1>i, <2>2, <2>3 DEF SetBootOK, setBootOK, Running, Notified
  <2>5. ASSUME pc = "bootok" PROVE RollbackArmed'
    <3>1. UNCHANGED <<deployments, rollback, upgrade_available>>
      BY <1>2, <2>5 DEF SetBootOK, setBootOK
    <3>2. envFaults' = envFaults \/ envFaults' = envFaults + 1
      BY <1>2, <2>5 DEF SetBootOK, setBootOK, setenv
    <3>3. envFaults \in Nat
      BY <1>0, InstallAssumption DEF TypeOK
    <3> QED  BY <1>d, <1>i, <3>1, <3>2, <3>3 DEF RollbackArmed
  <2>6. ASSUME pc = "bootok2" PROVE RollbackArmed'
    BY <1>0, <1>2, <1>d, <1>i, <2>1, <2>6 DEF SetBootOK, setBootOK, Notified, RollbackArmed
  <2> QED  BY <1>2, <2>4, <2>5, <2>6 DEF SetBootOK, setBootOK
<1>3. CASE UpdateNotify
  <2>1. pc = "notify1" \/ pc = "notify2" \/ pc = "notify3"
    BY <1>3 DEF UpdateNotify, updateNotify
  <2>2. Running' /\ pc' \in {"notify2", "notify3", "deploy"} /\ UNCHANGED <<deployments, booted>>
    BY <1>3, <1>d, <1>i DEF UpdateNotify, updateNotify, Running
  <2>3. envFaults \in Nat /\ envFaults' \in Nat
    BY <1>0, InstallAssumption DEF TypeOK
  <2>4. Notified'
    BY <1>3, <1>d, <1>i, <2>1, <2>2, <2>3 DEF UpdateNotify, updateNotify, setenv, Notified
  <2>5. RollbackArmed'
    BY <1>3, <1>d, <1>i, <2>1, <2>2, <2>3
    DEF UpdateNotify, updateNotify, setenv, Notified, RollbackArmed
  <2> QED  BY <2>2, <2>4, <2>5
<1>4. CASE Deploy
  <2>1. pc' # "boot" /\ pc' # "bootok2" /\ pc' # "notify3" /\ pc' # "deploy"
    BY <1>4 DEF Deploy, ostreeInstall, fakeInstall, debianInstall
  <2>2. \/ deployments' = deployments
        \/ PackageManager = "kOstree" /\ deployments' = <<target, booted>>
    BY <1>4 DEF Deploy, ostreeInstall, fakeInstall, debianInstall
  <2>3. UNCHANGED <<booted, uboot, envFaults>> /\ pc = "deploy"
    BY <1>4 DEF Deploy
  <2>4. Running' /\ Notified'
    BY <1>d, <1>i, <2>1, <2>2, <2>3 DEF Running, Notified
  <2>5. RollbackArmed'
    BY <1>d, <1>i, <2>2, <2>3 DEF Running, Notified, RollbackArmed
  <2> QED  BY <2>4, <2>5
<1>5. CASE Crash \/ PowerLoss \/ Reboot
  BY <1>5, <1>d, <1>i DEF Crash, PowerLoss, Reboot, Restart, Running, Notified, RollbackArmed
<1>6. ASSUME UNCHANGED <<deployments, booted, uboot, envFaults>>, pc # "boot" \/ pc' = "boot",
             pc' \in {"bootok2", "notify3", "deploy"} => pc' = pc \/ (pc' = "deploy" /\ RollbackMode = "kBootloaderNone")
      PROVE  (Running /\ Notified /\ RollbackArmed)'
  BY <1>6, <1>d, <1>i DEF Running, Notified, RollbackArmed
<1>7. CASE Assign \/ UNCHANGED vars
  BY <1>6, <1>7 DEF Assign, vars
<1>8. CASE DetectReboot \/ Finalize \/ StoreFinal \/ RebootFlagClear \/ RebootFlagSet \/ SavePending
          \/ SaveCurrent
  BY <1>6, <1>8 DEF DetectReboot, Finalize, StoreFinal, RebootFlagClear, rebootFlagClear,
     RebootFlagSet, rebootFlagSet, SavePending, SaveCurrent
<1>9. CASE updateMeta \/ CheckUpdates \/ uptaneInstall \/ StoreResult \/ ApiPutManifest
  BY <1>6, <1>9 DEF updateMeta, CheckUpdates, uptaneInstall, StoreResult, ApiPutManifest
<1>10. ASSUME NEW th \in {"cycle", "api"}, putManifestSimple(th)
       PROVE  (Running /\ Notified /\ RollbackArmed)'
  <2>1. \A sent \in BOOLEAN : Return(th, sent) \in {"idle", "fetch", "unflag"}
    BY <1>0, ReturnType
  <2>2. UNCHANGED <<deployments, booted, uboot, envFaults>>
    BY <1>10 DEF putManifestSimple, AssembleManifest, CheckPending, PutManifest,
       ClearInstallationResult
  <2>3. pc' = pc \/ (pc # "boot" /\ pc' \in {"disabled", "put", "clear", "idle", "fetch", "unflag"})
    BY <1>10, <2>1 DEF putManifestSimple, AssembleManifest, CheckPending, PutManifest,
       ClearInstallationResult, Goto
  <2> QED  BY <1>6, <2>2, <2>3
<1> QED
  BY <1>1, <1>2, <1>3, <1>4, <1>5, <1>7, <1>8, <1>9, <1>10 DEF Next, Cycle

\* An image on which aktualizr does not come up is never booted unguarded, for
\* every boot limit and any number of crashes and power losses.
THEOREM RollbackAlwaysArmed == Spec => []RollbackArmed
<1>1. RInv => RollbackArmed
  BY DEF RInv
<1> QED  BY <1>1, InitRollback, StepRollback, PTL DEF Spec

-----------------------------------------------------------------------------
(* A pending version is finalised after the reboot. *)

\* Nothing is pending on a factory device.
LEMMA InitPending == Init => PInv
<1> SUFFICES ASSUME Init PROVE PInv
  OBVIOUS
<1>1. ~hasPendingInstall
  BY InstallAssumption DEF Init, hasPendingInstall
<1> QED  BY <1>1, InitType DEF Init, PInv, Finalizing, PendingWillFinalize, Manifesting

\* With valid stored metadata every step keeps the flag of a pending version.
LEMMA StepPending ==
  ASSUME TRUE \notin Expires, PInv, [Next]_vars
  PROVE  PInv'
<1> USE DEF server, uboot, disk, thread, budget
<1>0. TypeOK /\ TypeOK'
  BY StepType DEF PInv
<1> SUFFICES (Finalizing /\ PendingWillFinalize)'
  BY <1>0 DEF PInv
<1>i. Finalizing /\ PendingWillFinalize
  BY DEF PInv
<1>d. PackageManager' = PackageManager
  BY StepDevice
<1>k. ASSUME rows' = rows PROVE hasPendingInstall' <=> hasPendingInstall
  BY <1>k DEF hasPendingInstall
<1>u. ASSUME rows' = rows, need_reboot' = need_reboot,
             pc' \in {"pending", "finalize", "final_ok", "final_failed", "unflag", "unsentinel"} => pc' = pc,
             pc' = "fake_pending" => pc' = pc \/ PackageManager = "kNone",
             pc' = "finalize" => target' = target,
             pc' \in Manifesting /\ after' = "unflag" => pc \in Manifesting /\ after = "unflag"
      PROVE  (Finalizing /\ PendingWillFinalize)'
  BY <1>u, <1>d, <1>k, <1>i DEF Finalizing, PendingWillFinalize
<1>1. CASE Assign \/ UNCHANGED vars
  BY <1>u, <1>1 DEF Assign, vars
<1>2. CASE Boot \/ SetBootOK \/ UpdateNotify \/ Deploy
  BY <1>u, <1>2 DEF Boot, SetBootOK, setBootOK, UpdateNotify, updateNotify, Deploy, ostreeInstall,
     fakeInstall, debianInstall, Manifesting
<1>3. CASE DetectReboot
  <2>1. rows' = rows /\ need_reboot' = need_reboot /\ pc' \in {"idle", "finalize", "unflag"}
    BY <1>3 DEF DetectReboot
  <2>2. pc' = "finalize" => rows[target'] = "kPending"
    BY <1>3 DEF DetectReboot, loadInstalledVersions
  <2>3. \A expired \in Expires : ~expired
    BY InstallAssumption
  <2>4. pc' = "unflag" => ~hasPendingInstall
    BY <1>3, <2>3 DEF DetectReboot
  <2> QED  BY <1>d, <1>k, <1>i, <2>1, <2>2, <2>4 DEF Finalizing, PendingWillFinalize, Manifesting
<1>4. CASE Finalize
  <2>1. PICK mode \in {"kNone", "kCurrent"} : saveInstalledVersion(target, mode)
    BY <1>4 DEF Finalize
  <2>2. target \in Images /\ rows[target] = "kPending"
    BY <1>0, <1>4, <1>i DEF Finalize, Finalizing, TypeOK
  <2>3. \A i \in Images : rows[i] = "kPending" => i = target
    BY <1>0, <2>2 DEF TypeOK
  <2>4. \A i \in Images : rows'[i] # "kPending"
    BY <1>0, <2>1, <2>2, <2>3, SaveType
  <2>5. ~hasPendingInstall'
    BY <2>4 DEF hasPendingInstall
  <2> QED  BY <1>4, <2>5 DEF Finalize, Finalizing, PendingWillFinalize, Manifesting
<1>5. CASE StoreFinal
  BY <1>5, <1>d, <1>k, <1>i DEF StoreFinal, Finalizing, PendingWillFinalize
<1>6. CASE RebootFlagClear
  BY <1>6, <1>d, <1>k, <1>i DEF RebootFlagClear, rebootFlagClear, Finalizing, PendingWillFinalize,
     Manifesting
<1>7. CASE RebootFlagSet
  BY <1>7, <1>d, <1>k, <1>i DEF RebootFlagSet, rebootFlagSet, Finalizing, PendingWillFinalize,
     Manifesting
<1>8. CASE SavePending
  BY <1>8, <1>d, <1>i DEF SavePending, Finalizing, PendingWillFinalize, Manifesting
<1>8b. CASE SaveCurrent
  <2>1. saveInstalledVersion(target, "kCurrent") /\ target \in Images
    BY <1>0, <1>8b DEF SaveCurrent, TypeOK
  <2>2. \A i \in Images : rows'[i] # "kPending"
    BY <1>0, <2>1, SaveType
  <2>3. ~hasPendingInstall'
    BY <2>2 DEF hasPendingInstall
  <2> QED  BY <1>8b, <2>3 DEF SaveCurrent, Finalizing, PendingWillFinalize, Manifesting
<1>9. CASE updateMeta \/ CheckUpdates \/ StoreResult \/ ApiPutManifest
  BY <1>u, <1>9 DEF updateMeta, CheckUpdates, StoreResult, ApiPutManifest, Manifesting
<1>10. CASE uptaneInstall
  BY <1>u, <1>10 DEF uptaneInstall, Manifesting
<1>11. CASE Crash \/ PowerLoss \/ Reboot
  BY <1>u, <1>11 DEF Crash, PowerLoss, Reboot, Restart, Manifesting
<1>12. ASSUME putManifestSimple("api") PROVE (Finalizing /\ PendingWillFinalize)'
  BY <1>u, <1>12 DEF putManifestSimple, AssembleManifest, CheckPending, PutManifest,
     ClearInstallationResult, Goto
<1>13. ASSUME putManifestSimple("cycle") PROVE (Finalizing /\ PendingWillFinalize)'
  <2>1. rows' = rows /\ need_reboot' = need_reboot /\ after' = after /\ pc \in Manifesting
    BY <1>13 DEF putManifestSimple, AssembleManifest, CheckPending, PutManifest,
       ClearInstallationResult, Goto, Manifesting
  <2>2. \A sent \in BOOLEAN : Return("cycle", sent) \in {"idle", after}
    BY DEF Return
  <2>3. pc' \in Manifesting \cup {"idle", after}
    BY <1>13, <2>2 DEF putManifestSimple, AssembleManifest, CheckPending, PutManifest,
       ClearInstallationResult, Goto, Manifesting
  <2>4. after \in {"fetch", "unflag", "idle"}
    BY <1>0 DEF TypeOK
  <2> QED  BY <1>d, <1>k, <1>i, <2>1, <2>3, <2>4 DEF Finalizing, PendingWillFinalize, Manifesting
<1> QED
  BY <1>1, <1>2, <1>3, <1>4, <1>5, <1>6, <1>7, <1>8, <1>8b, <1>9, <1>10, <1>11, <1>12, <1>13
  DEF Next, Cycle

\* As long as the stored metadata still verifies after the reboot, a version
\* marked pending keeps its reboot flag until it is finalised, whatever the
\* crashes, the power losses and the manifests the API thread sends meanwhile.
THEOREM PendingFinalized ==
  ASSUME TRUE \notin Expires
  PROVE  Spec => []PendingWillFinalize
<1>1. PInv /\ [Next]_vars => PInv'
  BY StepPending
<1>2. PInv => PendingWillFinalize
  BY DEF PInv
<1> QED  BY <1>1, <1>2, InitPending, PTL DEF Spec

-----------------------------------------------------------------------------
(* The table of installed versions goes through the life of an update. *)

\* What the refinement rests on: there is always a current version, and from
\* the check that chose a target to the row that records it the target is not
\* the current one and nothing else is pending.
Chosen == {"install", "notify1", "notify2", "notify3", "deploy", "current"}
Committing == {"fake_pending", "sentinel", "need_reboot", "pending"}
Recorded == \E i \in Images : rows[i] = "kCurrent"
Deciding ==
  /\ pc \in Chosen \cup Committing => rows[target] # "kCurrent"
  /\ pc \in Chosen => ~hasPendingInstall
  /\ pc \in Committing => loadInstalledVersions("kPending") \subseteq {target}
  /\ pc = "finalize" => rows[target] = "kPending"

LInv == TypeOK /\ Recorded /\ Deciding

\* The version a refinement step sees as current is the one that is marked.
LEMMA RecordedVersion ==
  TypeOK => \A i \in Images : rows[i] = "kCurrent" => recordedVersion = i
<1> SUFFICES ASSUME TypeOK, NEW i \in Images, rows[i] = "kCurrent"
             PROVE  recordedVersion = i
  OBVIOUS
<1>1. \A j \in Images : rows[j] = "kCurrent" => j = i
  BY DEF TypeOK
<1> QED  BY <1>1 DEF recordedVersion, loadInstalledVersions

\* The factory version is current and no installation has begun.
LEMMA InitLife == Init => LInv /\ Life!Init
<1> SUFFICES ASSUME Init PROVE LInv /\ Life!Init
  OBVIOUS
<1>1. TypeOK /\ rows[0] = "kCurrent" /\ 0 \in Images
  BY InitType, InstallAssumption DEF Init
<1>2. recordedVersion = 0
  BY <1>1, RecordedVersion
<1>3. loadInstalledVersions("kPending") = {}
  BY DEF Init, loadInstalledVersions
<1>4. LInv
  BY <1>1 DEF Init, LInv, Recorded, Deciding, Chosen, Committing
<1>5. Life!Init
  BY <1>2, <1>3 DEF Init, Life!Init
<1> QED  BY <1>4, <1>5

\* saveInstalledVersion as the life of an update sees it: which version is
\* current afterwards and which are pending.
LEMMA SaveLife ==
  ASSUME TypeOK, NEW t \in Images, NEW mode \in {"kNone", "kCurrent", "kPending"},
         saveInstalledVersion(t, mode), NEW cur \in Images, rows[cur] = "kCurrent",
         mode = "kCurrent" \/ t # cur,
         \A i \in Images : rows[i] = "kPending" => i = t
  PROVE  /\ rows'[IF mode = "kCurrent" THEN t ELSE cur] = "kCurrent"
         /\ loadInstalledVersions("kPending")' = IF mode = "kPending" THEN {t} ELSE {}
<1>1. rows \in [Images -> Modes]
  BY DEF TypeOK
<1>2. CASE mode = "kCurrent"
  BY <1>1, <1>2 DEF saveInstalledVersion, loadInstalledVersions
<1>3. CASE mode = "kPending"
  BY <1>1, <1>3 DEF saveInstalledVersion, loadInstalledVersions
<1>4. CASE mode = "kNone"
  BY <1>1, <1>4 DEF saveInstalledVersion, loadInstalledVersions
<1> QED  BY <1>2, <1>3, <1>4

\* Every step keeps a current version and maps to a step of UpdateLife or to
\* none: Boot to Reboot, Finalize to Decide, SavePending to Postpone and
\* SaveCurrent to Take.
LEMMA StepLife == LInv /\ [Next]_vars => LInv' /\ [Life!Next]_(Life!lifeVars)
<1> SUFFICES ASSUME LInv, [Next]_vars PROVE LInv' /\ [Life!Next]_(Life!lifeVars)
  OBVIOUS
<1> USE DEF server, uboot, disk, thread, budget
<1>0. TypeOK /\ TypeOK' /\ Recorded /\ Deciding
  BY StepType DEF LInv
<1>d. PackageManager' = PackageManager
  BY StepDevice
<1>r. PICK cur \in Images : rows[cur] = "kCurrent" /\ recordedVersion = cur
  BY <1>0, RecordedVersion DEF Recorded
<1>r2. \A i \in Images : rows'[i] = "kCurrent" => recordedVersion' = i
  <2>1. (TypeOK => \A i \in Images : rows[i] = "kCurrent" => recordedVersion = i)'
    BY RecordedVersion, PTL
  <2> QED  BY <1>0, <2>1
<1>k. ASSUME rows' = rows
      PROVE  /\ Recorded' /\ recordedVersion' = recordedVersion
             /\ hasPendingInstall' = hasPendingInstall
             /\ loadInstalledVersions("kPending")' = loadInstalledVersions("kPending")
  BY <1>0, <1>k DEF Recorded, recordedVersion, hasPendingInstall, loadInstalledVersions
<1>u. ASSUME rows' = rows, booted' = booted,
             pc' \in Chosen => pc \in Chosen,
             pc' \in Committing => pc \in Chosen \cup Committing,
             pc' = "finalize" => pc = "finalize",
             pc' \in Chosen \cup Committing \cup {"finalize"} => target' = target
      PROVE  LInv' /\ UNCHANGED Life!lifeVars
  <2>1. UNCHANGED Life!lifeVars
    BY <1>u, <1>k, <1>d DEF Life!lifeVars
  <2>2. ~hasPendingInstall => loadInstalledVersions("kPending") = {}
    BY DEF hasPendingInstall, loadInstalledVersions
  <2>3. Deciding'
    BY <1>0, <1>u, <1>k, <2>2 DEF Deciding
  <2> QED  BY <1>0, <1>u, <1>k, <2>1, <2>3 DEF LInv
<1>1. CASE Assign \/ UNCHANGED vars
  BY <1>u, <1>1 DEF Assign, vars
<1>2. CASE Boot
  <2>1. rows' = rows /\ pc' \in {"boot", "bootok"}
    BY <1>2 DEF Boot
  <2>2. booted' \in Images
    BY <1>0 DEF TypeOK
  <2>3. LInv'
    BY <1>0, <1>k, <2>1 DEF LInv, Deciding, Chosen, Committing
  <2>4. booted # Unknown
    BY <1>0, InstallAssumption DEF TypeOK, Unknown
  <2>5. [Life!Next]_(Life!lifeVars)
    BY <1>k, <1>d, <2>1, <2>2, <2>4 DEF Life!Next, Life!Reboot, Life!lifeVars
  <2> QED  BY <2>3, <2>5
<1>3. CASE Finalize
  <2> DEFINE mode == IF finalizeInstall(target) THEN "kCurrent" ELSE "kNone"
  <2>1. saveInstalledVersion(target, mode) /\ mode \in {"kNone", "kCurrent"} /\ booted' = booted
    BY <1>3 DEF Finalize
  <2>2. target \in Images /\ rows[target] = "kPending" /\ target # cur
    BY <1>0, <1>3, <1>r DEF Finalize, Deciding, TypeOK
  <2>3. \A i \in Images : rows[i] = "kPending" => i = target
    BY <1>0, <2>2 DEF TypeOK
  <2> HIDE DEF mode
  <2>4. /\ rows'[IF mode = "kCurrent" THEN target ELSE cur] = "kCurrent"
        /\ loadInstalledVersions("kPending")' = {}
    BY <1>0, <1>r, <2>1, <2>2, <2>3, SaveLife
  <2>5. recordedVersion' = IF mode = "kCurrent" THEN target ELSE cur
    BY <1>r2, <2>2, <2>4
  <2>6. mode = "kCurrent" <=> (PackageManager # "kOstree" \/ booted = target)
    <3>1. finalizeInstall(target) <=> (PackageManager # "kOstree" \/ booted = target)
      BY <2>2, InstallAssumption
      DEF finalizeInstall, ostreeFinalizeInstall, fakeFinalizeInstall, getCurrent, bootedVersion,
          loadInstalledVersions, Unknown
    <3> QED  BY <3>1 DEF mode
  <2>7. target \in loadInstalledVersions("kPending")
    BY <2>2 DEF loadInstalledVersions
  <2>8. booted # Unknown
    BY <1>0, InstallAssumption DEF TypeOK, Unknown
  <2>9. Life!Decide(target)
    BY <1>d, <1>r, <2>1, <2>4, <2>5, <2>6, <2>7, <2>8 DEF Life!Decide
  <2>10. LInv'
    BY <1>0, <1>3, <2>2, <2>4 DEF Finalize, LInv, Recorded, Deciding, Chosen, Committing
  <2> QED  BY <2>2, <2>9, <2>10 DEF Life!Next
<1>4. CASE SavePending
  <2>1. saveInstalledVersion(target, "kPending") /\ booted' = booted /\ target' = target
    BY <1>4 DEF SavePending
  <2>2. target \in Images /\ target # cur
    BY <1>0, <1>4, <1>r DEF SavePending, Deciding, Committing, TypeOK
  <2>3. loadInstalledVersions("kPending") \subseteq {target}
    BY <1>0, <1>4 DEF SavePending, Deciding, Committing
  <2>4. \A i \in Images : rows[i] = "kPending" => i = target
    BY <2>3 DEF loadInstalledVersions
  <2>5. rows'[cur] = "kCurrent" /\ loadInstalledVersions("kPending")' = {target}
    BY <1>0, <1>r, <2>1, <2>2, <2>4, SaveLife
  <2>6. recordedVersion' = cur
    BY <1>r2, <2>5
  <2>7. Life!Postpone(target)
    BY <1>d, <1>r, <2>1, <2>2, <2>3, <2>5, <2>6 DEF Life!Postpone
  <2>8. rows'[target] = "kPending"
    BY <1>0, <2>1, <2>2, SaveType
  <2>9. LInv'
    BY <1>0, <1>4, <2>1, <2>5, <2>8 DEF SavePending, LInv, Recorded, Deciding, Chosen, Committing
  <2> QED  BY <2>2, <2>7, <2>9 DEF Life!Next
<1>5. CASE SaveCurrent
  <2>1. saveInstalledVersion(target, "kCurrent") /\ booted' = booted /\ target \in Images
    BY <1>0, <1>5 DEF SaveCurrent, TypeOK
  <2>2. \A i \in Images : rows[i] # "kPending"
    BY <1>0, <1>5 DEF SaveCurrent, Deciding, Chosen, hasPendingInstall
  <2>3. rows'[target] = "kCurrent" /\ loadInstalledVersions("kPending")' = {}
    BY <1>0, <1>r, <2>1, <2>2, SaveLife
  <2>4. recordedVersion' = target /\ loadInstalledVersions("kPending") = {}
    BY <1>r2, <2>1, <2>2, <2>3 DEF loadInstalledVersions
  <2>5. Life!Take(target)
    BY <1>d, <2>1, <2>3, <2>4 DEF Life!Take
  <2>6. LInv'
    BY <1>0, <1>5, <2>1, <2>3 DEF SaveCurrent, LInv, Recorded, Deciding, Chosen, Committing
  <2> QED  BY <2>1, <2>5, <2>6 DEF Life!Next
<1>6. CASE DetectReboot
  <2>1. rows' = rows /\ booted' = booted /\ pc' \in {"idle", "finalize", "unflag"}
    BY <1>6 DEF DetectReboot
  <2>2. pc' = "finalize" => rows[target'] = "kPending"
    BY <1>6 DEF DetectReboot, loadInstalledVersions
  <2>3. LInv'
    BY <1>0, <1>k, <2>1, <2>2 DEF LInv, Deciding, Chosen, Committing
  <2> QED  BY <1>k, <1>d, <2>1, <2>3 DEF Life!lifeVars
<1>7. CASE CheckUpdates
  <2>1. rows' = rows /\ booted' = booted /\ pc' \in {"idle", "install"}
    BY <1>7 DEF CheckUpdates
  <2>2. pc' = "install" => ~hasPendingInstall /\ rows[target'] # "kCurrent"
    BY <1>0, <1>7 DEF CheckUpdates, isNew, loadInstalledVersions, TypeOK
  <2>3. LInv'
    BY <1>0, <1>k, <2>1, <2>2 DEF LInv, Deciding, Chosen, Committing
  <2> QED  BY <1>k, <1>d, <2>1, <2>3 DEF Life!lifeVars
<1>8. CASE SetBootOK \/ StoreFinal \/ RebootFlagClear \/ updateMeta \/ StoreResult \/ ApiPutManifest
  BY <1>u, <1>8 DEF SetBootOK, setBootOK, StoreFinal, RebootFlagClear, rebootFlagClear, updateMeta,
     StoreResult, ApiPutManifest, Chosen, Committing
<1>9. CASE uptaneInstall \/ UpdateNotify \/ Deploy \/ RebootFlagSet
  BY <1>u, <1>9 DEF uptaneInstall, UpdateNotify, updateNotify, Deploy, ostreeInstall, fakeInstall,
     debianInstall, RebootFlagSet, rebootFlagSet, Chosen, Committing
<1>10. CASE Crash \/ PowerLoss \/ Reboot
  BY <1>u, <1>10 DEF Crash, PowerLoss, Reboot, Restart, Chosen, Committing
<1>11. ASSUME NEW th \in {"cycle", "api"}, putManifestSimple(th)
       PROVE  LInv' /\ UNCHANGED Life!lifeVars
  <2>1. \A sent \in BOOLEAN : Return(th, sent) \in {"idle", "fetch", "unflag"}
    BY <1>0, ReturnType
  <2>2. UNCHANGED <<rows, booted, target>>
    BY <1>11 DEF putManifestSimple, AssembleManifest, CheckPending, PutManifest,
       ClearInstallationResult
  <2>3. pc' = pc \/ pc' \in {"disabled", "put", "clear", "idle", "fetch", "unflag"}
    BY <1>11, <2>1 DEF putManifestSimple, AssembleManifest, CheckPending, PutManifest,
       ClearInstallationResult, Goto
  <2> QED  BY <1>u, <2>2, <2>3 DEF Chosen, Committing
<1> QED
  BY <1>1, <1>2, <1>3, <1>4, <1>5, <1>6, <1>7, <1>8, <1>9, <1>10, <1>11 DEF Next, Cycle

\* The installed_versions table of the primary implements UpdateLife: one
\* version is current at any time, at most one is pending beside it, and the
\* pending one is decided in one step by what is running then, for every set
\* of images and devices and whatever dies, fails or loses power in between.
THEOREM TableIsLife == Spec => ImplementsLife
<1> QED  BY InitLife, StepLife, PTL DEF Spec, ImplementsLife, Life!Spec
=============================================================================
