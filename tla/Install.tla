------------------------------ MODULE Install ------------------------------
(***************************************************************************)
(* The life of an update of the primary ECU, with the OSTree, the Debian or *)
(* the fake package manager: from the                                       *)
(* manifest that opens an Uptane cycle, through the notification of the     *)
(* bootloader, the deployment, the reboot flags and the installed_versions  *)
(* table, over the reboot (or the rollback by U-boot), to the finalisation  *)
(* and the manifest that reports the outcome.  Every durable write is a     *)
(* step of its own: the process may die, and the device lose power, between *)
(* any two of them.  Fetching and verifying metadata and downloading the    *)
(* image are the modules Metadata and Download; here they are one step.     *)
(***************************************************************************)
EXTENDS Integers

CONSTANTS Images,      \* OSTree images, numbered; 0 is the factory image
          Bad,         \* images on which aktualizr never comes up
          BootLimit,   \* U-boot's bootlimit
          Devices,     \* the configurations a device may have
          Expires,     \* outcomes of "has the stored metadata expired?"
          MaxFaults,   \* bound: failed PUTs and failed installations
          MaxEnvFaults,\* bound: calls of fw_setenv that fail
          MaxCrashes   \* bound: process crashes and power losses

ASSUME InstallAssumption ==
  /\ Images \subseteq Nat /\ 0 \in Images
  /\ Bad \subseteq Images \ {0}
  /\ BootLimit \in Nat
  /\ Devices \subseteq [type : {"kOstree", "kDebian", "kNone"}, fake_need_reboot : BOOLEAN,
                        rollback_mode : {"kBootloaderNone", "kUbootGeneric", "kUbootMasked"},
                        apiThread : BOOLEAN]
  /\ Expires \in SUBSET BOOLEAN \ {{}}
  /\ MaxFaults \in Nat /\ MaxEnvFaults \in Nat /\ MaxCrashes \in Nat

VARIABLES device,       \* the configuration, which does not change
          wanted,       \* the image the Director assigns to the primary
          last,         \* the operation result of the last manifest received
          deployments,  \* OSTree: <<the deployment to boot, the previous one>>
          booted,       \* the image that is running
          bootcount, upgrade_available, rollback,  \* U-boot environment
          sentinel,     \* 1: the reboot sentinel file (gone after a reboot)
          need_reboot,  \* 1: the need_reboot row
          rows,         \* installed_versions of the primary, a mode per image
          result,       \* the installation_result row
          pc,           \* next step of the thread that runs the cycles
          target,       \* the update it is installing
          after,        \* where it goes on after putManifestSimple
          api,          \* next step of the API thread's putManifestSimple
          manifest,     \* the manifest each of the two has assembled
          faults, envFaults, crashes

server == <<device, wanted, last>>
uboot == <<bootcount, upgrade_available, rollback>>
disk == <<need_reboot, rows, result>>
thread == <<pc, target, after>>
budget == <<faults, envFaults, crashes>>
vars == <<device, wanted, last, deployments, booted, bootcount, upgrade_available, rollback, sentinel,
          need_reboot, rows, result, pc, target, after, api, manifest, faults, envFaults, crashes>>

RollbackMode == device.rollback_mode
PackageManager == device.type

Modes == {"absent", "kNone", "kCurrent", "kPending"}
Codes == {"kOk", "kNeedCompletion", "kInstallFailed", "kAlreadyProcessed"}
NoResult == [id |-> 0, code |-> "none"]
Results == [id : Images, code : Codes] \cup {NoResult}

\* Where the cycle thread can be.  Before "idle" the API thread does not exist.
Starting == {"boot", "bootok", "bootok2", "detect", "finalize", "final_ok", "final_failed", "unflag", "unsentinel"}
Manifesting == {"assemble", "disabled", "put", "clear"}
Installing == {"fetch", "install", "notify1", "notify2", "notify3", "deploy",
               "fake_pending", "sentinel", "need_reboot", "pending", "current", "store", "stored", "failed"}

\* The flags, the environment and the table keep their form, and at most one
\* version is current and at most one pending, as saveInstalledVersion promises.
TypeOK ==
  /\ device \in Devices /\ wanted \in Images /\ last \in Results
  /\ deployments \in Images \X Images /\ booted \in Images
  /\ bootcount \in 0..BootLimit + 1 /\ upgrade_available \in 0..1 /\ rollback \in 0..1
  /\ sentinel \in 0..1 /\ need_reboot \in 0..1
  /\ rows \in [Images -> Modes] /\ result \in Results
  /\ pc \in Starting \cup Manifesting \cup Installing \cup {"idle"}
  /\ target \in Images /\ after \in {"fetch", "unflag", "idle"}
  /\ api \in Manifesting \cup {"idle"}
  /\ manifest \in [{"cycle", "api"} -> Results]
  /\ faults \in 0..MaxFaults /\ envFaults \in 0..MaxEnvFaults /\ crashes \in 0..MaxCrashes
  /\ \A i, j \in Images : rows[i] \in {"kCurrent", "kPending"} /\ rows[j] = rows[i] => i = j

\* A device with the factory image, imported into installed_versions.
Init ==
  /\ device \in Devices /\ wanted = 0 /\ last = NoResult
  /\ deployments = <<0, 0>> /\ booted = 0
  /\ bootcount = 0 /\ upgrade_available = 0 /\ rollback = 0
  /\ sentinel = 0 /\ need_reboot = 0
  /\ rows = [i \in Images |-> IF i = 0 THEN "kCurrent" ELSE "absent"]
  /\ result = NoResult
  /\ pc = "bootok" /\ target = 0 /\ after = "idle" /\ api = "idle"
  /\ manifest = [th \in {"cycle", "api"} |-> NoResult]
  /\ faults = 0 /\ envFaults = 0 /\ crashes = 0

-----------------------------------------------------------------------------
(* The Director and U-boot. *)

\* The Director assigns a newer image.
Assign ==
  /\ wanted' \in {i \in Images : i > wanted}
  /\ UNCHANGED <<device, last, deployments, booted, uboot, sentinel, disk, thread, api, manifest, budget>>

\* U-boot counts the boot, falls back to the previous deployment when the
\* count exceeds the limit, and keeps to it while rollback is set.  A bad
\* image is reset by the watchdog.
Boot ==
  LET counting == RollbackMode = "kUbootGeneric" \/ upgrade_available = 1
      count == IF counting /\ bootcount <= BootLimit THEN bootcount + 1 ELSE bootcount
      exceeded == counting /\ count > BootLimit
      back == rollback = 1 \/ exceeded
  IN  /\ pc = "boot"
      /\ bootcount' = count
      /\ rollback' = IF back THEN 1 ELSE 0
      /\ upgrade_available' = IF exceeded THEN 0 ELSE upgrade_available
      /\ booted' = IF back THEN deployments[2] ELSE deployments[1]
      /\ pc' = IF booted' \in Bad THEN "boot" ELSE "bootok"
      /\ UNCHANGED <<server, deployments, sentinel, disk, target, after, api, manifest, budget>>

-----------------------------------------------------------------------------
(* Storage: installed_versions. *)

\* A version is one row; making it current clears both marks of the others,
\* making it pending only their pending mark.
saveInstalledVersion(t, mode) ==
  LET cleared == IF mode = "kCurrent" THEN {"kCurrent", "kPending"}
                 ELSE IF mode = "kPending" THEN {"kPending"} ELSE {}
  IN  rows' = [i \in Images |-> IF i = t THEN mode
                                ELSE IF rows[i] \in cleared THEN "kNone" ELSE rows[i]]

hasPendingInstall == \E i \in Images : rows[i] = "kPending"

\* The version loadInstalledVersions points at as current, or as pending.
loadInstalledVersions(mode) == {i \in Images : rows[i] = mode}

\* getNewTargets compares with the filename of the current version.
isNew(t) == t \notin loadInstalledVersions("kCurrent")

\* OstreeManager::getCurrent: the booted image if installed_versions knows it;
\* the others answer the version the table has as current.
Unknown == -1
bootedVersion == IF rows[booted] # "absent" THEN booted ELSE Unknown
recordedVersion ==
  IF loadInstalledVersions("kCurrent") = {} THEN Unknown
  ELSE CHOOSE i \in Images : rows[i] = "kCurrent"
getCurrent == IF PackageManager = "kOstree" THEN bootedVersion ELSE recordedVersion

isInstalledOnPrimary(t) == t = getCurrent

-----------------------------------------------------------------------------
(* Start-up: the constructor and finalizeAfterReboot. *)

\* imageUpdated: no deployment is waiting for a reboot.
imageUpdatedAlways == TRUE
imageUpdated == PackageManager = "kOstree" => booted = deployments[1]

\* fw_setenv may fail, which is only logged.
setenv(before, value, after_) ==
  \/ after_ = value /\ envFaults' = envFaults
  \/ after_ = before /\ envFaults < MaxEnvFaults /\ envFaults' = envFaults + 1

setBootOK ==
  \/ /\ pc = "bootok" /\ imageUpdated /\ RollbackMode # "kBootloaderNone"
     /\ setenv(bootcount, 0, bootcount')
     /\ pc' = IF RollbackMode = "kUbootMasked" THEN "bootok2" ELSE "detect"
     /\ UNCHANGED upgrade_available
  \/ /\ pc = "bootok" /\ (~imageUpdated \/ RollbackMode = "kBootloaderNone")
     /\ pc' = "detect"
     /\ UNCHANGED <<bootcount, upgrade_available, envFaults>>
  \/ /\ pc = "bootok2"
     /\ setenv(upgrade_available, 0, upgrade_available')
     /\ pc' = "detect"
     /\ UNCHANGED bootcount

SetBootOK ==
  /\ setBootOK
  /\ UNCHANGED <<server, deployments, booted, rollback, sentinel, disk, target, after, api,
                 manifest, faults, crashes>>

rebootDetected == need_reboot = 1 /\ sentinel = 0

\* finalizeAfterReboot up to the choice of the pending version.  When the
\* stored metadata no longer verifies, or nothing is pending, only the flags
\* are cleared.
DetectReboot ==
  /\ pc = "detect"
  /\ IF ~rebootDetected
     THEN pc' = "idle" /\ target' = target
     ELSE \E expired \in Expires :
            \/ /\ ~expired
               /\ target' \in loadInstalledVersions("kPending")
               /\ pc' = "finalize"
            \/ /\ expired \/ ~hasPendingInstall
               /\ pc' = "unflag" /\ target' = target
  /\ UNCHANGED <<server, deployments, booted, uboot, sentinel, disk, after, api, manifest, budget>>

\* OstreeManager::finalizeInstall compares the hash of the running image; the
\* fake one asks for the version to be the pending one (and makes it current,
\* as its caller does); the Debian one has nothing to finalise.
ostreeFinalizeInstall(t) == getCurrent = t
fakeFinalizeInstall(t) == t \in loadInstalledVersions("kPending")
finalizeInstall(t) ==
  IF PackageManager = "kOstree" THEN ostreeFinalizeInstall(t) ELSE fakeFinalizeInstall(t)

\* Faulty variants: the version that is running is not asked for; a version
\* that did not come up stays pending.
FinalizeUnseen ==
  /\ pc = "finalize" /\ saveInstalledVersion(target, "kCurrent") /\ pc' = "final_ok"
  /\ UNCHANGED <<server, deployments, booted, uboot, sentinel, need_reboot, result, target, after,
                 api, manifest, budget>>
FinalizeKeepsPending ==
  /\ pc = "finalize"
  /\ IF finalizeInstall(target) THEN saveInstalledVersion(target, "kCurrent") ELSE rows' = rows
  /\ pc' = IF finalizeInstall(target) THEN "final_ok" ELSE "final_failed"
  /\ UNCHANGED <<server, deployments, booted, uboot, sentinel, need_reboot, result, target, after,
                 api, manifest, budget>>
Finalize ==
  /\ pc = "finalize"
  /\ saveInstalledVersion(target, IF finalizeInstall(target) THEN "kCurrent" ELSE "kNone")
  /\ pc' = IF finalizeInstall(target) THEN "final_ok" ELSE "final_failed"
  /\ UNCHANGED <<server, deployments, booted, uboot, sentinel, need_reboot, result, target, after,
                 api, manifest, budget>>

StoreFinal ==
  /\ pc \in {"final_ok", "final_failed"}
  /\ result' = [id |-> target, code |-> IF pc = "final_ok" THEN "kOk" ELSE "kInstallFailed"]
  /\ pc' = "assemble" /\ after' = "unflag"
  /\ UNCHANGED <<server, deployments, booted, uboot, sentinel, need_reboot, rows, target, api,
                 manifest, budget>>

\* The row first, then the file.
rebootFlagClear ==
  \/ /\ pc = "unflag"
     /\ need_reboot' = 0 /\ sentinel' = sentinel
     /\ pc' = "unsentinel"
  \/ /\ pc = "unsentinel"
     /\ sentinel' = 0 /\ need_reboot' = need_reboot
     /\ pc' = "idle"

RebootFlagClear ==
  /\ rebootFlagClear
  /\ UNCHANGED <<server, deployments, booted, uboot, rows, result, target, after, api, manifest,
                 budget>>

-----------------------------------------------------------------------------
(* putManifestSimple, run by the cycle thread and by the API thread. *)

Goto(th, from, to) ==
  IF th = "cycle" THEN pc = from /\ pc' = to /\ api' = api
                  ELSE api = from /\ api' = to /\ pc' = pc

\* updateMeta gives up when the manifest is not sent; the other callers go on.
Return(th, sent) ==
  IF th = "api" THEN "idle" ELSE IF after = "fetch" /\ ~sent THEN "idle" ELSE after

AssembleManifest(th) ==
  /\ Goto(th, "assemble", "disabled")
  /\ manifest' = [manifest EXCEPT ![th] = result]
  /\ UNCHANGED <<server, deployments, booted, uboot, sentinel, disk, target, after, budget>>

\* "An update is pending, putManifest is disabled"
CheckPending(th) ==
  /\ Goto(th, "disabled", IF hasPendingInstall THEN Return(th, FALSE) ELSE "put")
  /\ UNCHANGED <<server, deployments, booted, uboot, sentinel, disk, target, after, manifest, budget>>

\* The request may fail before it reaches the Director or after.
PutManifestIgnoresFailure(th) ==
  /\ Goto(th, "put", "clear")
  /\ \/ last' = manifest[th] /\ faults' = faults
     \/ faults < MaxFaults /\ faults' = faults + 1 /\ last' = last
  /\ UNCHANGED <<device, wanted, deployments, booted, uboot, sentinel, disk, target, after, manifest,
                 envFaults, crashes>>
PutManifest(th) ==
  /\ \/ /\ Goto(th, "put", "clear")
        /\ last' = manifest[th] /\ faults' = faults
     \/ /\ faults < MaxFaults /\ faults' = faults + 1
        /\ Goto(th, "put", Return(th, FALSE))
        /\ last' \in {last, manifest[th]}
  /\ UNCHANGED <<device, wanted, deployments, booted, uboot, sentinel, disk, target, after, manifest,
                 envFaults, crashes>>

ClearInstallationResult(th) ==
  /\ Goto(th, "clear", Return(th, TRUE))
  /\ result' = NoResult
  /\ UNCHANGED <<server, deployments, booted, uboot, sentinel, need_reboot, rows, target, after,
                 manifest, budget>>

putManifestSimple(th) ==
  AssembleManifest(th) \/ CheckPending(th) \/ PutManifest(th) \/ ClearInstallationResult(th)

\* The API thread, which the check and the download of a cycle run on as well,
\* does not exist before the start-up is over.
ApiThreadTaken == pc \in Starting \cup {"fetch"} \/ (pc \in Manifesting /\ after # "idle")

\* SendDeviceData or CheckUpdates, called while the cycle's own thread is idle,
\* installs, or sends the manifest that ends the cycle.
ApiPutManifest ==
  /\ device.apiThread /\ api = "idle" /\ api' = "assemble"
  /\ ~ApiThreadTaken
  /\ UNCHANGED <<server, deployments, booted, uboot, sentinel, disk, thread, manifest, budget>>

-----------------------------------------------------------------------------
(* UptaneCycle: updateMeta, the check and the download, uptaneInstall. *)

updateMeta ==
  /\ pc = "idle" /\ api = "idle"
  /\ pc' = "assemble" /\ after' = "fetch"
  /\ UNCHANGED <<server, deployments, booted, uboot, sentinel, disk, target, api, manifest, budget>>

\* Updates are masked while one is pending.
CheckUpdates ==
  /\ pc = "fetch"
  /\ \/ /\ ~hasPendingInstall /\ isNew(wanted)
        /\ target' = wanted /\ pc' = "install" /\ faults' = faults
     \/ /\ hasPendingInstall \/ ~isNew(wanted)
        /\ pc' = "idle" /\ target' = target /\ faults' = faults
     \/ /\ faults < MaxFaults /\ faults' = faults + 1
        /\ pc' = "idle" /\ target' = target
  /\ UNCHANGED <<server, deployments, booted, uboot, sentinel, disk, after, api, manifest, envFaults,
                 crashes>>

uptaneInstall ==
  /\ pc = "install"
  /\ IF isInstalledOnPrimary(target)
     THEN /\ result' = [id |-> target, code |-> "kAlreadyProcessed"]
          /\ pc' = "assemble" /\ after' = "idle"
     ELSE /\ pc' = IF RollbackMode = "kBootloaderNone" THEN "deploy" ELSE "notify1"
          /\ UNCHANGED <<result, after>>
  /\ UNCHANGED <<server, deployments, booted, uboot, sentinel, need_reboot, rows, target, api,
                 manifest, budget>>

\* One fw_setenv call after the other.
updateNotify ==
  \/ /\ pc = "notify1"
     /\ setenv(bootcount, 0, bootcount')
     /\ pc' = IF RollbackMode = "kUbootMasked" THEN "notify2" ELSE "notify3"
     /\ UNCHANGED <<upgrade_available, rollback>>
  \/ /\ pc = "notify2"
     /\ setenv(upgrade_available, 1, upgrade_available')
     /\ pc' = "notify3"
     /\ UNCHANGED <<bootcount, rollback>>
  \/ /\ pc = "notify3"
     /\ setenv(rollback, 0, rollback')
     /\ pc' = "deploy"
     /\ UNCHANGED <<bootcount, upgrade_available>>

UpdateNotify ==
  /\ updateNotify
  /\ UNCHANGED <<server, deployments, booted, sentinel, disk, target, after, api, manifest, faults,
                 crashes>>

\* OstreeManager::install: the new deployment is put in front of the booted one.
ostreeInstall == deployments' = <<target, booted>> /\ pc' = "sentinel"

\* PackageManagerFake::install marks the version pending before it sets the
\* reboot flag, or makes it current at once.
fakeInstall ==
  /\ pc' = IF device.fake_need_reboot THEN "fake_pending" ELSE "current"
  /\ UNCHANGED deployments

\* DebianManager::install: dpkg has installed the package.
debianInstall == pc' = "current" /\ UNCHANGED deployments

Deploy ==
  /\ pc = "deploy"
  /\ \/ /\ \/ PackageManager = "kOstree" /\ ostreeInstall
           \/ PackageManager = "kNone" /\ fakeInstall
           \/ PackageManager = "kDebian" /\ debianInstall
        /\ faults' = faults
     \/ /\ faults < MaxFaults /\ faults' = faults + 1
        /\ deployments' = deployments /\ pc' = "failed"
  /\ UNCHANGED <<server, booted, uboot, sentinel, disk, target, after, api, manifest, envFaults,
                 crashes>>

\* The file first, then the row.
rebootFlagSetNoRow ==
  /\ pc = "sentinel"
  /\ sentinel' = 1 /\ need_reboot' = need_reboot
  /\ pc' = "pending"
rebootFlagSet ==
  \/ /\ pc = "sentinel"
     /\ sentinel' = 1 /\ need_reboot' = need_reboot
     /\ pc' = "need_reboot"
  \/ /\ pc = "need_reboot"
     /\ need_reboot' = 1 /\ sentinel' = sentinel
     /\ pc' = "pending"

RebootFlagSet ==
  /\ rebootFlagSet
  /\ UNCHANGED <<server, deployments, booted, uboot, rows, result, target, after, api, manifest,
                 budget>>

\* The fake package manager first, then PackageInstallSetResult for all: the
\* version becomes pending or current, and the result is stored.
SavePending ==
  /\ pc \in {"fake_pending", "pending"}
  /\ saveInstalledVersion(target, "kPending")
  /\ pc' = IF pc = "fake_pending" THEN "sentinel" ELSE "store"
  /\ UNCHANGED <<server, deployments, booted, uboot, sentinel, need_reboot, result, target, after,
                 api, manifest, budget>>

SaveCurrent ==
  /\ pc = "current"
  /\ saveInstalledVersion(target, "kCurrent")
  /\ pc' = "stored"
  /\ UNCHANGED <<server, deployments, booted, uboot, sentinel, need_reboot, result, target, after,
                 api, manifest, budget>>

ResultAt == [store |-> "kNeedCompletion", stored |-> "kOk", failed |-> "kInstallFailed"]
StoreResult ==
  /\ pc \in {"store", "stored", "failed"}
  /\ result' = [id |-> target, code |-> ResultAt[pc]]
  /\ pc' = "assemble" /\ after' = "idle"
  /\ UNCHANGED <<server, deployments, booted, uboot, sentinel, need_reboot, rows, target, api,
                 manifest, budget>>

-----------------------------------------------------------------------------
(* Restarts. *)

\* The process starts again with the volatile state gone.
Restart(at) ==
  /\ pc' = at /\ api' = "idle"
  /\ target' = 0 /\ after' = "idle"
  /\ manifest' = [th \in {"cycle", "api"} |-> NoResult]

\* The process dies and the service manager starts it again.
Crash ==
  /\ pc # "boot" /\ crashes < MaxCrashes /\ crashes' = crashes + 1
  /\ Restart("bootok")
  /\ UNCHANGED <<server, deployments, booted, uboot, sentinel, disk, faults, envFaults>>

\* The sentinel lives in a directory that does not survive a reboot.
PowerLoss ==
  /\ pc # "boot" /\ crashes < MaxCrashes /\ crashes' = crashes + 1
  /\ Restart("boot") /\ sentinel' = 0
  /\ UNCHANGED <<server, deployments, booted, uboot, disk, faults, envFaults>>

\* The device is rebooted to complete the update.
Reboot ==
  /\ pc # "boot" /\ hasPendingInstall /\ need_reboot = 1 /\ sentinel = 1
  /\ Restart("boot") /\ sentinel' = 0
  /\ UNCHANGED <<server, deployments, booted, uboot, disk, budget>>

-----------------------------------------------------------------------------

Cycle ==
  \/ SetBootOK \/ DetectReboot \/ Finalize \/ StoreFinal \/ RebootFlagClear
  \/ updateMeta \/ CheckUpdates \/ putManifestSimple("cycle")
  \/ uptaneInstall \/ UpdateNotify \/ Deploy \/ RebootFlagSet \/ SavePending \/ SaveCurrent
  \/ StoreResult

Next ==
  \/ Assign \/ Boot \/ Cycle
  \/ ApiPutManifest \/ putManifestSimple("api")
  \/ Crash \/ PowerLoss \/ Reboot

Spec == Init /\ [][Next]_vars

\* The threads run, the queue of the API thread comes to the cycle's check
\* sooner or later, the device boots, and an update that waits for a reboot
\* gets one.
FairSpec ==
  /\ Spec
  /\ WF_vars(Cycle) /\ WF_vars(putManifestSimple("api")) /\ SF_vars(updateMeta)
  /\ WF_vars(Boot) /\ WF_vars(Reboot)

-----------------------------------------------------------------------------
(* Properties. *)

\* A version marked pending has its reboot flag stored, so the next start
\* after a reboot will finalise it: an update never stays pending for ever,
\* which would disable manifests and update checks with it.  The fake package
\* manager marks the version first, and a death between the two leaves it so.
PendingWillFinalize == PackageManager # "kNone" /\ hasPendingInstall => need_reboot = 1

\* Whenever U-boot would boot an image on which aktualizr does not come up,
\* it is counting the attempts and a working image is there to fall back to:
\* neither a restart before the reboot nor a notification cut short by a
\* power loss switches the rollback off.  Only a failed fw_setenv may.
RollbackArmed ==
  deployments[1] \in Bad =>
    /\ deployments[2] \notin Bad
    /\ RollbackMode = "kUbootMasked" => rollback = 1 \/ upgrade_available = 1 \/ envFaults > 0

\* Whatever flags, notifications, deaths and manifests come in between, the
\* table of installed versions goes through the life of an update: always one
\* current version, a pending one beside it that is decided in one step by
\* what is running then.
Life == INSTANCE UpdateLife
          WITH Versions <- Images, Factory <- 0, Untold <- Unknown,
               current <- recordedVersion, pending <- loadInstalledVersions("kPending"),
               running <- IF PackageManager = "kOstree" THEN booted ELSE Unknown
\* The installation on the primary implements UpdateLife.
ImplementsLife == Life!Spec

\* The version the device has taken over for good.
Runs(i) == IF PackageManager = "kOstree" THEN booted = i ELSE rows[i] = "kCurrent"

\* When the Director settles on a working image the device ends up running it,
\* whatever step a crash, a power loss or a failed fw_setenv hit.  Excepted are
\* a device lost to a bad image U-boot was not told of, a version U-boot rolled
\* back after it had become current (getNewTargets asks the table, not the
\* running image), and one the fake package manager left pending without flag.
EventuallyRunning ==
  <>[](wanted \notin Bad) =>
     \/ <>[]Runs(wanted)
     \/ <>[](envFaults > 0 /\ pc = "boot")
     \/ <>[](rollback = 1 /\ rows[wanted] = "kCurrent")
     \/ <>[](PackageManager = "kNone" /\ hasPendingInstall /\ need_reboot = 0)

\* Unless the process dies or the power fails, the Director learns the final
\* outcome of every update that became pending: that it booted, or that the
\* device was rolled back.
OutcomeReported ==
  \A t \in Images :
    rows[t] = "kPending" ~> \/ last \in [id : {t}, code : {"kOk", "kInstallFailed"}]
                            \/ crashes > 0 \/ envFaults > 0
=============================================================================
