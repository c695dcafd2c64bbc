------------------------------ MODULE OtaUpdate ------------------------------
(***************************************************************************)
(* Over-the-air updates: OTAManager (ota/meterhub_ota_manager) with        *)
(* MenderBootManager (common/meterhub_common/mender_boot_manager.py), the  *)
(* U-Boot environment they share with the bootloader, and the bootloader   *)
(* itself, which is not in the repository and follows                      *)
(* docs/PHASE_5_OTA_STRATEGY.md:118-130.                                   *)
(*                                                                         *)
(* Each fw_setenv is one action: power may fail between any two.  An       *)
(* update is                                                               *)
(*                                                                         *)
(*   pause -> download -> verify -> write -> dd -> stage -> count -> reboot *)
(*                                                                         *)
(* where a failing step goes to resume; after a boot, the device startup   *)
(* calls commit_update once, before anything else:                         *)
(*                                                                         *)
(*   commit -> clear -> recount                                            *)
(*                                                                         *)
(*   active, staged, bootcount   the U-Boot environment: mender_boot_part, *)
(*              mender_staging_part, bootcount                             *)
(*   image      what each partition holds: an image that boots (good), one *)
(*              that does not (bad), or the beginning of one (partial)     *)
(*   machine    "boot" until an image has come up, then "up"               *)
(*   running    the partition the machine runs from when it is up          *)
(*   services   the services systemd is running                            *)
(*   pc         where the manager is; "idle" between calls                 *)
(*   state      OTAManager.current_state                                   *)
(*   file       the downloaded image                                       *)
(*   target     the partition being written                                *)
(***************************************************************************)
EXTENDS Naturals

CONSTANTS
  MaxBoots,      \* boot attempts before the bootloader rolls back: 3
  EnvReadable,   \* fw_printenv never fails
  StartsWork     \* systemctl start never fails

ASSUME OtaAssumption ==
  /\ MaxBoots \in Nat \ {0}
  /\ EnvReadable \in BOOLEAN /\ StartsWork \in BOOLEAN

VARIABLES active, staged, bootcount, image, machine, running, services,
          pc, state, file, target

env == <<active, staged, bootcount>>
manager == <<pc, state, file, target>>
vars == <<env, image, machine, running, services, manager>>

Partitions == {"a", "b"}
None == "none"
Services == {"acquisition", "uploader"}
Pc == {"idle", "pause", "download", "verify", "write", "dd", "stage", "count",
       "reboot", "resume", "commit", "clear", "recount"}
States == {"idle", "downloading", "verifying", "staging", "committed",
           "failed", "rolled_back"}
Files == {"good", "bad", "corrupt"}
Images == {"good", "bad", "partial"}

\* Mutant of toggle: the partition itself.
Same(p) == p

\* Mutant of toggle: B has no other.
OnlyFromA(p) == IF p = "a" THEN "b" ELSE None

toggle(p) == IF p = "a" THEN "b" ELSE "a"

\* The device leaves the factory running from A.
Init ==
  /\ active = "a" /\ staged = None /\ bootcount = 0
  /\ image \in [Partitions -> {"good", "partial"}] /\ image["a"] = "good"
  /\ machine = "boot" /\ running = "a" /\ services = {}
  /\ pc = "idle" /\ state = "idle" /\ file = "good" /\ target = "b"

-----------------------------------------------------------------------------
(* The environment, as the manager reads and writes it *)

\* _get_active_partition: any failure reads as A.
ReadActive == {active} \cup IF EnvReadable THEN {} ELSE {"a"}

\* _get_staged_partition: any failure reads as none.
ReadStaged == {staged} \cup IF EnvReadable THEN {} ELSE {None}

\* What fw_setenv leaves of a variable, by the way the call ends: "ok", a
\* non-zero "error", or a "timeout", killed before or after its write.
SetEnv(old, new, outcome) ==
  CASE outcome = "ok"      -> {new}
    [] outcome = "error"   -> {old}
    [] outcome = "timeout" -> {old, new}

Outcomes == {"ok", "error", "timeout"}

-----------------------------------------------------------------------------
(* The bootloader and the power *)

\* Selects a partition and starts it.  An image that does not come up leaves
\* the machine to the watchdog, which resets it.
Boot ==
  /\ machine = "boot"
  /\ LET try == staged # None /\ bootcount < MaxBoots
         part == IF try THEN staged ELSE active
     IN /\ bootcount' = IF try THEN bootcount + 1 ELSE bootcount
        /\ staged' = IF try THEN staged ELSE None
        /\ IF image[part] = "good"
             THEN /\ machine' = "up" /\ running' = part
                  /\ services' = Services
                  /\ pc' = "commit"
             ELSE UNCHANGED <<machine, running, services, pc>>
  /\ UNCHANGED <<active, image, state, file, target>>

\* The machine goes down, and the manager's process with it.
GoesDown ==
  /\ machine' = "boot" /\ services' = {}
  /\ pc' = "idle" /\ state' = "idle"
  /\ UNCHANGED <<env, image, running, file, target>>

PowerLoss == machine = "up" /\ GoesDown

-----------------------------------------------------------------------------
(* commit_update, called once at device startup *)

\* Mutant of CommitUpdate: toggle(active) is committed, staged or not.
CommitBlindly ==
  /\ pc = "commit"
  /\ active' = toggle(active) /\ pc' = "clear"
  /\ UNCHANGED <<staged, bootcount, image, machine, running, services, state, file, target>>

CommitUpdate ==
  /\ pc = "commit"
  /\ \E s \in ReadStaged :
       \/ s = None /\ pc' = "idle" /\ active' = active
       \/ /\ s # None
          /\ \E outcome \in Outcomes :
               /\ active' \in SetEnv(active, s, outcome)
               /\ pc' = IF outcome = "ok" THEN "clear" ELSE "idle"
  /\ UNCHANGED <<staged, bootcount, image, machine, running, services, state, file, target>>

\* An error here is not noticed; a timeout ends the commit.
CommitClears ==
  /\ pc = "clear"
  /\ \E outcome \in Outcomes :
       /\ staged' \in SetEnv(staged, None, outcome)
       /\ pc' = IF outcome = "timeout" THEN "idle" ELSE "recount"
  /\ UNCHANGED <<active, bootcount, image, machine, running, services, state, file, target>>

CommitCounts ==
  /\ pc = "recount"
  /\ bootcount' \in {bootcount, 0}
  /\ pc' = "idle"
  /\ UNCHANGED <<active, staged, image, machine, running, services, state, file, target>>

-----------------------------------------------------------------------------
(* perform_full_update *)

BeginUpdate ==
  /\ machine = "up" /\ pc = "idle"
  /\ pc' = "pause"
  /\ UNCHANGED <<env, image, machine, running, services, state, file, target>>

\* pause_services: a stop that takes more than ten seconds is left pending, a
\* failed one is logged, and the result is ignored.  The uploader unit
\* requires the acquisition unit, so systemd stops it first.
Stopping ==
  /\ services' \in SUBSET services
  /\ "uploader" \in services' => "acquisition" \in services'

PauseServices ==
  /\ pc = "pause"
  /\ Stopping
  /\ pc' = "download"
  /\ UNCHANGED <<env, image, machine, running, state, file, target>>

\* A pending stop comes through while the update is under way.
StopsLate ==
  /\ pc \in {"download", "verify", "write", "dd", "stage", "count", "reboot"}
  /\ Stopping /\ services' # services
  /\ UNCHANGED <<env, image, machine, running, manager>>

\* A failed step: resume_services follows.
Fails(newState) == pc' = "resume" /\ state' = newState

\* 200, another status, or an exception.
DownloadImage ==
  /\ pc = "download"
  /\ \/ pc' = "verify" /\ state' = "downloading" /\ file' \in Files
     \/ Fails("downloading") /\ file' = file
     \/ Fails("failed") /\ file' \in {file, "corrupt"}
  /\ UNCHANGED <<env, image, machine, running, services, target>>

\* Size, SHA-256 and signature are those of the manifest; whether the image
\* boots they cannot tell.
VerifyImage ==
  /\ pc = "verify"
  /\ \/ file # "corrupt" /\ pc' = "write" /\ state' = "verifying"
     \/ Fails("verifying")
  /\ UNCHANGED <<env, image, machine, running, services, file, target>>

\* Mutant of StageImage: the other partition than the one it runs from, as
\* docs/specifications/PRODUCTION_SPEC.md:579 would have it.
StageBesideRunning ==
  /\ pc = "write"
  /\ target' = toggle(running)
  /\ image' = [image EXCEPT ![target'] = "partial"]
  /\ pc' = "dd" /\ state' = "staging"
  /\ UNCHANGED <<env, machine, running, services, file>>

\* stage_image up to the start of dd.
StageImage ==
  /\ pc = "write"
  /\ \E a \in ReadActive : target' = toggle(a)
  /\ image' = [image EXCEPT ![target'] = "partial"]
  /\ pc' = "dd" /\ state' = "staging"
  /\ UNCHANGED <<env, machine, running, services, file>>

\* dd ends, well or not.
WriteImage ==
  /\ pc = "dd"
  /\ \/ /\ image' = [image EXCEPT ![target] = file]
        /\ pc' = "stage" /\ state' = state
     \/ Fails("failed") /\ image' = image
  /\ UNCHANGED <<env, machine, running, services, file, target>>

\* stage_partition: the active partition is read again.
StagePartition ==
  /\ pc = "stage"
  /\ \/ /\ target \in ReadActive
        /\ Fails("failed") /\ staged' = staged
     \/ /\ ReadActive \ {target} # {}
        /\ \E outcome \in Outcomes :
             /\ staged' \in SetEnv(staged, target, outcome)
             /\ IF outcome = "ok" THEN pc' = "count" /\ state' = state
                                  ELSE Fails("failed")
  /\ UNCHANGED <<active, bootcount, image, machine, running, services, file, target>>

\* An error here is not noticed; a timeout fails an update that is staged.
StageCounts ==
  /\ pc = "count"
  /\ \E outcome \in Outcomes :
       /\ bootcount' \in SetEnv(bootcount, 0, outcome)
       /\ IF outcome = "timeout" THEN Fails("failed")
                                 ELSE pc' = "reboot" /\ state' = "committed"
  /\ UNCHANGED <<active, staged, image, machine, running, services, file, target>>

Reboot == pc = "reboot" /\ GoesDown

\* `shutdown -r now' fails or times out.  perform_full_update ignores the
\* result and returns, without resume_services.
RebootFails ==
  /\ pc = "reboot"
  /\ pc' = "idle"
  /\ UNCHANGED <<env, image, machine, running, services, state, file, target>>

\* systemctl start of both units; a failure is logged only.
ResumeServices ==
  /\ pc = "resume"
  /\ services' \in {s \in SUBSET Services : services \subseteq s}
  /\ "uploader" \in services' => "acquisition" \in services'
  /\ StartsWork => services' = Services
  /\ pc' = "idle"
  /\ UNCHANGED <<env, image, machine, running, state, file, target>>

\* rollback_update: only the staging variable is cleared.
RollbackUpdate ==
  /\ machine = "up" /\ pc = "idle"
  /\ \E s \in ReadStaged : s # None
  /\ \E outcome \in Outcomes :
       /\ staged' \in SetEnv(staged, None, outcome)
       /\ state' = IF outcome = "ok" THEN "rolled_back" ELSE state
  /\ UNCHANGED <<active, bootcount, image, machine, running, services, pc, file, target>>

-----------------------------------------------------------------------------

ManagerStep ==
  \/ CommitUpdate \/ CommitClears \/ CommitCounts
  \/ PauseServices \/ DownloadImage \/ VerifyImage
  \/ StageImage \/ WriteImage \/ StagePartition \/ StageCounts
  \/ Reboot \/ RebootFails \/ ResumeServices

Next == \/ Boot \/ PowerLoss \/ StopsLate
        \/ BeginUpdate \/ RollbackUpdate \/ ManagerStep

Spec == Init /\ [][Next]_vars

\* The bootloader and a running manager go on, and shutdown works if it is
\* called for long enough.  Updates need not begin, and nothing is assumed of
\* the power.
FairSpec ==
  /\ Spec
  /\ WF_vars(Boot) /\ WF_vars(ManagerStep)
  /\ SF_vars(Reboot)

-----------------------------------------------------------------------------
(* Properties *)

\* The variables keep their types, the manager works on a running machine,
\* and nothing is written that has not been verified.
TypeOK ==
  /\ active \in Partitions /\ staged \in Partitions \cup {None}
  /\ bootcount \in 0 .. MaxBoots
  /\ image \in [Partitions -> Images]
  /\ machine \in {"boot", "up"} /\ running \in Partitions
  /\ services \subseteq Services
  /\ pc \in Pc /\ state \in States
  /\ file \in Files /\ target \in Partitions
  /\ machine = "boot" => pc = "idle" /\ services = {}
  /\ pc \in {"write", "dd"} => file # "corrupt"

\* Wherever power fails and whichever call fails, the partition the
\* bootloader falls back to holds a complete image that has booted.
ActiveBootable == image[active] = "good"

\* An update becomes permanent only for the image the machine is running:
\* one that was staged, selected by the bootloader and has come up.
CommitsWhatRuns ==
  [][active' # active => machine = "up" /\ active' = running]_vars

\* Updates, commits and boots, each of them several calls of fw_setenv that
\* power can fail between, are what AbPartitions allows: no write touches the
\* partition the bootloader falls back to (mender_boot_manager.py:105), and
\* that changes only to one that has come up and is still whole.
Ab == INSTANCE AbPartitions WITH
        fallback <- active, holds <- image, Bootable <- {"good"},
        up <- IF machine = "up" THEN running ELSE None
ImplementsAb == Ab!AbSpec

\* However bad the staged image is, the bootloader ends up with a system.
BootEnds == machine = "boot" ~> machine = "up"

\* docs/specifications/PRODUCTION_SPEC.md:579, "Device installs to inactive
\* partition (Partition B if running A)": dd never writes to the partition
\* the machine is running from.
InstallsToInactive == pc = "dd" => target # running

\* docs/PHASE_5_OTA_STRATEGY.md:42, "Resume Services": services an update
\* has paused run again in the end.
ServicesComeBack == services # Services ~> services = Services
=============================================================================
