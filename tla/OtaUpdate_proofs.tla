-------------------------- MODULE OtaUpdate_proofs --------------------------
(***************************************************************************)
(* Theorems about over-the-air updates.  What keeps the device bootable is *)
(* that the manager writes to the partition that is not active             *)
(* (TargetNotActive) and commits a partition at one moment only, when the  *)
(* machine has just come up from it (CommitsWhatBooted).  With these two,  *)
(* every step is one of AbPartitions, or none.  TargetNotActive needs an   *)
(* environment that can be read; what is committed does not.               *)
(***************************************************************************)
EXTENDS OtaUpdate, TLAPS

\* While an image is written and staged, its partition is not the active one.
TargetNotActive == pc \in {"dd", "stage"} => target # active

\* When the startup decides on a commit, what is staged is what came up.
CommitsWhatBooted ==
  pc = "commit" =>
    machine = "up" /\ staged \in {None, running} /\ image[running] = "good"

IInv == TypeOK /\ TargetNotActive /\ CommitsWhatBooted /\ ActiveBootable

-----------------------------------------------------------------------------
(* Type correctness *)

LEMMA TypeInit == Init => TypeOK
  BY OtaAssumption
     DEF Init, TypeOK, Partitions, Images, Services, Pc, States, Files, None

LEMMA TypeStep == TypeOK /\ [Next]_vars => TypeOK'
  <1> SUFFICES ASSUME TypeOK, [Next]_vars PROVE TypeOK'
    OBVIOUS
  <1> USE DEF TypeOK, Partitions, Images, Services, Pc, States, Files, None, env
  <1>1. CASE Boot
    <2>1. bootcount' \in 0 .. MaxBoots /\ staged' \in Partitions \cup {None}
      BY <1>1, OtaAssumption DEF Boot
    <2>2. \/ machine' = "up" /\ running' \in Partitions /\ services' = Services /\ pc' = "commit"
          \/ UNCHANGED <<machine, running, services, pc>>
      BY <1>1 DEF Boot
    <2>3. UNCHANGED <<active, image, state, file, target>>
      BY <1>1 DEF Boot
    <2>4. CASE machine' = "up" /\ running' \in Partitions /\ services' = Services /\ pc' = "commit"
      BY <2>1, <2>3, <2>4
    <2>5. CASE UNCHANGED <<machine, running, services, pc>>
      BY <2>1, <2>3, <2>5
    <2> QED
      BY <2>2, <2>4, <2>5
  <1>2. CASE PowerLoss
    BY <1>2 DEF PowerLoss, GoesDown
  <1>3. CASE BeginUpdate
    BY <1>3 DEF BeginUpdate
  <1>4. CASE RollbackUpdate
    BY <1>4 DEF RollbackUpdate, SetEnv, Outcomes
  <1>5. CASE CommitUpdate
    BY <1>5 DEF CommitUpdate, ReadStaged, SetEnv, Outcomes
  <1>6. CASE CommitClears
    BY <1>6 DEF CommitClears, SetEnv, Outcomes
  <1>7. CASE CommitCounts
    BY <1>7, OtaAssumption DEF CommitCounts
  <1>8. CASE PauseServices
    BY <1>8 DEF PauseServices, Stopping
  <1>9. CASE DownloadImage
    BY <1>9 DEF DownloadImage, Fails
  <1>10. CASE VerifyImage
    BY <1>10 DEF VerifyImage, Fails
  <1>11. CASE StageImage
    BY <1>11 DEF StageImage, ReadActive, toggle
  <1>12. CASE WriteImage
    BY <1>12 DEF WriteImage, Fails
  <1>13. CASE StagePartition
    BY <1>13 DEF StagePartition, Fails, SetEnv, Outcomes
  <1>14. CASE StageCounts
    BY <1>14, OtaAssumption DEF StageCounts, Fails, SetEnv, Outcomes
  <1>15. CASE Reboot
    BY <1>15 DEF Reboot, GoesDown
  <1>16. CASE RebootFails
    BY <1>16 DEF RebootFails
  <1>17. CASE ResumeServices
    BY <1>17 DEF ResumeServices
  <1>18. CASE StopsLate
    BY <1>18 DEF StopsLate, Stopping, manager
  <1>19. CASE UNCHANGED vars
    BY <1>19 DEF vars, manager
  <1> QED
    BY <1>1, <1>2, <1>3, <1>4, <1>5, <1>6, <1>7, <1>8, <1>9, <1>10, <1>11, <1>12,
       <1>13, <1>14, <1>15, <1>16, <1>17, <1>18, <1>19 DEF Next, ManagerStep

\* Every variable keeps its type, with or without a readable environment.
THEOREM TypeCorrect == Spec => []TypeOK
  BY TypeInit, TypeStep, PTL DEF Spec

-----------------------------------------------------------------------------
(* The active partition stays bootable *)

LEMMA InvInit == Init => IInv
  BY TypeInit DEF Init, IInv, TargetNotActive, CommitsWhatBooted, ActiveBootable

\* Only the write of an image and the commit of a partition can disturb it.
LEMMA InvStep ==
  ASSUME EnvReadable = TRUE, IInv, [Next]_vars
  PROVE  IInv'
  <1>1. TypeOK'
    BY TypeStep DEF IInv
  <1> USE DEF IInv, TargetNotActive, CommitsWhatBooted, ActiveBootable, env
  <1>2. CASE Boot
    <2>1. UNCHANGED <<active, image>>
      BY <1>2 DEF Boot
    <2>2. pc = "idle"
      BY <1>2 DEF Boot, TypeOK
    <2>3. \/ /\ pc' = "commit" /\ machine' = "up"
             /\ \/ running' = staged /\ staged' = staged
                \/ staged' = None
             /\ image[running'] = "good"
          \/ pc' = pc
      BY <1>2 DEF Boot
    <2> QED
      BY <1>1, <2>1, <2>2, <2>3
  <1>3. CASE PowerLoss \/ Reboot
    BY <1>1, <1>3 DEF PowerLoss, Reboot, GoesDown
  <1>4. CASE CommitUpdate
    <2>1. UNCHANGED <<staged, image, machine, running, target>>
          /\ pc' \in {"idle", "clear"}
      BY <1>4 DEF CommitUpdate
    <2>2. ReadStaged = {staged}
      BY DEF ReadStaged
    <2>3. active' \in {active, running} /\ machine = "up" /\ image[running] = "good"
      BY <1>4, <2>2 DEF CommitUpdate, SetEnv, Outcomes
    <2> QED
      BY <1>1, <2>1, <2>3
  <1>5. CASE StageImage
    <2>1. target' = toggle(active) /\ active' = active /\ pc' = "dd"
      BY <1>5 DEF StageImage, ReadActive
    <2>2. toggle(active) # active
      BY DEF toggle
    <2>3. image'[active] = image[active]
      BY <1>5, <2>1, <2>2 DEF StageImage, TypeOK
    <2> QED
      BY <1>1, <2>1, <2>2, <2>3
  <1>6. CASE WriteImage
    <2>1. active' = active /\ target' = target /\ pc' \in {"stage", "resume"}
      BY <1>6 DEF WriteImage, Fails
    <2>2. target # active
      BY <1>6 DEF WriteImage
    <2>3. image'[active] = image[active]
      BY <1>6, <2>2 DEF WriteImage, TypeOK
    <2> QED
      BY <1>1, <2>1, <2>2, <2>3
  <1>7. CASE \/ CommitClears \/ CommitCounts \/ BeginUpdate \/ RollbackUpdate \/ PauseServices
             \/ DownloadImage \/ VerifyImage \/ StagePartition \/ StageCounts
             \/ RebootFails \/ ResumeServices \/ StopsLate \/ UNCHANGED vars
    <2>1. UNCHANGED <<active, image, target>>
      BY <1>7 DEF CommitClears, CommitCounts, BeginUpdate, RollbackUpdate, PauseServices,
                  DownloadImage, VerifyImage, StagePartition, StageCounts, RebootFails,
                  ResumeServices, StopsLate, vars, manager
    <2>2. \/ pc' \notin {"dd", "stage", "commit"}
          \/ UNCHANGED <<pc, machine, staged, running>>
      BY <1>7 DEF CommitClears, CommitCounts, BeginUpdate, RollbackUpdate, PauseServices,
                  DownloadImage, VerifyImage, StagePartition, StageCounts, RebootFails,
                  ResumeServices, StopsLate, Fails, vars, manager
    <2> QED
      BY <1>1, <2>1, <2>2
  <1> QED
    BY <1>2, <1>3, <1>4, <1>5, <1>6, <1>7 DEF Next, ManagerStep

LEMMA InvariantCorrect ==
  ASSUME EnvReadable = TRUE
  PROVE  Spec => []IInv
  BY InvInit, InvStep, PTL DEF Spec

\* With an environment that can be read, no failing call and no power loss
\* leaves the device without a system to fall back to.
THEOREM NeverBricked ==
  ASSUME EnvReadable = TRUE
  PROVE  Spec => []ActiveBootable
  <1>1. IInv => ActiveBootable
    BY DEF IInv
  <1> QED
    BY <1>1, InvariantCorrect, PTL

-----------------------------------------------------------------------------
(* What is committed *)

\* When the startup decides on a commit, nothing but what runs can be staged.
RunsWhatIsStaged == pc = "commit" => machine = "up" /\ staged \in {None, running}

LEMMA StagedStep ==
  ASSUME TypeOK, RunsWhatIsStaged, [Next]_vars
  PROVE  /\ RunsWhatIsStaged'
         /\ active' # active => machine = "up" /\ active' = running
  <1> USE DEF RunsWhatIsStaged, env
  <1>1. CASE Boot
    <2>1. active' = active /\ pc = "idle"
      BY <1>1 DEF Boot, TypeOK
    <2>2. \/ pc' = pc
          \/ /\ pc' = "commit" /\ machine' = "up"
             /\ \/ running' = staged /\ staged' = staged
                \/ staged' = None
      BY <1>1 DEF Boot
    <2> QED
      BY <2>1, <2>2
  <1>2. CASE CommitUpdate
    <2>1. pc' \in {"idle", "clear"}
      BY <1>2 DEF CommitUpdate
    <2>2. ReadStaged \subseteq {staged, None}
      BY DEF ReadStaged
    <2>3. active' \in {active, staged} /\ (active' = active \/ staged # None)
      BY <1>2, <2>2 DEF CommitUpdate, SetEnv, Outcomes
    <2> QED
      BY <1>2, <2>1, <2>3 DEF CommitUpdate
  <1>3. CASE PowerLoss \/ Reboot
    BY <1>3 DEF PowerLoss, Reboot, GoesDown
  <1>4. CASE \/ CommitClears \/ CommitCounts \/ BeginUpdate \/ RollbackUpdate \/ PauseServices
             \/ DownloadImage \/ VerifyImage \/ StageImage \/ WriteImage \/ StagePartition
             \/ StageCounts \/ RebootFails \/ ResumeServices \/ StopsLate \/ UNCHANGED vars
    <2>1. active' = active
      BY <1>4 DEF CommitClears, CommitCounts, BeginUpdate, RollbackUpdate, PauseServices,
                  DownloadImage, VerifyImage, StageImage, WriteImage, StagePartition,
                  StageCounts, RebootFails, ResumeServices, StopsLate, vars
    <2>2. pc' # "commit" \/ UNCHANGED <<pc, machine, staged, running>>
      BY <1>4 DEF CommitClears, CommitCounts, BeginUpdate, RollbackUpdate, PauseServices,
                  DownloadImage, VerifyImage, StageImage, WriteImage, StagePartition,
                  StageCounts, RebootFails, ResumeServices, StopsLate, Fails, vars, manager
    <2> QED
      BY <2>1, <2>2
  <1> QED
    BY <1>1, <1>2, <1>3, <1>4 DEF Next, ManagerStep

\* Only what the machine has come up from is ever made permanent, whether or
\* not the environment can be read.
THEOREM CommitsAreOfWhatRuns == Spec => CommitsWhatRuns
  <1>1. Init => RunsWhatIsStaged
    BY DEF Init, RunsWhatIsStaged
  <1>2. TypeOK /\ RunsWhatIsStaged /\ [Next]_vars => RunsWhatIsStaged'
    BY StagedStep
  <1>3. Spec => []RunsWhatIsStaged
    BY <1>1, <1>2, TypeCorrect, PTL DEF Spec
  <1>4. TypeOK /\ RunsWhatIsStaged /\ [Next]_vars
          => [active' # active => machine = "up" /\ active' = running]_vars
    BY StagedStep
  <1> QED
    BY <1>3, <1>4, TypeCorrect, PTL DEF Spec, CommitsWhatRuns

-----------------------------------------------------------------------------
(* The promise of two partitions *)

Up == IF machine = "up" THEN running ELSE None

LEMMA AbStarts == Init => Ab!AbInit
  BY DEF Init, Ab!AbInit, Partitions, Images, None

\* A step that leaves the images alone does one of these things to the device.
LEMMA AbQuietStep ==
  ASSUME UNCHANGED image,
         \/ UNCHANGED <<active, Up>>
         \/ active' = active /\ Up' = None
         \/ active' = active /\ Up = None /\ Up' \in Partitions /\ image[Up'] = "good"
         \/ Up # None /\ image[Up] = "good" /\ active' = Up /\ Up' = Up
  PROVE  [Ab!AbNext]_(Ab!abVars)
  BY DEF Up, Ab!AbNext, Ab!ComesUp, Ab!Stops, Ab!Commits, Ab!abVars

LEMMA AbStep ==
  ASSUME EnvReadable = TRUE, IInv, [Next]_vars
  PROVE  [Ab!AbNext]_(Ab!abVars)
  <1>1. TypeOK /\ TypeOK' /\ None \notin Partitions
    BY TypeStep DEF IInv, None, Partitions
  <1>2. CASE Boot
    <2>1. UNCHANGED <<active, image>> /\ machine = "boot"
      BY <1>2 DEF Boot
    <2>2. \/ UNCHANGED <<machine, running>>
          \/ machine' = "up" /\ image[running'] = "good"
      BY <1>2 DEF Boot
    <2> QED
      BY <1>1, <2>1, <2>2, AbQuietStep DEF Up, TypeOK
  <1>3. CASE PowerLoss \/ Reboot
    <2>1. UNCHANGED <<active, image>> /\ machine' = "boot"
      BY <1>3 DEF PowerLoss, Reboot, GoesDown, env
    <2> QED
      BY <2>1, AbQuietStep DEF Up
  <1>4. CASE CommitUpdate
    <2>1. machine = "up" /\ staged \in {None, running} /\ image[running] = "good"
      BY <1>4 DEF CommitUpdate, IInv, CommitsWhatBooted
    <2>2. ReadStaged = {staged}
      BY DEF ReadStaged
    <2>3. active' \in {active, running} /\ UNCHANGED <<image, machine, running>>
      BY <1>4, <2>1, <2>2 DEF CommitUpdate, SetEnv, Outcomes
    <2> QED
      BY <1>1, <2>1, <2>3, AbQuietStep DEF Up, TypeOK
  <1>5. CASE StageImage \/ WriteImage
    <2>1. PICK p \in Partitions \ {active}, i \in Images :
            image' = [image EXCEPT ![p] = i] \/ image' = image
      <3>1. CASE StageImage
        <4>1. target' = toggle(active) /\ image' = [image EXCEPT ![target'] = "partial"]
          BY <3>1 DEF StageImage, ReadActive
        <4>2. toggle(active) \in Partitions \ {active}
          BY DEF toggle, Partitions
        <4> QED
          BY <4>1, <4>2 DEF Images
      <3>2. CASE WriteImage
        <4>1. image' = [image EXCEPT ![target] = file] \/ image' = image
          BY <3>2 DEF WriteImage
        <4>2. target \in Partitions \ {active} /\ file \in Images
          BY <1>1, <3>2 DEF WriteImage, IInv, TargetNotActive, TypeOK, Files, Images
        <4> QED
          BY <4>1, <4>2
      <3> QED
        BY <1>5, <3>1, <3>2
    <2>2. UNCHANGED <<active, machine, running>> /\ machine = "up"
      BY <1>1, <1>5 DEF StageImage, WriteImage, env, TypeOK
    <2>3. running # None
      BY <1>1 DEF TypeOK
    <2> QED
      BY <2>1, <2>2, <2>3 DEF Ab!AbNext, Ab!Writes, Ab!abVars
  <1>6. CASE \/ CommitClears \/ CommitCounts \/ BeginUpdate \/ RollbackUpdate \/ PauseServices
             \/ DownloadImage \/ VerifyImage \/ StagePartition \/ StageCounts
             \/ RebootFails \/ ResumeServices \/ StopsLate \/ UNCHANGED vars
    <2>1. UNCHANGED <<active, image, machine, running>>
      BY <1>6 DEF CommitClears, CommitCounts, BeginUpdate, RollbackUpdate, PauseServices,
                  DownloadImage, VerifyImage, StagePartition, StageCounts, RebootFails,
                  ResumeServices, StopsLate, env, vars
    <2> QED
      BY <2>1, AbQuietStep DEF Up
  <1> QED
    BY <1>2, <1>3, <1>4, <1>5, <1>6 DEF Next, ManagerStep

\* With an environment that can be read, updates are what AbPartitions allows:
\* whatever fails and wherever power is lost, the partition to fall back to is
\* never written to, and it changes only to one the device has come up from.
THEOREM AbIsImplemented ==
  ASSUME EnvReadable = TRUE
  PROVE  Spec => ImplementsAb
  BY AbStarts, AbStep, InvariantCorrect, PTL DEF Spec, ImplementsAb, Ab!AbSpec
=============================================================================
