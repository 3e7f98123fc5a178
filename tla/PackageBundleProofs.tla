------------------------ MODULE PackageBundleProofs ------------------------
(***************************************************************************)
(* Proof of StagesMatchFiles for the bundle mode, for every value of the   *)
(* constants.  Four writers share the stored status there: the pass, its   *)
(* reporter goroutine, the orphaned reporters of earlier passes and a      *)
(* clear.  Each of them writes a whole status that some pass built, so     *)
(* every status in flight must already be backed by the files on disk.     *)
(***************************************************************************)
EXTENDS PackageBundle, PackageReconcilerProofs

\* The steps of a pass at which its reporter may still be running.
RepPcs == {"Downloading", "DownloadRetry", "DownloadDone", "Untarring", "UntarDone",
           "FailCondition"}

(***************************************************************************)
(* The shapes the proof needs: every status a writer holds has its five    *)
(* conditions, and the reporters' inputs are those the code computes.      *)
(***************************************************************************)
BType ==
    /\ cluster \in ClusterType
    /\ stored \in PackageStatus
    /\ pc \in BundlePcs
    /\ mem \in PackageStatus
    /\ pc # "Idle" => CondsFn(mem)
    /\ todo \subseteq Images
    /\ cur \in Images \cup {NoImage}
    /\ failStage \in Stages
    /\ percent \in {0, 50, 100}
    /\ unpacked \subseteq Images
    /\ rep \in Reporter \cup {NoReporter}
    /\ orphans \subseteq Orphan
    /\ \A o \in orphans : CondsFn(o.pkg)

(***************************************************************************)
(* A status is backed by the files when each of its two file stages that  *)
(* is Completed has its file on disk: the bundle passes its MD5 check, and *)
(* every image file is in pkgDst.  Both facts only grow: nothing removes   *)
(* the bundle or the extracted files.                                      *)
(***************************************************************************)
BackedBy(st, ok, files) ==
    HasConditions(st) =>
        /\ Status(st, "DownloadPackage") = "Completed" => ok
        /\ Status(st, "UnpackPackage") = "Completed" => files = Images

Backed(st) == BackedBy(st, bundleOk, unpacked)

\* Every status a writer holds is backed, outside the full-online mode.
\* A pass completes a file stage only after its file is there, and a
\* reporter runs only while its pass runs.
BackInv ==
    /\ BType
    /\ ~cluster.fullOnline => Backed(stored)
    /\ pc # "Idle" => ~cluster.fullOnline /\ Backed(mem)
    /\ ~cluster.fullOnline => \A o \in orphans : Backed(o.pkg)
    /\ pc = "DownloadDone" => bundleOk
    /\ pc = "UntarDone" => unpacked = Images
    /\ pc \in {"HandleImage", "UpdateProgress"} => Status(mem, "UnpackPackage") = "Completed"
    /\ rep # NoReporter => pc \in RepPcs
    /\ pc \in {"Downloading", "DownloadRetry", "Untarring"} => rep \in Reporter /\ ~rep.stopped

(***************************************************************************)
(* Lemmas.                                                                 *)
(***************************************************************************)

\* u claims no file stage that st does not claim.
ClaimsNoMoreFiles(u, st) ==
    /\ HasConditions(u) => HasConditions(st)
    /\ Status(u, "DownloadPackage") = "Completed" => Status(st, "DownloadPackage") = "Completed"
    /\ Status(u, "UnpackPackage") = "Completed" => Status(st, "UnpackPackage") = "Completed"

\* A status that claims no more file stages than a backed one is backed, and
\* stays backed while the files only grow.
LEMMA BackedKeep ==
    ASSUME NEW st, NEW u, NEW ok, NEW ok2, NEW files, NEW files2,
           BackedBy(st, ok, files), ClaimsNoMoreFiles(u, st),
           ok => ok2, files = Images => files2 = Images
    PROVE  BackedBy(u, ok2, files2)
BY DEF BackedBy, ClaimsNoMoreFiles

\* updateConditionStatus claims no file stage unless it completes one.
LEMMA UpdateClaimsNoMoreFiles ==
    ASSUME NEW st \in PackageStatus, CondsFn(st), NEW typ \in Stages, NEW s \in Statuses,
           typ \in {"DownloadPackage", "UnpackPackage"} => s # "Completed"
    PROVE  ClaimsNoMoreFiles(updateConditionStatus(st, typ, s), st)
BY UpdateConditionStatusEffect, CondsFnHasConditions DEF ClaimsNoMoreFiles, Stages

\* updateConditionProgress changes no status.
LEMMA ProgressEffect ==
    ASSUME NEW st \in PackageStatus, CondsFn(st), NEW typ \in Stages, NEW p
    PROVE  LET u == updateConditionProgress(st, typ, p)
           IN  /\ \A t \in Stages : Status(u, t) = Status(st, t)
               /\ ClaimsNoMoreFiles(u, st)
<1>1. \A t \in Stages : Status(updateConditionProgress(st, typ, p), t) = Status(st, t)
  BY DEF updateConditionProgress, Status, CondsFn
<1>2. QED
  BY <1>1, CondsFnHasConditions DEF ClaimsNoMoreFiles, Stages

\* A reporter's progress is a natural number.
LEMMA ReportedProgressNat ==
    ASSUME NEW s, NEW p \in {0, 50, 100}, unpacked \subseteq Images
    PROVE  ReportedProgress(s, p) \in Nat
<1>1. realProgress(p) \in Nat
  BY DEF realProgress
<1>2. countImages \in Nat
  BY ImagesAssumption, FS_Subset, FS_CardinalityType DEF countImages
<1>3. unpackProgress \in Nat
  BY <1>2 DEF unpackProgress, TotalImageNum
<1>4. QED
  BY <1>1, <1>3 DEF ReportedProgress

\* Stopping a running reporter keeps it a reporter.
LEMMA StopType ==
    ASSUME NEW r \in Reporter
    PROVE  [r EXCEPT !.stopped = TRUE] \in Reporter
BY Zenon DEF Reporter, ReporterStages

\* Detach keeps the shapes of the reporters.
LEMMA DetachType ==
    ASSUME NEW STATE final, final \in PackageStatus, CondsFn(final),
           rep \in Reporter \cup {NoReporter}, percent \in {0, 50, 100},
           orphans \subseteq Orphan, \A o \in orphans : CondsFn(o.pkg),
           Detach(final)
    PROVE  /\ rep' \in Reporter \cup {NoReporter}
           /\ orphans' \subseteq Orphan
           /\ \A o \in orphans' : CondsFn(o.pkg)
<1>1. CASE rep = NoReporter
  BY <1>1 DEF Detach
<1>2. CASE rep # NoReporter
  <2> DEFINE o1 == [stage |-> rep.stage, stopped |-> rep.stopped, pkg |-> final, pct |-> percent]
  <2>1. o1 \in Orphan /\ CondsFn(o1.pkg)
    BY <1>2 DEF Reporter, Orphan
  <2>2. orphans' = orphans \cup {o1} /\ rep' = NoReporter
    BY <1>2 DEF Detach
  <2>3. QED
    BY <2>1, <2>2
<1>3. QED
  BY <1>1, <1>2

\* A reporter tick of an orphan replaces its copy and nothing else.
LEMMA OrphanUpdate ==
    ASSUME NEW o \in Orphan, NEW m \in PackageStatus
    PROVE  /\ [o EXCEPT !.pkg = m] \in Orphan
           /\ [o EXCEPT !.pkg = m].pkg = m
BY Zenon DEF Orphan

(***************************************************************************)
(* The shapes.                                                             *)
(***************************************************************************)

\* Every step keeps the shapes, given the facts of BackInv: a reporter that
\* is stopped is one of its pass, and the push loop divides by the number
\* of extracted files, which is then the number of images.
LEMMA BTypeStep == BackInv /\ [BNext]_allVars => BType'
<1> SUFFICES ASSUME BackInv, [BNext]_allVars PROVE BType'
  OBVIOUS
<1>0. BType
  BY DEF BackInv
<1> USE <1>0 DEF BType, bvars
<1>1. CASE Reconcile /\ UNCHANGED bvars
  <2>1. stored' \in PackageStatus
    BY <1>1, InitPackageStatusType DEF Reconcile, StartHandle, WriteOk, WriteFails, Statuses
  <2>2. pc' \in {"Idle", "SetInitStatus"}
    BY <1>1 DEF Reconcile, StartHandle, passVars
  <2>3. pc' # "Idle" => mem' = stored /\ HasConditions(stored)
    BY <1>1 DEF Reconcile, StartHandle, passVars
  <2>4. HasConditions(stored) => CondsFn(stored)
    BY DEF HasConditions, PackageStatus, CondsFn
  <2>5. mem' = mem \/ mem' = stored
    BY <1>1 DEF Reconcile, StartHandle, passVars
  <2>6. UNCHANGED <<cluster, todo, cur, failStage>>
    BY <1>1 DEF Reconcile, StartHandle, passVars, envVars
  <2>7. QED
    BY <1>1, <2>1, <2>2, <2>3, <2>4, <2>5, <2>6 DEF BundlePcs, PassPcs
<1>2. CASE SetInitStatus /\ UNCHANGED bvars
  <2>1. CondsFn(mem)
    BY <1>2 DEF SetInitStatus
  <2>2. /\ [mem EXCEPT !.conds["Init"].status = "Completed"] \in PackageStatus
        /\ CondsFn([mem EXCEPT !.conds["Init"].status = "Completed"])
    BY <2>1, InitCompletedType
  <2>3. mem' \in PackageStatus /\ CondsFn(mem') /\ stored' \in PackageStatus
    BY <1>2, <2>1, <2>2 DEF SetInitStatus, WriteOk, WriteFails
  <2>4. pc' \in {"CanDownload", "FailCondition"} /\ failStage' \in Stages
    BY <1>2 DEF SetInitStatus, WriteOk, WriteFails, Stages
  <2>5. UNCHANGED <<cluster, todo, cur>>
    BY <1>2 DEF SetInitStatus, envVars
  <2>6. QED
    BY <1>2, <2>3, <2>4, <2>5 DEF BundlePcs, PassPcs
<1>3. CASE UpdateProgress /\ UNCHANGED bvars
  <2>1. CondsFn(mem) /\ stored' \in PackageStatus
    BY <1>3 DEF UpdateProgress, WriteOk, WriteFails
  <2>2. pc' \in {"HandleImage", "FailCondition"} /\ failStage' \in Stages
    BY <1>3 DEF UpdateProgress, WriteOk, WriteFails, Stages
  <2>3. UNCHANGED <<cluster, mem, todo, cur>>
    BY <1>3 DEF UpdateProgress, envVars
  <2>4. QED
    BY <1>3, <2>1, <2>2, <2>3 DEF BundlePcs, PassPcs
<1>4. CASE PushImageCompleted /\ UNCHANGED bvars
  <2>1. CondsFn(mem)
    BY <1>4 DEF PushImageCompleted
  <2>2. updateConditionStatus(mem, "PushImage", "Completed") \in PackageStatus
    BY <2>1, UpdateConditionStatusType DEF Stages, Statuses
  <2>3. /\ stored' \in PackageStatus /\ mem' = EmptyStatus /\ pc' = "Idle"
        /\ todo' = {} /\ cur' = NoImage /\ failStage' = "Init"
    BY <1>4, <2>2 DEF PushImageCompleted, EndPass, WriteOk, WriteFails
  <2>4. UNCHANGED cluster
    BY <1>4 DEF PushImageCompleted, envVars
  <2>5. QED
    BY <1>4, <2>3, <2>4, EmptyStatusType DEF BundlePcs, PassPcs, Stages
<1>5. CASE BCanDownload
  <2>1. CondsFn(mem)
    BY <1>5 DEF BCanDownload
  <2>2. /\ updateConditionStatus(mem, "DownloadPackage", "Running") \in PackageStatus
        /\ CondsFn(updateConditionStatus(mem, "DownloadPackage", "Running"))
    BY <2>1, UpdateConditionStatusType DEF Stages, Statuses
  <2>3. mem' \in PackageStatus /\ CondsFn(mem') /\ stored' \in PackageStatus
    BY <1>5, <2>1, <2>2 DEF BCanDownload, WriteOk, WriteFails
  <2>4. pc' \in {"Download", "CanUnpack"}
    BY <1>5 DEF BCanDownload
  <2>5. UNCHANGED <<cluster, todo, cur, failStage, percent, unpacked, rep, orphans>>
    BY <1>5 DEF BCanDownload, envVars
  <2>6. QED
    BY <2>3, <2>4, <2>5 DEF BundlePcs, PassPcs
<1>6. CASE StartDownload
  <2>1. /\ rep' = rep \/ rep' = [stage |-> "DownloadPackage", stopped |-> FALSE]
        /\ percent' = percent \/ percent' = 0
        /\ pc' \in {"DownloadDone", "Downloading"} /\ pc = "Download"
    BY <1>6 DEF StartDownload
  <2>2. [stage |-> "DownloadPackage", stopped |-> FALSE] \in Reporter
    BY DEF Reporter, ReporterStages
  <2>3. UNCHANGED <<cluster, stored, mem, todo, cur, failStage, unpacked, orphans>>
    BY <1>6 DEF StartDownload, nonPc
  <2>0. rep \in Reporter \cup {NoReporter}
    BY <1>0 DEF BType
  <2>4. rep' \in Reporter \cup {NoReporter}
    <3>1. CASE rep' = rep
      BY <2>0, <3>1
    <3>2. CASE rep' = [stage |-> "DownloadPackage", stopped |-> FALSE]
      BY <2>2, <3>2
    <3>3. QED
      BY <2>1, <3>1, <3>2
  <2>7. percent' \in {0, 50, 100}
    BY <2>1
  <2>5. pc' \in BundlePcs /\ pc' # "Idle" /\ CondsFn(mem)
    BY <2>1 DEF BundlePcs
  <2>6. QED
    BY <2>3, <2>4, <2>5, <2>7
<1>7. CASE DownloadProgress
  <2>1. percent' \in {0, 50, 100}
    BY <1>7 DEF DownloadProgress, PercentStep
  <2>2. UNCHANGED <<cluster, stored, pc, mem, todo, cur, failStage, unpacked, rep, orphans>>
    BY <1>7 DEF DownloadProgress, vars
  <2>3. QED
    BY <2>1, <2>2
<1>8. CASE DownloadFails
  <2>1. stored' \in PackageStatus
    BY <1>8 DEF DownloadFails
  <2>2. pc' \in {"DownloadRetry", "FailCondition"} /\ failStage' \in Stages
    BY <1>8 DEF DownloadFails, Stages
  <2>3. UNCHANGED <<cluster, mem, todo, cur, percent, unpacked, rep, orphans>>
    BY <1>8 DEF DownloadFails, envVars
  <2>4. CondsFn(mem)
    BY <1>8 DEF DownloadFails
  <2>5. QED
    BY <2>1, <2>2, <2>3, <2>4 DEF BundlePcs, PassPcs
<1>9. CASE DownloadSucceeds
  <2>1. rep \in Reporter
    BY <1>9 DEF DownloadSucceeds, BackInv
  <2>2. rep' \in Reporter
    BY <1>9, <2>1, StopType DEF DownloadSucceeds
  <2>3. pc' = "DownloadDone" /\ CondsFn(mem)
    BY <1>9 DEF DownloadSucceeds
  <2>4. UNCHANGED <<cluster, stored, mem, todo, cur, failStage, percent, unpacked, orphans>>
    BY <1>9 DEF DownloadSucceeds, nonPc
  <2>5. QED
    BY <2>2, <2>3, <2>4 DEF BundlePcs, PassPcs
<1>10. CASE DownloadDone
  <2> DEFINE m1 == updateConditionStatus(mem, "DownloadPackage", "Completed")
  <2>1. CondsFn(mem)
    BY <1>10 DEF DownloadDone
  <2>2. m1 \in PackageStatus /\ CondsFn(m1)
    BY <2>1, UpdateConditionStatusType DEF Stages, Statuses
  <2>3. stored' \in PackageStatus /\ Detach(m1)
    BY <1>10, <2>2 DEF DownloadDone, WriteOk, WriteFails
  <2>4. rep' \in Reporter \cup {NoReporter} /\ orphans' \subseteq Orphan
        /\ \A o \in orphans' : CondsFn(o.pkg)
    BY <2>2, <2>3, DetachType
  <2>5. /\ mem' = EmptyStatus /\ pc' = "Idle" /\ todo' = {} /\ cur' = NoImage
        /\ failStage' = "Init"
    BY <1>10 DEF DownloadDone, EndPass
  <2>6. UNCHANGED <<cluster, percent, unpacked>>
    BY <1>10 DEF DownloadDone, envVars
  <2>7. QED
    BY <2>3, <2>4, <2>5, <2>6, EmptyStatusType DEF BundlePcs, PassPcs, Stages
<1>11. CASE BCanUnpack
  <2>1. CondsFn(mem)
    BY <1>11 DEF BCanUnpack
  <2>2. /\ updateConditionStatus(mem, "UnpackPackage", "Running") \in PackageStatus
        /\ CondsFn(updateConditionStatus(mem, "UnpackPackage", "Running"))
    BY <2>1, UpdateConditionStatusType DEF Stages, Statuses
  <2>3. mem' \in PackageStatus /\ CondsFn(mem') /\ stored' \in PackageStatus
    BY <1>11, <2>1, <2>2 DEF BCanUnpack, WriteOk, WriteFails
  <2>4. pc' \in {"Untar", "CanPushImage"}
    BY <1>11 DEF BCanUnpack
  <2>5. UNCHANGED <<cluster, todo, cur, failStage, percent, unpacked, rep, orphans>>
    BY <1>11 DEF BCanUnpack, envVars
  <2>6. QED
    BY <2>3, <2>4, <2>5 DEF BundlePcs, PassPcs
<1>12. CASE StartUntar
  <2>1. rep' = [stage |-> "UnpackPackage", stopped |-> FALSE] /\ pc' = "Untarring"
        /\ pc = "Untar"
    BY <1>12 DEF StartUntar
  <2>2. [stage |-> "UnpackPackage", stopped |-> FALSE] \in Reporter
    BY DEF Reporter, ReporterStages
  <2>3. UNCHANGED <<cluster, stored, mem, todo, cur, failStage, percent, unpacked, orphans>>
    BY <1>12 DEF StartUntar, nonPc
  <2>4. QED
    BY <2>1, <2>2, <2>3 DEF BundlePcs
<1>13. CASE UntarFile
  <2>1. unpacked' \subseteq Images
    BY <1>13 DEF UntarFile
  <2>2. UNCHANGED <<cluster, stored, pc, mem, todo, cur, failStage, percent, rep, orphans>>
    BY <1>13 DEF UntarFile, vars
  <2>3. QED
    BY <2>1, <2>2
<1>14. CASE UntarFails
  <2>1. pc' = "FailCondition" /\ failStage' = "UnpackPackage" /\ pc # "Idle"
    BY <1>14 DEF UntarFails
  <2>2. UNCHANGED <<cluster, stored, mem, todo, cur, percent, unpacked, rep, orphans>>
    BY <1>14 DEF UntarFails
  <2>3. QED
    BY <2>1, <2>2 DEF BundlePcs, PassPcs, Stages
<1>15. CASE UntarSucceeds
  <2>1. rep \in Reporter
    BY <1>15 DEF UntarSucceeds, BackInv
  <2>2. rep' \in Reporter
    BY <1>15, <2>1, StopType DEF UntarSucceeds
  <2>3. pc' = "UntarDone" /\ CondsFn(mem)
    BY <1>15 DEF UntarSucceeds
  <2>4. UNCHANGED <<cluster, stored, mem, todo, cur, failStage, percent, unpacked, orphans>>
    BY <1>15 DEF UntarSucceeds, nonPc
  <2>5. QED
    BY <2>2, <2>3, <2>4 DEF BundlePcs
<1>16. CASE UntarDone
  <2> DEFINE m1 == updateConditionStatus(mem, "UnpackPackage", "Completed")
  <2>1. CondsFn(mem)
    BY <1>16 DEF UntarDone
  <2>2. m1 \in PackageStatus /\ CondsFn(m1)
    BY <2>1, UpdateConditionStatusType DEF Stages, Statuses
  <2>3. stored' \in PackageStatus /\ Detach(m1)
    BY <1>16, <2>2 DEF UntarDone, WriteOk, WriteFails
  <2>4. rep' \in Reporter \cup {NoReporter} /\ orphans' \subseteq Orphan
        /\ \A o \in orphans' : CondsFn(o.pkg)
    BY <2>2, <2>3, DetachType
  <2>5. /\ mem' = EmptyStatus /\ pc' = "Idle" /\ todo' = {} /\ cur' = NoImage
        /\ failStage' = "Init"
    BY <1>16 DEF UntarDone, EndPass
  <2>6. UNCHANGED <<cluster, percent, unpacked>>
    BY <1>16 DEF UntarDone, envVars
  <2>7. QED
    BY <2>3, <2>4, <2>5, <2>6, EmptyStatusType DEF BundlePcs, PassPcs, Stages
<1>17. CASE StartLoadPush
  <2>1. CondsFn(mem)
    BY <1>17 DEF StartLoadPush
  <2>2. mem' \in PackageStatus /\ CondsFn(mem')
    BY <1>17, <2>1, PushedResetType DEF StartLoadPush
  <2>3. pc' = "HandleImage" /\ todo' = unpacked /\ cur' = NoImage
    BY <1>17 DEF StartLoadPush
  <2>4. UNCHANGED <<cluster, stored, failStage, percent, unpacked, rep, orphans>>
    BY <1>17 DEF StartLoadPush, envVars
  <2>5. QED
    BY <2>2, <2>3, <2>4 DEF BundlePcs, PassPcs
<1>18. CASE BCanReady
  <2>1. CondsFn(mem) /\ ~canPushImage(mem)
    BY <1>18 DEF BCanReady, CanPushImage
  <2>2. updateConditionStatus(mem, "Ready", "Completed") \in PackageStatus
    BY <2>1, UpdateConditionStatusType DEF Stages, Statuses
  <2>3. /\ stored' \in PackageStatus /\ mem' = EmptyStatus /\ pc' = "Idle"
        /\ todo' = {} /\ cur' = NoImage /\ failStage' = "Init"
    BY <1>18, <2>1, <2>2 DEF BCanReady, CanPushImage, WriteOk, WriteFails, EndPass
  <2>4. UNCHANGED <<cluster, percent, unpacked, rep, orphans>>
    BY <1>18 DEF BCanReady, CanPushImage, envVars
  <2>5. QED
    BY <2>3, <2>4, EmptyStatusType DEF BundlePcs, PassPcs, Stages
<1>19. CASE LoadImage
  <2>1. PICK img \in (IF cur = NoImage THEN todo ELSE {cur}) :
               ImageLoadedPushed(img) \/ ImageAttemptFails(img)
    BY <1>19 DEF LoadImage
  <2>2. img \in Images
    BY <2>1
  <2>3. CondsFn(mem) /\ pc = "HandleImage"
    BY <1>19 DEF LoadImage
  <2>4. UNCHANGED <<cluster, stored, percent, unpacked, rep, orphans>>
    BY <1>19 DEF LoadImage
  <2>5. CASE ImageLoadedPushed(img)
    <3>1. unpacked = Images
      BY <2>3, CondsFnHasConditions DEF BackInv, Backed, BackedBy
    <3>2. countImages = ImagesNumber
      BY <3>1 DEF countImages, ImagesNumber
    <3>3. mem' \in PackageStatus /\ CondsFn(mem')
      BY <2>2, <2>3, <2>5, <3>2, PushedAppendType DEF ImageLoadedPushed
    <3>4. pc' \in {"UpdateProgress", "HandleImage"} /\ todo' \subseteq Images
          /\ cur' = NoImage /\ failStage' = failStage
      BY <2>5 DEF ImageLoadedPushed
    <3>5. QED
      BY <2>4, <3>3, <3>4 DEF BundlePcs, PassPcs
  <2>6. CASE ImageAttemptFails(img)
    <3>1. /\ pc' \in {"HandleImage", "FailCondition"} /\ failStage' \in Stages
          /\ cur' \in Images \cup {NoImage} /\ mem' = mem /\ todo' = todo
      BY <2>2, <2>3, <2>6 DEF ImageAttemptFails, Stages
    <3>2. QED
      BY <2>3, <2>4, <3>1 DEF BundlePcs, PassPcs
  <2>7. QED
    BY <2>1, <2>5, <2>6
<1>20. CASE BFailCondition
  <2> DEFINE m1 == updateConditionStatus(mem, failStage, "Failed")
  <2>1. CondsFn(mem)
    BY <1>20 DEF BFailCondition, FailCondition
  <2>2. m1 \in PackageStatus /\ CondsFn(m1)
    BY <2>1, UpdateConditionStatusType DEF Statuses
  <2>3. stored' \in PackageStatus /\ Detach(m1)
    BY <1>20, <2>2 DEF BFailCondition, FailCondition, WriteOk, WriteFails
  <2>4. rep' \in Reporter \cup {NoReporter} /\ orphans' \subseteq Orphan
        /\ \A o \in orphans' : CondsFn(o.pkg)
    BY <2>2, <2>3, DetachType
  <2>5. /\ mem' = EmptyStatus /\ pc' = "Idle" /\ todo' = {} /\ cur' = NoImage
        /\ failStage' = "Init"
    BY <1>20 DEF BFailCondition, FailCondition, EndPass
  <2>6. UNCHANGED <<cluster, percent, unpacked>>
    BY <1>20 DEF BFailCondition, FailCondition, envVars
  <2>7. QED
    BY <2>3, <2>4, <2>5, <2>6, EmptyStatusType DEF BundlePcs, PassPcs, Stages
<1>21. CASE ReporterTick
  <2> DEFINE m1 == updateConditionProgress(mem, rep.stage, ReportedProgress(rep.stage, percent))
  <2>1. rep \in Reporter /\ pc \in RepPcs
    BY <1>21 DEF ReporterTick, BackInv
  <2>2. CondsFn(mem) /\ rep.stage \in Stages
    BY <2>1 DEF RepPcs, Reporter, ReporterStages, Stages
  <2>3. ReportedProgress(rep.stage, percent) \in Nat
    BY ReportedProgressNat
  <2>4. m1 \in PackageStatus /\ CondsFn(m1)
    BY <2>2, <2>3, UpdateConditionProgressType
  <2>5. mem' = m1 /\ stored' \in PackageStatus
    BY <1>21, <2>4 DEF ReporterTick, WriteOk, WriteFails
  <2>6. UNCHANGED <<cluster, pc, todo, cur, failStage, percent, unpacked, rep, orphans>>
    BY <1>21 DEF ReporterTick, envVars
  <2>7. QED
    BY <2>4, <2>5, <2>6
<1>22. CASE ReporterExit
  BY <1>22 DEF ReporterExit, vars
<1>23. CASE OrphanTick
  <2>1. PICK o \in orphans :
          LET m1 == updateConditionProgress(o.pkg, o.stage, ReportedProgress(o.stage, o.pct)) IN
          /\ WriteOk(m1, queued) \/ WriteFails(queued)
          /\ orphans' = (orphans \ {o}) \cup {[o EXCEPT !.pkg = m1]}
          /\ UNCHANGED <<envVars, passVars, crashes, resets, outages, bundleOk, percent,
                         unpacked, rep>>
    BY <1>23 DEF OrphanTick
  <2> DEFINE m1 == updateConditionProgress(o.pkg, o.stage, ReportedProgress(o.stage, o.pct))
  <2>2. o \in Orphan /\ CondsFn(o.pkg)
    OBVIOUS
  <2>3. o.pkg \in PackageStatus /\ o.stage \in Stages /\ o.pct \in {0, 50, 100}
    BY <2>2 DEF Orphan, ReporterStages, Stages
  <2>4. ReportedProgress(o.stage, o.pct) \in Nat
    BY <2>3, ReportedProgressNat
  <2>5. m1 \in PackageStatus /\ CondsFn(m1)
    BY <2>2, <2>3, <2>4, UpdateConditionProgressType
  <2>6. [o EXCEPT !.pkg = m1] \in Orphan /\ [o EXCEPT !.pkg = m1].pkg = m1
    BY <2>2, <2>5, OrphanUpdate
  <2>7. orphans' \subseteq Orphan /\ \A x \in orphans' : CondsFn(x.pkg)
    BY <2>1, <2>5, <2>6
  <2>8. stored' \in PackageStatus
    BY <2>1, <2>5 DEF WriteOk, WriteFails
  <2>9. QED
    BY <2>1, <2>7, <2>8 DEF envVars, passVars
<1>24. CASE OrphanExit
  BY <1>24 DEF OrphanExit, vars
<1>25. CASE BCrash
  BY <1>25, EmptyStatusType DEF BCrash, Crash, EndPass, envVars, BundlePcs, PassPcs, Stages
<1>26. CASE (ClearStatus \/ CompleteClusterConfig \/ ImageRepositoryUp) /\ UNCHANGED bvars
  <2>1. cluster' \in ClusterType
    BY <1>26, ClusterExceptType DEF ClearStatus, CompleteClusterConfig, ImageRepositoryUp, envVars
  <2>2. stored' \in PackageStatus
    BY <1>26, EmptyStatusType DEF ClearStatus, CompleteClusterConfig, ImageRepositoryUp
  <2>3. UNCHANGED <<pc, mem, todo, cur, failStage>>
    BY <1>26 DEF ClearStatus, CompleteClusterConfig, ImageRepositoryUp, passVars
  <2>4. QED
    BY <1>26, <2>1, <2>2, <2>3
<1>27. CASE UNCHANGED allVars
  BY <1>27 DEF allVars, vars
<1>28. QED
  BY <1>1, <1>2, <1>3, <1>4, <1>5, <1>6, <1>7, <1>8, <1>9, <1>10, <1>11, <1>12,
     <1>13, <1>14, <1>15, <1>16, <1>17, <1>18, <1>19, <1>20, <1>21, <1>22, <1>23,
     <1>24, <1>25, <1>26, <1>27
  DEF BNext, BPassStep, Reporters, BEnvironment

(***************************************************************************)
(* What every step keeps: the files only grow and the mode never changes.  *)
(***************************************************************************)
Grows ==
    /\ bundleOk => bundleOk'
    /\ unpacked \subseteq unpacked'
    /\ cluster'.fullOnline = cluster.fullOnline

LEMMA BGrow ==
    ASSUME BType, [BNext]_allVars
    PROVE  Grows
<1> USE DEF Grows
<1>1. CASE Reconcile /\ UNCHANGED bvars
  BY <1>1, Zenon DEF Reconcile, StartHandle, envVars, nonPc, vars, bvars
<1>2. CASE SetInitStatus /\ UNCHANGED bvars
  BY <1>2, Zenon DEF SetInitStatus, envVars, nonPc, vars, bvars
<1>3. CASE UpdateProgress /\ UNCHANGED bvars
  BY <1>3, Zenon DEF UpdateProgress, envVars, nonPc, vars, bvars
<1>4. CASE PushImageCompleted /\ UNCHANGED bvars
  BY <1>4, Zenon DEF PushImageCompleted, envVars, nonPc, vars, bvars
<1>5. CASE BCanDownload
  BY <1>5, Zenon DEF BCanDownload, envVars, nonPc, vars, bvars
<1>6. CASE StartDownload
  BY <1>6, Zenon DEF StartDownload, envVars, nonPc, vars, bvars
<1>7. CASE DownloadProgress
  BY <1>7, Zenon DEF DownloadProgress, envVars, nonPc, vars, bvars
<1>8. CASE DownloadFails
  BY <1>8, Zenon DEF DownloadFails, envVars, nonPc, vars, bvars
<1>9. CASE DownloadSucceeds
  BY <1>9, Zenon DEF DownloadSucceeds, envVars, nonPc, vars, bvars
<1>10. CASE DownloadDone
  BY <1>10, Zenon DEF DownloadDone, envVars, nonPc, vars, bvars
<1>11. CASE BCanUnpack
  BY <1>11, Zenon DEF BCanUnpack, envVars, nonPc, vars, bvars
<1>12. CASE StartUntar
  BY <1>12, Zenon DEF StartUntar, envVars, nonPc, vars, bvars
<1>13. CASE UntarFile
  BY <1>13, Zenon DEF UntarFile, envVars, nonPc, vars, bvars
<1>14. CASE UntarFails
  BY <1>14, Zenon DEF UntarFails, envVars, nonPc, vars, bvars
<1>15. CASE UntarSucceeds
  BY <1>15, Zenon DEF UntarSucceeds, envVars, nonPc, vars, bvars
<1>16. CASE UntarDone
  BY <1>16, Zenon DEF UntarDone, envVars, nonPc, vars, bvars
<1>17. CASE StartLoadPush
  BY <1>17, Zenon DEF StartLoadPush, envVars, nonPc, vars, bvars
<1>18. CASE BCanReady
  BY <1>18 DEF BCanReady, CanPushImage, envVars, nonPc, vars, bvars
<1>19. CASE LoadImage
  BY <1>19 DEF LoadImage, envVars, nonPc, vars, bvars
<1>20. CASE BFailCondition
  BY <1>20 DEF BFailCondition, FailCondition, envVars, nonPc, vars, bvars
<1>21. CASE ReporterTick
  BY <1>21 DEF ReporterTick, envVars, nonPc, vars, bvars
<1>22. CASE ReporterExit
  BY <1>22, Zenon DEF ReporterExit, envVars, nonPc, vars, bvars
<1>23. CASE OrphanTick
  BY <1>23 DEF OrphanTick, envVars, nonPc, vars, bvars
<1>24. CASE OrphanExit
  BY <1>24 DEF OrphanExit, envVars, nonPc, vars, bvars
<1>25. CASE BCrash
  BY <1>25, Zenon DEF BCrash, Crash, envVars, nonPc, vars, bvars
<1>26. CASE ClearStatus /\ UNCHANGED bvars
  BY <1>26, Zenon DEF ClearStatus, envVars, nonPc, vars, bvars
<1>27. CASE (CompleteClusterConfig \/ ImageRepositoryUp) /\ UNCHANGED bvars
  BY <1>27, ClusterExceptFullOnline DEF CompleteClusterConfig, ImageRepositoryUp, BType, bvars
<1>28. CASE UNCHANGED allVars
  BY <1>28 DEF allVars, vars, bvars
<1>29. QED
  BY <1>1, <1>2, <1>3, <1>4, <1>5, <1>6, <1>7, <1>8, <1>9, <1>10, <1>11, <1>12, <1>13, <1>14, <1>15, <1>16, <1>17, <1>18, <1>19, <1>20, <1>21, <1>22, <1>23, <1>24, <1>25, <1>26, <1>27, <1>28
  DEF BNext, BPassStep, Reporters, BEnvironment

\* Emptying ImagesPushed, as imagesLoadAndPush does, changes no status.
LEMMA PushedResetEffect ==
    ASSUME NEW st \in PackageStatus
    PROVE  LET u == [st EXCEPT !.pushed = <<>>]
           IN  /\ \A t \in Stages : Status(u, t) = Status(st, t)
               /\ ClaimsNoMoreFiles(u, st)
BY DEF ClaimsNoMoreFiles, HasConditions, Status, PackageStatus

(***************************************************************************)
(* The part of BackInv about the pass's position and its reporter.         *)
(***************************************************************************)
Ctrl ==
    /\ pc # "Idle" => ~cluster.fullOnline
    /\ pc = "DownloadDone" => bundleOk
    /\ pc = "UntarDone" => unpacked = Images
    /\ pc \in {"HandleImage", "UpdateProgress"} => Status(mem, "UnpackPackage") = "Completed"
    /\ rep # NoReporter => pc \in RepPcs
    /\ pc \in {"Downloading", "DownloadRetry", "Untarring"} => rep \in Reporter /\ ~rep.stopped

LEMMA CtrlStep == BackInv /\ [BNext]_allVars => Ctrl'
<1> SUFFICES ASSUME BackInv, [BNext]_allVars PROVE Ctrl'
  OBVIOUS
<1>0. Grows /\ Ctrl
  BY BGrow DEF BackInv, Ctrl
<1>a. pc # "Idle" => ~cluster'.fullOnline
  BY <1>0 DEF BackInv, Grows
<1> USE <1>0, <1>a DEF Ctrl, RepPcs
<1>1. CASE Reconcile /\ UNCHANGED bvars
  <2>1. pc' # "Idle" => ~cluster.fullOnline /\ pc' = "SetInitStatus"
    BY <1>1 DEF Reconcile, StartHandle, passVars
  <2>2. rep = NoReporter /\ pc = "Idle"
    BY <1>1 DEF Reconcile
  <2>3. QED
    BY <1>1, <2>1, <2>2 DEF bvars, Grows
<1>2. CASE SetInitStatus /\ UNCHANGED bvars
  <2>1. pc' \in {"CanDownload", "FailCondition"} /\ pc = "SetInitStatus"
    BY <1>2 DEF SetInitStatus, WriteOk, WriteFails
  <2>2. QED
    BY <1>2, <2>1 DEF bvars
<1>3. CASE UpdateProgress /\ UNCHANGED bvars
  <2>1. pc' \in {"HandleImage", "FailCondition"} /\ pc = "UpdateProgress" /\ mem' = mem
    BY <1>3 DEF UpdateProgress, WriteOk, WriteFails
  <2>2. QED
    BY <1>3, <2>1 DEF bvars
<1>4. CASE PushImageCompleted /\ UNCHANGED bvars
  <2>1. pc' = "Idle" /\ pc = "HandleImage"
    BY <1>4 DEF PushImageCompleted, EndPass
  <2>2. QED
    BY <1>4, <2>1 DEF bvars
<1>5. CASE BCanDownload
  <2>1. pc' \in {"Download", "CanUnpack"} /\ pc = "CanDownload"
    BY <1>5 DEF BCanDownload
  <2>2. QED
    BY <1>5, <2>1 DEF BCanDownload, bvars
<1>6. CASE StartDownload
  <2>1. pc = "Download" /\ rep = NoReporter /\ UNCHANGED <<bundleOk, mem>>
    BY <1>6 DEF StartDownload, nonPc
  <2>2. CASE bundleOk
    BY <1>6, <2>1, <2>2 DEF StartDownload
  <2>3. CASE ~bundleOk
    <3>1. pc' = "Downloading" /\ rep' = [stage |-> "DownloadPackage", stopped |-> FALSE]
      BY <1>6, <2>3 DEF StartDownload
    <3>2. rep' \in Reporter /\ ~rep'.stopped /\ rep' # NoReporter
      BY <3>1 DEF Reporter, ReporterStages, NoReporter
    <3>3. QED
      BY <2>1, <3>1, <3>2
  <2>4. QED
    BY <2>2, <2>3
<1>7. CASE DownloadProgress
  BY <1>7 DEF DownloadProgress, vars
<1>8. CASE DownloadFails
  <2>1. pc' \in {"DownloadRetry", "FailCondition"} /\ pc \in {"Downloading", "DownloadRetry"}
    BY <1>8 DEF DownloadFails
  <2>2. QED
    BY <1>8, <2>1 DEF DownloadFails, bvars
<1>9. CASE DownloadSucceeds
  BY <1>9 DEF DownloadSucceeds
<1>10. CASE DownloadDone
  BY <1>10 DEF DownloadDone, Detach, EndPass
<1>11. CASE BCanUnpack
  <2>1. pc' \in {"Untar", "CanPushImage"} /\ pc = "CanUnpack"
    BY <1>11 DEF BCanUnpack
  <2>2. QED
    BY <1>11, <2>1 DEF BCanUnpack, bvars
<1>12. CASE StartUntar
  <2>1. pc' = "Untarring" /\ rep' = [stage |-> "UnpackPackage", stopped |-> FALSE]
        /\ pc = "Untar"
    BY <1>12 DEF StartUntar
  <2>2. [stage |-> "UnpackPackage", stopped |-> FALSE] \in Reporter
    BY DEF Reporter, ReporterStages
  <2>3. QED
    BY <2>1, <2>2
<1>13. CASE UntarFile
  BY <1>13 DEF UntarFile, vars
<1>14. CASE UntarFails
  BY <1>14 DEF UntarFails, bvars
<1>15. CASE UntarSucceeds
  BY <1>15 DEF UntarSucceeds
<1>16. CASE UntarDone
  BY <1>16 DEF UntarDone, Detach, EndPass
<1>17. CASE StartLoadPush
  <2>1. pc = "CanPushImage" /\ pc' = "HandleImage" /\ canPushImage(mem)
        /\ mem' = [mem EXCEPT !.pushed = <<>>]
    BY <1>17 DEF StartLoadPush
  <2>2. Status(mem', "UnpackPackage") = Status(mem, "UnpackPackage")
    BY <2>1, PushedResetEffect DEF BackInv, BType, Stages
  <2>3. QED
    BY <1>17, <2>1, <2>2 DEF StartLoadPush, canPushImage, bvars
<1>18. CASE BCanReady
  BY <1>18 DEF BCanReady, CanPushImage, EndPass, bvars
<1>19. CASE LoadImage
  <2>1. PICK img \in (IF cur = NoImage THEN todo ELSE {cur}) :
               ImageLoadedPushed(img) \/ ImageAttemptFails(img)
    BY <1>19 DEF LoadImage
  <2>2. img \in Images /\ CondsFn(mem) /\ mem \in PackageStatus
    BY <1>19, <2>1 DEF LoadImage, BackInv, BType
  <2>3. pc = "HandleImage" /\ UNCHANGED <<cluster, bundleOk, unpacked, rep>>
    BY <1>19 DEF LoadImage, bvars
  <2>4. CASE ImageLoadedPushed(img)
    <3>1. unpacked = Images
      BY <2>2, <2>3, CondsFnHasConditions DEF BackInv, Backed, BackedBy
    <3>2. countImages = ImagesNumber
      BY <3>1 DEF countImages, ImagesNumber
    <3>3. Status(mem', "UnpackPackage") = Status(mem, "UnpackPackage")
      BY <2>2, <2>4, <3>2, PushedAppendEffect DEF ImageLoadedPushed, Stages
    <3>4. pc' \in {"UpdateProgress", "HandleImage"}
      BY <2>4 DEF ImageLoadedPushed
    <3>5. QED
      BY <2>3, <3>3, <3>4
  <2>5. CASE ImageAttemptFails(img)
    <3>1. pc' \in {"HandleImage", "FailCondition"} /\ mem' = mem
      BY <2>3, <2>5 DEF ImageAttemptFails
    <3>2. QED
      BY <2>3, <3>1
  <2>6. QED
    BY <2>1, <2>4, <2>5
<1>20. CASE BFailCondition
  BY <1>20 DEF BFailCondition, FailCondition, Detach, EndPass
<1>21. CASE ReporterTick
  <2>1. pc \in RepPcs /\ UNCHANGED <<pc, cluster, bundleOk, unpacked, rep>>
    BY <1>21 DEF ReporterTick, envVars, bvars
  <2>2. QED
    BY <2>1
<1>22. CASE ReporterExit
  BY <1>22 DEF ReporterExit, vars
<1>23. CASE OrphanTick
  <2>1. UNCHANGED <<pc, mem, cluster, bundleOk, unpacked, rep>>
    BY <1>23 DEF OrphanTick, envVars, passVars
  <2>2. QED
    BY <2>1
<1>24. CASE OrphanExit
  BY <1>24 DEF OrphanExit, vars
<1>25. CASE BCrash
  BY <1>25 DEF BCrash, Crash, EndPass
<1>26. CASE (ClearStatus \/ CompleteClusterConfig \/ ImageRepositoryUp) /\ UNCHANGED bvars
  <2>1. UNCHANGED <<pc, mem>>
    BY <1>26 DEF ClearStatus, CompleteClusterConfig, ImageRepositoryUp, passVars
  <2>2. QED
    BY <1>26, <2>1 DEF bvars, Grows
<1>27. CASE UNCHANGED allVars
  BY <1>27 DEF allVars, vars, bvars
<1>28. QED
  BY <1>1, <1>2, <1>3, <1>4, <1>5, <1>6, <1>7, <1>8, <1>9, <1>10, <1>11, <1>12,
     <1>13, <1>14, <1>15, <1>16, <1>17, <1>18, <1>19, <1>20, <1>21, <1>22, <1>23,
     <1>24, <1>25, <1>26, <1>27
  DEF BNext, BPassStep, Reporters, BEnvironment

(***************************************************************************)
(* The part of BackInv about the statuses: each one that can still be      *)
(* written is backed by the files.                                         *)
(***************************************************************************)
BackedParts ==
    /\ ~cluster.fullOnline => Backed(stored)
    /\ pc # "Idle" => Backed(mem)
    /\ ~cluster.fullOnline => \A o \in orphans : Backed(o.pkg)

\* A status with no file stage Completed needs no files.
LEMMA FreshBacked ==
    ASSUME NEW ok, NEW files
    PROVE  /\ BackedBy(initPackageStatus("Waiting"), ok, files)
           /\ BackedBy(EmptyStatus, ok, files)
BY DEF BackedBy, initPackageStatus, EmptyStatus, HasConditions, Status, Stages

\* Completing a file stage keeps a status backed once the file is there.
LEMMA CompleteBacked ==
    ASSUME NEW st \in PackageStatus, CondsFn(st),
           NEW typ \in {"DownloadPackage", "UnpackPackage"}, NEW ok, NEW files,
           BackedBy(st, ok, files),
           typ = "DownloadPackage" => ok, typ = "UnpackPackage" => files = Images
    PROVE  BackedBy(updateConditionStatus(st, typ, "Completed"), ok, files)
<1>1. HasConditions(st)
  BY CondsFnHasConditions
<1>2. QED
  BY <1>1, UpdateConditionStatusEffect DEF BackedBy, Stages, Statuses

\* setInitStatus touches only Init.
LEMMA InitCompletedFiles ==
    ASSUME NEW st \in PackageStatus, CondsFn(st)
    PROVE  ClaimsNoMoreFiles([st EXCEPT !.conds["Init"].status = "Completed"], st)
BY InitCompletedEffect, CondsFnHasConditions DEF ClaimsNoMoreFiles, Stages

\* Recording a pushed image and its progress changes no status.
LEMMA AppendFiles ==
    ASSUME NEW st \in PackageStatus, CondsFn(st), NEW img \in Images
    PROVE  LET m1 == [st EXCEPT !.pushed = Append(@, img)]
               m2 == updateConditionProgress(m1, "PushImage", (Len(m1.pushed) * 100) \div ImagesNumber)
           IN  ClaimsNoMoreFiles(m2, st)
BY PushedAppendEffect, CondsFnHasConditions DEF ClaimsNoMoreFiles, Stages

\* Detach adds at most one orphan, and it holds the final status.
LEMMA DetachOrphans ==
    ASSUME NEW STATE final, Detach(final)
    PROVE  \A o \in orphans' : o \in orphans \/ o.pkg = final
BY DEF Detach

LEMMA BackedStep == BackInv /\ [BNext]_allVars => BackedParts'
<1> SUFFICES ASSUME BackInv, [BNext]_allVars PROVE BackedParts'
  OBVIOUS
<1> DEFINE New(x) == BackedBy(x, bundleOk', unpacked')
           FO == cluster.fullOnline
<1>0. Grows /\ BType /\ BType'
  BY BGrow, BTypeStep DEF BackInv
<1>1. unpacked = Images => unpacked' = Images
  BY <1>0 DEF Grows, BType
<1>2. ASSUME NEW x, NEW u, New(x), ClaimsNoMoreFiles(u, x) PROVE New(u)
  BY <1>2 DEF BackedBy, ClaimsNoMoreFiles
<1>3. /\ ~FO => New(stored)
      /\ pc # "Idle" => ~FO /\ New(mem)
      /\ ~FO => \A o \in orphans : New(o.pkg)
  BY <1>0, <1>1 DEF BackInv, Backed, BackedBy, Grows
<1>4. pc # "Idle" => CondsFn(mem) /\ mem \in PackageStatus
  BY <1>0 DEF BType
<1> SUFFICES /\ ~FO => New(stored')
             /\ pc' # "Idle" => New(mem')
             /\ ~FO => \A o \in orphans' : New(o.pkg)
  BY <1>0 DEF BackedParts, Backed, Grows
<1> HIDE DEF New, FO
<1>5. CASE Reconcile /\ UNCHANGED bvars
  <2>1. ~FO => stored' = stored \/ stored' = initPackageStatus("Waiting")
    BY <1>5 DEF Reconcile, StartHandle, WriteOk, WriteFails, FO
  <2>2. pc' # "Idle" => mem' = stored /\ ~FO
    BY <1>5 DEF Reconcile, StartHandle, passVars, FO
  <2>3. New(initPackageStatus("Waiting"))
    BY FreshBacked DEF New
  <2>4. QED
    BY <1>5, <1>3, <2>1, <2>2, <2>3 DEF bvars
<1>6. CASE SetInitStatus /\ UNCHANGED bvars
  <2> DEFINE m1 == [mem EXCEPT !.conds["Init"].status = "Completed"]
  <2>1. pc = "SetInitStatus"
    BY <1>6 DEF SetInitStatus
  <2>2. New(m1)
    BY <1>2, <1>3, <1>4, <2>1, InitCompletedFiles
  <2>3. /\ mem' = mem \/ mem' = m1
        /\ stored' = stored \/ stored' = m1
    BY <1>6 DEF SetInitStatus, WriteOk, WriteFails
  <2>4. QED
    BY <1>6, <1>3, <2>1, <2>2, <2>3 DEF bvars
<1>7. CASE UpdateProgress /\ UNCHANGED bvars
  <2>1. pc = "UpdateProgress" /\ mem' = mem /\ (stored' = stored \/ stored' = mem)
    BY <1>7 DEF UpdateProgress, WriteOk, WriteFails
  <2>2. QED
    BY <1>7, <1>3, <2>1 DEF bvars
<1>8. CASE PushImageCompleted /\ UNCHANGED bvars
  <2> DEFINE m1 == updateConditionStatus(mem, "PushImage", "Completed")
  <2>1. pc = "HandleImage" /\ pc' = "Idle" /\ (stored' = stored \/ stored' = m1)
    BY <1>8 DEF PushImageCompleted, EndPass, WriteOk, WriteFails
  <2>2. New(m1)
    BY <1>2, <1>3, <1>4, <2>1, UpdateClaimsNoMoreFiles DEF Stages, Statuses
  <2>3. QED
    BY <1>8, <1>3, <2>1, <2>2 DEF bvars
<1>9. CASE BCanDownload
  <2> DEFINE m1 == updateConditionStatus(mem, "DownloadPackage", "Running")
  <2>1. pc = "CanDownload" /\ UNCHANGED orphans
    BY <1>9 DEF BCanDownload, bvars
  <2>2. New(m1)
    BY <1>2, <1>3, <1>4, <2>1, UpdateClaimsNoMoreFiles DEF Stages, Statuses
  <2>3. /\ mem' = mem \/ mem' = m1
        /\ stored' = stored \/ stored' = m1
    BY <1>9 DEF BCanDownload, WriteOk, WriteFails
  <2>4. QED
    BY <1>3, <2>1, <2>2, <2>3
<1>10. CASE StartDownload \/ DownloadProgress \/ DownloadSucceeds \/ StartUntar \/ UntarFile
             \/ UntarFails \/ UntarSucceeds
  <2>1. pc # "Idle" /\ UNCHANGED <<stored, mem, orphans>>
    BY <1>10 DEF StartDownload, DownloadProgress, DownloadSucceeds, StartUntar, UntarFile,
                 UntarFails, UntarSucceeds, nonPc, vars, bvars
  <2>2. QED
    BY <1>3, <2>1
<1>11. CASE DownloadFails
  <2>1. pc # "Idle" /\ UNCHANGED <<mem, orphans>> /\ (stored' = stored \/ stored' = mem)
    BY <1>11 DEF DownloadFails, bvars
  <2>2. QED
    BY <1>3, <2>1
<1>12. CASE DownloadDone
  <2> DEFINE m1 == updateConditionStatus(mem, "DownloadPackage", "Completed")
  <2>1. /\ pc = "DownloadDone" /\ pc' = "Idle" /\ Detach(m1)
        /\ (stored' = stored \/ stored' = m1)
    BY <1>12 DEF DownloadDone, EndPass, WriteOk, WriteFails
  <2>2. bundleOk'
    BY <1>0, <2>1 DEF BackInv, Grows
  <2>3. New(m1)
    BY <1>3, <1>4, <2>1, <2>2, CompleteBacked DEF New
  <2>4. \A o \in orphans' : o \in orphans \/ o.pkg = m1
    BY <2>1, DetachOrphans
  <2>5. QED
    BY <1>3, <2>1, <2>3, <2>4
<1>13. CASE BCanUnpack
  <2> DEFINE m1 == updateConditionStatus(mem, "UnpackPackage", "Running")
  <2>1. pc = "CanUnpack" /\ UNCHANGED orphans
    BY <1>13 DEF BCanUnpack, bvars
  <2>2. New(m1)
    BY <1>2, <1>3, <1>4, <2>1, UpdateClaimsNoMoreFiles DEF Stages, Statuses
  <2>3. /\ mem' = mem \/ mem' = m1
        /\ stored' = stored \/ stored' = m1
    BY <1>13 DEF BCanUnpack, WriteOk, WriteFails
  <2>4. QED
    BY <1>3, <2>1, <2>2, <2>3
<1>14. CASE UntarDone
  <2> DEFINE m1 == updateConditionStatus(mem, "UnpackPackage", "Completed")
  <2>1. /\ pc = "UntarDone" /\ pc' = "Idle" /\ Detach(m1)
        /\ (stored' = stored \/ stored' = m1)
    BY <1>14 DEF UntarDone, EndPass, WriteOk, WriteFails
  <2>2. unpacked' = Images
    BY <1>1, <2>1 DEF BackInv
  <2>3. New(m1)
    BY <1>3, <1>4, <2>1, <2>2, CompleteBacked DEF New
  <2>4. \A o \in orphans' : o \in orphans \/ o.pkg = m1
    BY <2>1, DetachOrphans
  <2>5. QED
    BY <1>3, <2>1, <2>3, <2>4
<1>15. CASE StartLoadPush
  <2>1. /\ pc = "CanPushImage" /\ mem' = [mem EXCEPT !.pushed = <<>>]
        /\ UNCHANGED <<stored, orphans>>
    BY <1>15 DEF StartLoadPush, bvars
  <2>2. New(mem')
    BY <1>2, <1>3, <1>4, <2>1, PushedResetEffect
  <2>3. QED
    BY <1>3, <2>1, <2>2
<1>16. CASE BCanReady
  <2> DEFINE m1 == updateConditionStatus(mem, "Ready", "Completed")
  <2>1. /\ pc = "CanPushImage" /\ pc' = "Idle" /\ UNCHANGED orphans
        /\ (stored' = stored \/ stored' = m1)
    BY <1>16 DEF BCanReady, CanPushImage, EndPass, WriteOk, WriteFails, bvars
  <2>2. New(m1)
    BY <1>2, <1>3, <1>4, <2>1, UpdateClaimsNoMoreFiles DEF Stages, Statuses
  <2>3. QED
    BY <1>3, <2>1, <2>2
<1>17. CASE LoadImage
  <2>1. PICK img \in (IF cur = NoImage THEN todo ELSE {cur}) :
               ImageLoadedPushed(img) \/ ImageAttemptFails(img)
    BY <1>17 DEF LoadImage
  <2>2. img \in Images /\ pc = "HandleImage" /\ UNCHANGED <<stored, orphans>>
    BY <1>0, <1>17, <2>1 DEF LoadImage, BType, bvars
  <2>3. CASE ImageLoadedPushed(img)
    <3>1. unpacked = Images
      BY <1>4, <2>2, CondsFnHasConditions DEF BackInv, Backed, BackedBy
    <3>2. countImages = ImagesNumber
      BY <3>1 DEF countImages, ImagesNumber
    <3>3. ClaimsNoMoreFiles(mem', mem)
      BY <1>4, <2>2, <2>3, <3>2, AppendFiles DEF ImageLoadedPushed
    <3>4. QED
      BY <1>2, <1>3, <2>2, <3>3
  <2>4. CASE ImageAttemptFails(img)
    BY <1>3, <2>2, <2>4 DEF ImageAttemptFails
  <2>5. QED
    BY <2>1, <2>3, <2>4
<1>18. CASE BFailCondition
  <2> DEFINE m1 == updateConditionStatus(mem, failStage, "Failed")
  <2>1. /\ pc = "FailCondition" /\ pc' = "Idle" /\ Detach(m1)
        /\ (stored' = stored \/ stored' = m1)
    BY <1>18 DEF BFailCondition, FailCondition, EndPass, WriteOk, WriteFails
  <2>2. New(m1)
    BY <1>0, <1>2, <1>3, <1>4, <2>1, UpdateClaimsNoMoreFiles DEF BType, Statuses
  <2>3. \A o \in orphans' : o \in orphans \/ o.pkg = m1
    BY <2>1, DetachOrphans
  <2>4. QED
    BY <1>3, <2>1, <2>2, <2>3
<1>19. CASE ReporterTick
  <2> DEFINE m1 == updateConditionProgress(mem, rep.stage, ReportedProgress(rep.stage, percent))
  <2>1. rep \in Reporter /\ pc \in RepPcs
    BY <1>0, <1>19 DEF ReporterTick, BackInv, BType
  <2>2. pc # "Idle" /\ rep.stage \in Stages
    BY <2>1 DEF RepPcs, Reporter, ReporterStages, Stages
  <2>3. ClaimsNoMoreFiles(m1, mem)
    BY <1>4, <2>2, ProgressEffect
  <2>4. /\ mem' = m1 /\ (stored' = stored \/ stored' = m1)
        /\ UNCHANGED <<pc, orphans>>
    BY <1>19 DEF ReporterTick, WriteOk, WriteFails, bvars
  <2>5. QED
    BY <1>2, <1>3, <2>2, <2>3, <2>4
<1>20. CASE ReporterExit \/ OrphanExit
  <2>1. UNCHANGED <<stored, pc, mem>> /\ orphans' \subseteq orphans
    BY <1>20 DEF ReporterExit, OrphanExit, vars
  <2>2. QED
    BY <1>3, <2>1
<1>21. CASE OrphanTick
  <2>1. PICK o \in orphans :
          LET m1 == updateConditionProgress(o.pkg, o.stage, ReportedProgress(o.stage, o.pct)) IN
          /\ WriteOk(m1, queued) \/ WriteFails(queued)
          /\ orphans' = (orphans \ {o}) \cup {[o EXCEPT !.pkg = m1]}
          /\ UNCHANGED <<envVars, passVars, crashes, resets, outages, bundleOk, percent,
                         unpacked, rep>>
    BY <1>21 DEF OrphanTick
  <2> DEFINE m1 == updateConditionProgress(o.pkg, o.stage, ReportedProgress(o.stage, o.pct))
  <2>2. o \in Orphan /\ CondsFn(o.pkg)
    BY <1>0 DEF BType
  <2>3. o.pkg \in PackageStatus /\ o.stage \in Stages
    BY <2>2 DEF Orphan, ReporterStages, Stages
  <2>4. ~FO => New(m1)
    BY <1>2, <1>3, <2>3, <2>2, ProgressEffect
  <2>5. m1 \in PackageStatus
    <3>1. o.pct \in {0, 50, 100} /\ unpacked \subseteq Images
      BY <1>0, <2>2 DEF Orphan, BType
    <3>2. ReportedProgress(o.stage, o.pct) \in Nat
      BY <3>1, ReportedProgressNat
    <3>3. QED
      BY <2>2, <2>3, <3>2, UpdateConditionProgressType
  <2>6. [o EXCEPT !.pkg = m1].pkg = m1
    BY <2>2, <2>5, OrphanUpdate
  <2>7. /\ stored' = stored \/ stored' = m1
        /\ \A x \in orphans' : x \in orphans \/ x.pkg = m1
        /\ UNCHANGED <<pc, mem>>
    BY <2>1, <2>6 DEF WriteOk, WriteFails, passVars
  <2>8. QED
    BY <1>3, <2>4, <2>7
<1>22. CASE BCrash
  <2>1. UNCHANGED stored /\ pc' = "Idle" /\ orphans' = {}
    BY <1>22 DEF BCrash, Crash, EndPass
  <2>2. QED
    BY <1>3, <2>1
<1>23. CASE ClearStatus /\ UNCHANGED bvars
  <2>1. stored' = EmptyStatus /\ UNCHANGED <<pc, mem, orphans>>
    BY <1>23 DEF ClearStatus, passVars, bvars
  <2>2. New(EmptyStatus)
    BY FreshBacked DEF New
  <2>3. QED
    BY <1>3, <2>1, <2>2
<1>24. CASE (CompleteClusterConfig \/ ImageRepositoryUp) /\ UNCHANGED bvars
  <2>1. UNCHANGED <<stored, pc, mem, orphans>>
    BY <1>24 DEF CompleteClusterConfig, ImageRepositoryUp, passVars, bvars
  <2>2. QED
    BY <1>3, <2>1
<1>25. CASE UNCHANGED allVars
  <2>1. UNCHANGED <<stored, pc, mem, orphans>>
    BY <1>25 DEF allVars, vars, bvars
  <2>2. QED
    BY <1>3, <2>1
<1>26. QED
  BY <1>5, <1>6, <1>7, <1>8, <1>9, <1>10, <1>11, <1>12, <1>13, <1>14, <1>15, <1>16,
     <1>17, <1>18, <1>19, <1>20, <1>21, <1>22, <1>23, <1>24, <1>25
  DEF BNext, BPassStep, Reporters, BEnvironment

LEMMA BackInvInit == BInit => BackInv
<1> SUFFICES ASSUME BInit PROVE BackInv
  OBVIOUS
<1>1. BType
  BY EmptyStatusType DEF BInit, Init, BType, ClusterType, BundlePcs, PassPcs, Stages
<1>2. Backed(stored) /\ pc = "Idle" /\ rep = NoReporter /\ orphans = {}
  BY FreshBacked DEF BInit, Init, Backed
<1>3. QED
  BY <1>1, <1>2 DEF BackInv, RepPcs

LEMMA BackInvStep == BackInv /\ [BNext]_allVars => BackInv'
<1> SUFFICES ASSUME BackInv, [BNext]_allVars PROVE BackInv'
  OBVIOUS
<1>1. BType' /\ Ctrl' /\ BackedParts'
  BY BTypeStep, CtrlStep, BackedStep
<1>2. QED
  BY <1>1 DEF BackInv, Ctrl, BackedParts

\* StagesMatchFiles: in the bundle mode the stored DownloadPackage is
\* Completed only once the bundle passed its MD5 check, and UnpackPackage only
\* once every image file is in pkgDst, whatever failed transfers, partial
\* extractions, crashes, late reporter writes and status clears came before.
THEOREM StagesMatchFilesHolds == BSpec => []StagesMatchFiles
<1>1. BInit => BackInv
  BY BackInvInit
<1>2. BackInv /\ [BNext]_allVars => BackInv'
  BY BackInvStep
<1>3. BackInv => StagesMatchFiles
  BY DEF BackInv, Backed, BackedBy, StagesMatchFiles
<1>4. QED
  BY <1>1, <1>2, <1>3, PTL DEF BSpec
=============================================================================
