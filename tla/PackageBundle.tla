--------------------------- MODULE PackageBundle ---------------------------
(***************************************************************************)
(* The bundle install mode of controllers/rainbondpackage_controller.go:  *)
(* the path handle takes when p.downloadPackage is true (the field is not *)
(* set by newpkg in this version; the mode is the "ship a tarball of       *)
(* images" mode of the spec).  DownloadPackage downloads the bundle,       *)
(* UnpackPackage extracts it into pkgDst and PushImage loads and pushes    *)
(* every image file found there.  The download and the extraction each     *)
(* start a progress-reporter goroutine that shares p.pkg with the handler  *)
(* and writes the whole status with updateCRStatus.  A reporter is told to *)
(* stop through a buffered channel, and only when its stage succeeds; a    *)
(* reporter whose pass has returned keeps the pass's p.pkg (an orphan).    *)
(*                                                                         *)
(* The reconciler steps shared with the pull mode (Reconcile,              *)
(* setInitStatus, the progress write, the PushImage and Ready completions, *)
(* the error branch and the environment) are those of PackageReconciler.  *)
(***************************************************************************)
EXTENDS PackageReconciler

VARIABLES
    bundleOk,  \* the file at localPackagePath passes the MD5 check
    percent,   \* downloadListener.Percent of the download of this pass
    unpacked,  \* image files (*.tgz) present in pkgDst
    rep,       \* the reporter goroutine of this pass, or NoReporter
    orphans    \* reporters whose pass has returned, with that pass's p.pkg

bvars == <<bundleOk, percent, unpacked, rep, orphans>>
\* Every variable of PackageReconciler except pc.
nonPc == <<cluster, stored, queued, local, registry, mem, todo, cur, attempts,
           failStage, faults, crashes, resets, outages>>
allVars == <<vars, bvars>>

\* newpkg: totalImageNum is fixed at 23 whatever the bundle holds.
TotalImageNum == 23
\* The download advances in steps of this many percent.
PercentStep == 50

NoReporter == [stage |-> "none", stopped |-> TRUE]
ReporterStages == {"DownloadPackage", "UnpackPackage"}
Reporter == [stage : ReporterStages, stopped : BOOLEAN]
Orphan == [stage : ReporterStages, stopped : BOOLEAN, pkg : PackageStatus,
           pct : {0, 50, 100}]
BundlePcs == PassPcs \cup {"Download", "Downloading", "DownloadRetry", "DownloadDone",
                           "Untar", "Untarring", "UntarDone"}

BInit ==
    /\ Init
    /\ bundleOk = FALSE
    /\ percent = 0
    /\ unpacked = {}
    /\ rep = NoReporter
    /\ orphans = {}

(***************************************************************************)
(* The progress a reporter computes.                                      *)
(***************************************************************************)
\* donwnloadPackage: int32(progress) - int32(float64(progress)*0.05).
realProgress(pct) == pct - (pct * 5) \div 100

\* countImages counts the valid files (validateFile) under pkgDst.
countImages == Cardinality(unpacked)

\* untartar: num * 100 / p.totalImageNum.
unpackProgress == (countImages * 100) \div TotalImageNum

ReportedProgress(stage, pct) ==
    IF stage = "DownloadPackage" THEN realProgress(pct) ELSE unpackProgress

\* The pass returns: its reporter, if it has not exited, keeps the final p.pkg.
Detach(final) ==
    /\ rep' = NoReporter
    /\ orphans' = IF rep = NoReporter THEN orphans
                  ELSE orphans \cup {[stage |-> rep.stage, stopped |-> rep.stopped,
                                      pkg |-> final, pct |-> percent]}

(***************************************************************************)
(* DownloadPackage.                                                        *)
(***************************************************************************)
\* canDownload with downloadPackage true: runningCondition writes Running
\* (error only logged) and handle downloads.
BCanDownload ==
    /\ pc = "CanDownload"
    /\ IF Status(mem, "DownloadPackage") # "Completed"
         THEN LET m1 == updateConditionStatus(mem, "DownloadPackage", "Running") IN
              /\ mem' = m1
              /\ WriteOk(m1, queued) \/ WriteFails(queued)
              /\ pc' = "Download"
         ELSE /\ pc' = "CanUnpack"
              /\ UNCHANGED <<stored, queued, faults, mem>>
    /\ UNCHANGED <<envVars, todo, cur, attempts, failStage, crashes, resets, outages, bvars>>

\* donwnloadPackage: a file whose MD5 matches is kept; otherwise the
\* reporter starts and the transfer begins.
StartDownload ==
    /\ pc = "Download"
    /\ IF bundleOk
         THEN /\ pc' = "DownloadDone"
              /\ UNCHANGED <<percent, rep>>
         ELSE /\ pc' = "Downloading"
              /\ percent' = 0
              /\ rep' = [stage |-> "DownloadPackage", stopped |-> FALSE]
    /\ UNCHANGED <<nonPc, bundleOk, unpacked, orphans>>

\* The transfer makes progress (downloadListener.Percent grows).
DownloadProgress ==
    /\ pc \in {"Downloading", "DownloadRetry"}
    /\ percent < 100
    /\ percent' = percent + PercentStep
    /\ UNCHANGED <<vars, bundleOk, unpacked, rep, orphans>>

\* Mutant: the error of the first Download() is dropped and the stage
\* reported done.
DownloadFailsSwallowed ==
    /\ pc \in {"Downloading", "DownloadRetry"}
    /\ pc' = "DownloadDone"
    /\ rep' = [rep EXCEPT !.stopped = TRUE]
    /\ UNCHANGED <<nonPc, bundleOk, percent, unpacked, orphans>>

\* Download() fails.  The first failure records a reason on Init, writes
\* the status and downloads again with the same listener; the second is
\* returned, and the reporter is never told to stop.
DownloadFails ==
    /\ pc \in {"Downloading", "DownloadRetry"}
    /\ faults < MaxFaults
    /\ faults' = faults + 1
    /\ IF pc = "Downloading"
         THEN /\ \/ stored' = mem /\ queued' = (queued \/ mem # stored)
                 \/ UNCHANGED <<stored, queued>>
              /\ pc' = "DownloadRetry"
              /\ UNCHANGED failStage
         ELSE /\ UNCHANGED <<stored, queued>>
              /\ pc' = "FailCondition"
              /\ failStage' = "DownloadPackage"
    /\ UNCHANGED <<envVars, mem, todo, cur, attempts, crashes, resets, outages, bvars>>

\* Download() returns with the whole file; stop <- struct{}{} is buffered,
\* so the reporter may still tick before it sees it.
DownloadSucceeds ==
    /\ pc \in {"Downloading", "DownloadRetry"}
    /\ percent = 100
    /\ bundleOk' = TRUE
    /\ rep' = [rep EXCEPT !.stopped = TRUE]
    /\ pc' = "DownloadDone"
    /\ UNCHANGED <<nonPc, percent, unpacked, orphans>>

\* handle after a successful download: DownloadPackage Completed, written,
\* and the pass returns.
DownloadDone ==
    /\ pc = "DownloadDone"
    /\ LET m1 == updateConditionStatus(mem, "DownloadPackage", "Completed") IN
       /\ WriteOk(m1, queued) \/ WriteFails(TRUE)
       /\ Detach(m1)
    /\ EndPass
    /\ UNCHANGED <<envVars, crashes, resets, outages, bundleOk, percent, unpacked>>

(***************************************************************************)
(* UnpackPackage.                                                          *)
(***************************************************************************)
\* canUnpack with downloadPackage true: once DownloadPackage is Completed,
\* runningCondition writes UnpackPackage Running (error only logged).
BCanUnpack ==
    /\ pc = "CanUnpack"
    /\ IF /\ Status(mem, "DownloadPackage") = "Completed"
          /\ Status(mem, "UnpackPackage") # "Completed"
         THEN LET m1 == updateConditionStatus(mem, "UnpackPackage", "Running") IN
              /\ mem' = m1
              /\ WriteOk(m1, queued) \/ WriteFails(queued)
              /\ pc' = "Untar"
         ELSE /\ pc' = "CanPushImage"
              /\ UNCHANGED <<stored, queued, faults, mem>>
    /\ UNCHANGED <<envVars, todo, cur, attempts, failStage, crashes, resets, outages, bvars>>

\* untartar: the archive opens, the reporter starts, pkgDst is created.
StartUntar ==
    /\ pc = "Untar"
    /\ pc' = "Untarring"
    /\ rep' = [stage |-> "UnpackPackage", stopped |-> FALSE]
    /\ UNCHANGED <<nonPc, bundleOk, percent, unpacked, orphans>>

\* tarutil.Untartar writes one more image file into pkgDst.
UntarFile ==
    /\ pc = "Untarring"
    /\ \E f \in Images \ unpacked : unpacked' = unpacked \cup {f}
    /\ UNCHANGED <<vars, bundleOk, percent, rep, orphans>>

\* Opening or extracting the archive fails; untartar returns the error
\* without stopping its reporter, and handle fails UnpackPackage.
UntarFails ==
    /\ pc \in {"Untar", "Untarring"}
    /\ faults < MaxFaults
    /\ faults' = faults + 1
    /\ pc' = "FailCondition"
    /\ failStage' = "UnpackPackage"
    /\ UNCHANGED <<cluster, stored, queued, local, registry, mem, todo, cur, attempts,
                   crashes, resets, outages, bvars>>

\* Untartar returns once the whole archive is extracted; stop is sent.
UntarSucceeds ==
    /\ pc = "Untarring"
    /\ unpacked = Images
    /\ rep' = [rep EXCEPT !.stopped = TRUE]
    /\ pc' = "UntarDone"
    /\ UNCHANGED <<nonPc, bundleOk, percent, unpacked, orphans>>

\* handle after a successful extraction: UnpackPackage Completed, written,
\* and the pass returns.
UntarDone ==
    /\ pc = "UntarDone"
    /\ LET m1 == updateConditionStatus(mem, "UnpackPackage", "Completed") IN
       /\ WriteOk(m1, queued) \/ WriteFails(TRUE)
       /\ Detach(m1)
    /\ EndPass
    /\ UNCHANGED <<envVars, crashes, resets, outages, bundleOk, percent, unpacked>>

(***************************************************************************)
(* PushImage: imagesLoadAndPush.                                           *)
(***************************************************************************)
\* handle, once canPushImage holds: ImagesNumber = countImages(pkgDst),
\* ImagesPushed = nil, and filepath.Walk visits the files of pkgDst.
StartLoadPush ==
    /\ pc = "CanPushImage"
    /\ canPushImage(mem)
    /\ pc' = "HandleImage"
    /\ mem' = [mem EXCEPT !.pushed = <<>>]
    /\ todo' = unpacked
    /\ cur' = NoImage
    /\ attempts' = 0
    /\ UNCHANGED <<envVars, stored, queued, faults, failStage, crashes, resets,
                   outages, bvars>>

\* imageLoad: ImageLoad reads the file into the local daemon.
imageLoad(img) == local \cup {img}

\* Mutant: the error of imagePush is not checked.
ImageLoadedNoPush(img) ==
    LET m1 == [mem EXCEPT !.pushed = Append(@, img)]
        m2 == updateConditionProgress(m1, "PushImage", (Len(m1.pushed) * 100) \div countImages)
    IN /\ local' = imageLoad(img)
       /\ registry' = registry
       /\ mem' = m2
       /\ todo' = todo \ {img}
       /\ cur' = NoImage
       /\ attempts' = 0
       /\ pc' = IF m2.conds["PushImage"].progress # mem.conds["PushImage"].progress
                  THEN "UpdateProgress" ELSE "HandleImage"
       /\ UNCHANGED <<faults, failStage>>

\* One attempt of the walk function on a file succeeded: imageLoad puts the
\* image into the daemon, ImageTag and imagePush put it into the registry,
\* count++ and ImagesPushed append, then the progress write when the value
\* changed.
ImageLoadedPushed(img) ==
    LET m1 == [mem EXCEPT !.pushed = Append(@, img)]
        m2 == updateConditionProgress(m1, "PushImage", (Len(m1.pushed) * 100) \div countImages)
    IN /\ local' = imageLoad(img)
       /\ registry' = imagePush(img)
       /\ mem' = m2
       /\ todo' = todo \ {img}
       /\ cur' = NoImage
       /\ attempts' = 0
       /\ pc' = IF m2.conds["PushImage"].progress # mem.conds["PushImage"].progress
                  THEN "UpdateProgress" ELSE "HandleImage"
       /\ UNCHANGED <<faults, failStage>>

\* The walk of imagesLoadAndPush: one attempt (retryutil.Retry, three
\* attempts) on a file not yet handled, or on the file being retried.  A
\* failed attempt (imageLoad, ImageTag or imagePush) has the outcomes of
\* the pull mode.
LoadImage ==
    /\ pc = "HandleImage"
    /\ todo # {}
    /\ \E img \in (IF cur = NoImage THEN todo ELSE {cur}) :
          ImageLoadedPushed(img) \/ ImageAttemptFails(img)
    /\ UNCHANGED <<cluster, stored, queued, crashes, resets, outages, bvars>>

(***************************************************************************)
(* The reporter goroutines.  Each tick computes the progress of its stage, *)
(* stores it in its p.pkg with updateConditionProgress and, when the value *)
(* changed, writes that whole p.pkg (errors ignored).  While its pass runs *)
(* the reporter's p.pkg is mem; afterwards it is the orphan's own copy.    *)
(* A stopped reporter may still tick before select takes the stop case.    *)
(***************************************************************************)
ReporterTick ==
    /\ rep # NoReporter
    /\ LET m1 == updateConditionProgress(mem, rep.stage, ReportedProgress(rep.stage, percent)) IN
       /\ m1 # mem
       /\ mem' = m1
       /\ WriteOk(m1, queued) \/ WriteFails(queued)
    /\ UNCHANGED <<envVars, pc, todo, cur, attempts, failStage, crashes, resets,
                   outages, bvars>>

ReporterExit ==
    /\ rep # NoReporter
    /\ rep.stopped
    /\ rep' = NoReporter
    /\ UNCHANGED <<vars, bundleOk, percent, unpacked, orphans>>

OrphanTick ==
    \E o \in orphans :
       LET m1 == updateConditionProgress(o.pkg, o.stage, ReportedProgress(o.stage, o.pct)) IN
       /\ m1 # o.pkg
       /\ WriteOk(m1, queued) \/ WriteFails(queued)
       /\ orphans' = (orphans \ {o}) \cup {[o EXCEPT !.pkg = m1]}
       /\ UNCHANGED <<envVars, passVars, crashes, resets, outages, bundleOk, percent,
                      unpacked, rep>>

OrphanExit ==
    \E o \in orphans :
       /\ o.stopped
       /\ orphans' = orphans \ {o}
       /\ UNCHANGED <<vars, bundleOk, percent, unpacked, rep>>

(***************************************************************************)
(* The error branch of handle, and a restart of the operator, which ends   *)
(* every goroutine.                                                        *)
(***************************************************************************)
BFailCondition ==
    /\ FailCondition
    /\ Detach(updateConditionStatus(mem, failStage, "Failed"))
    /\ UNCHANGED <<bundleOk, percent, unpacked>>

BCrash ==
    /\ Crash
    /\ rep' = NoReporter
    /\ orphans' = {}
    /\ UNCHANGED <<bundleOk, percent, unpacked>>

\* handle, once canReady holds: as in the pull mode.
BCanReady == CanPushImage /\ ~canPushImage(mem) /\ UNCHANGED bvars

BPassStep ==
    \/ (Reconcile \/ SetInitStatus \/ UpdateProgress \/ PushImageCompleted) /\ UNCHANGED bvars
    \/ BCanDownload \/ StartDownload \/ DownloadProgress \/ DownloadFails
    \/ DownloadSucceeds \/ DownloadDone
    \/ BCanUnpack \/ StartUntar \/ UntarFile \/ UntarFails \/ UntarSucceeds \/ UntarDone
    \/ StartLoadPush \/ BCanReady
    \/ LoadImage \/ BFailCondition

Reporters == ReporterTick \/ ReporterExit \/ OrphanTick \/ OrphanExit

\* The image repository may start down and come up; its outages go through
\* the same checkClusterConfig gate as in the pull mode and are left to the
\* runs of PackageReconciler.
BEnvironment ==
    \/ BCrash
    \/ (ClearStatus \/ CompleteClusterConfig \/ ImageRepositoryUp) /\ UNCHANGED bvars

BNext == BPassStep \/ Reporters \/ BEnvironment

\* The worker runs a pass to its end, transfers and extractions that are
\* not failing go on, the cluster is eventually configured and the image
\* repository comes back.  Reporters, crashes and clears are not fair.
BFairness ==
    /\ WF_allVars(Reconcile /\ UNCHANGED bvars) /\ WF_allVars(SetInitStatus /\ UNCHANGED bvars)
    /\ WF_allVars(BCanDownload) /\ WF_allVars(StartDownload) /\ WF_allVars(DownloadProgress)
    /\ WF_allVars(DownloadSucceeds) /\ WF_allVars(DownloadDone) /\ WF_allVars(BCanUnpack)
    /\ WF_allVars(StartUntar) /\ WF_allVars(UntarFile) /\ WF_allVars(UntarSucceeds)
    /\ WF_allVars(UntarDone) /\ WF_allVars(StartLoadPush)
    /\ WF_allVars(BCanReady)
    /\ WF_allVars(LoadImage) /\ WF_allVars(UpdateProgress /\ UNCHANGED bvars)
    /\ WF_allVars(PushImageCompleted /\ UNCHANGED bvars) /\ WF_allVars(BFailCondition)
    /\ WF_allVars(CompleteClusterConfig /\ UNCHANGED bvars)
    /\ WF_allVars(ImageRepositoryUp /\ UNCHANGED bvars)

BSpec == BInit /\ [][BNext]_allVars /\ BFairness

-----------------------------------------------------------------------------
(***************************************************************************)
(* Properties.                                                             *)
(***************************************************************************)

\* The stored stages tell the truth about the files the next stage reads:
\* DownloadPackage is Completed only once the bundle on disk passes its MD5
\* check, and UnpackPackage only once every image file has been extracted
\* into pkgDst (imagesLoadAndPush pushes exactly the files it finds there),
\* whatever failed transfers, partial extractions, crashes, stale reporter
\* writes and clears came before.
StagesMatchFiles ==
    (HasConditions(stored) /\ ~cluster.fullOnline) =>
        /\ Status(stored, "DownloadPackage") = "Completed" => bundleOk
        /\ Status(stored, "UnpackPackage") = "Completed" => unpacked = Images

=============================================================================
