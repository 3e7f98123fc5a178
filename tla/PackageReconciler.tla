------------------------- MODULE PackageReconciler -------------------------
(***************************************************************************)
(* The RainbondPackage reconciler of controllers/                          *)
(* rainbondpackage_controller.go: the condition chain                      *)
(*     Init -> DownloadPackage -> UnpackPackage -> PushImage -> Ready      *)
(* driven by repeated Reconcile passes of controller-runtime.              *)
(*                                                                         *)
(* A pass reads the stored package once, takes a deep copy (p.pkg, here   *)
(* `mem`) and then writes that whole copy back with updateCRStatus after   *)
(* every change.  Every such write is a step of its own, so the            *)
(* environment (an external clear of the status, a crash of the operator,  *)
(* the image-repository health signal) can act between two writes of one  *)
(* pass.  The build never sets pkg.downloadPackage, so canDownload and     *)
(* canUnpack always take their skip shortcut and PushImage always runs     *)
(* imagePullAndPush; the load-and-push path is not reachable.              *)
(***************************************************************************)
EXTENDS Naturals, Sequences, FiniteSets, Functions

CONSTANTS
    Images,       \* the entries of p.images (source -> destination image)
    NoImage,      \* no image is being retried
    MaxAttempts,  \* attempts retryutil.Retry gives one image (3 in the code)
    MaxFaults,    \* failed status writes, docker-client and image operations
    MaxCrashes,   \* restarts of the operator in the middle of a pass
    MaxResets,    \* external clears of the package status
    MaxOutages    \* times the ImageRepository condition of the cluster drops

ASSUME ImagesAssumption == IsFiniteSet(Images) /\ Images # {} /\ NoImage \notin Images
ASSUME BoundsAssumption ==
    /\ MaxAttempts \in Nat \ {0}
    /\ MaxFaults \in Nat /\ MaxCrashes \in Nat
    /\ MaxResets \in Nat /\ MaxOutages \in Nat

VARIABLES
    cluster,    \* the RainbondCluster: ConfigCompleted, full-online mode, image repository ready
    stored,     \* the package status held by the API server
    queued,     \* the package key is in the controller's work queue
    local,      \* source images present in the local docker daemon
    registry,   \* destination images present in the target registry
    pc,         \* where the current Reconcile pass is
    mem,        \* p.pkg.Status: the pass's own copy of the status
    todo,       \* entries of p.images the push loop has not finished
    cur,        \* the entry handleImgae is retrying, or NoImage
    attempts,   \* failed attempts on cur
    failStage,  \* the condition the pass is about to mark Failed
    faults, crashes, resets, outages  \* bounds on the environment

envVars  == <<cluster, local, registry>>
passVars == <<pc, mem, todo, cur, attempts, failStage>>
budget   == <<faults, crashes, resets, outages>>
vars     == <<cluster, stored, queued, local, registry, pc, mem, todo, cur,
              attempts, failStage, faults, crashes, resets, outages>>

(***************************************************************************)
(* Conditions.  The stored list always holds the five conditions in the   *)
(* order of initPackageStatus, so a function on stage names stands for it; *)
(* the empty list of a fresh package is the empty function.                *)
(***************************************************************************)
StageSeq == <<"Init", "DownloadPackage", "UnpackPackage", "PushImage", "Ready">>
Stages   == {"Init", "DownloadPackage", "UnpackPackage", "PushImage", "Ready"}
Statuses == {"Waiting", "Running", "Completed", "Failed"}
Cond     == [status : Statuses, progress : 0..100]
NoConditions == [s \in {} |-> [status |-> "Waiting", progress |-> 0]]
PackageStatus == [conds : [Stages -> Cond] \cup {NoConditions}, pushed : Seq(Images)]
EmptyStatus == [conds |-> NoConditions, pushed |-> <<>>]
ClusterType == [completed : BOOLEAN, fullOnline : BOOLEAN, repoReady : BOOLEAN]
PassPcs == {"Idle", "SetInitStatus", "CanDownload", "CanUnpack", "CanPushImage",
            "HandleImage", "UpdateProgress", "FailCondition"}

ImagesNumber == Cardinality(Images)

Status(st, s) == st.conds[s].status
HasConditions(st) == st.conds # NoConditions

\* initPackageStatus: every condition in the given status, progress 0.
initPackageStatus(s) ==
    [conds |-> [t \in Stages |-> [status |-> s, progress |-> 0]], pushed |-> <<>>]

\* updateConditionStatus: a transition to Completed forces progress 100.
updateConditionStatus(st, typ, s) ==
    [st EXCEPT !.conds[typ] = [status   |-> s,
                               progress |-> IF s = "Completed" THEN 100 ELSE @.progress]]

\* updateConditionProgress clamps at 100.
updateConditionProgress(st, typ, progress) ==
    [st EXCEPT !.conds[typ].progress = IF progress > 100 THEN 100 ELSE progress]

\* checkStatusCanReturn, for a non-empty list: the first Running or Failed
\* condition decides; Running returns at once, Failed goes on to handle.
RunningFirst(st) ==
    \E i \in 1..5 : /\ Status(st, StageSeq[i]) = "Running"
                    /\ \A j \in 1..(i - 1) : Status(st, StageSeq[j]) # "Failed"
AllCompleted(st) == \A s \in Stages : Status(st, s) = "Completed"
\* Mutant: a Failed condition also ends the pass.
checkStatusCanReturnOnFailed(st) ==
    RunningFirst(st) \/ AllCompleted(st) \/ \E s \in Stages : Status(st, s) = "Failed"
checkStatusCanReturn(st) == RunningFirst(st) \/ AllCompleted(st)

(***************************************************************************)
(* updateCRStatus: re-read the latest object, copy its resourceVersion and *)
(* write the whole status.  A write that changes the object is a watch     *)
(* event that queues the key again.  q is what the pass itself leaves in   *)
(* the queue.  The write can fail (conflicts past retry.DefaultRetry, API  *)
(* errors).                                                                *)
(***************************************************************************)
WriteOk(st, q) ==
    /\ stored' = st
    /\ queued' = (q \/ st # stored)
    /\ UNCHANGED faults
WriteFails(q) ==
    /\ faults < MaxFaults
    /\ faults' = faults + 1
    /\ stored' = stored
    /\ queued' = q

\* The pass returns; its pkg value is dropped.
EndPass ==
    /\ pc' = "Idle"
    /\ mem' = EmptyStatus
    /\ todo' = {}
    /\ cur' = NoImage
    /\ attempts' = 0
    /\ failStage' = "Init"

\* A package is created while the cluster configuration is still being
\* completed; CompleteClusterConfig can follow at once.
Init ==
    /\ cluster \in [completed : {FALSE}, fullOnline : BOOLEAN, repoReady : BOOLEAN]
    /\ stored = EmptyStatus
    /\ queued = TRUE
    /\ local \in SUBSET Images
    /\ registry \in SUBSET Images
    /\ pc = "Idle"
    /\ mem = EmptyStatus
    /\ todo = {}
    /\ cur = NoImage
    /\ attempts = 0
    /\ failStage = "Init"
    /\ faults = 0 /\ crashes = 0 /\ resets = 0 /\ outages = 0

\* isImageRepositoryReady: the ImageRepository condition of the cluster is True.
isImageRepositoryReady == cluster.repoReady

\* configByCluster succeeds once the cluster config is completed and the
\* image repository is ready (errorClusterConfigNotReady, NoLocalHub otherwise).
configByCluster == cluster.completed /\ isImageRepositoryReady

\* Mutant: the wait for the local image hub returns without a requeue.
StartHandleNoRequeue ==
    /\ \/ /\ faults < MaxFaults
          /\ faults' = faults + 1
          /\ queued' = TRUE
          /\ UNCHANGED passVars
       \/ /\ ~configByCluster
          /\ queued' = FALSE
          /\ UNCHANGED <<faults, passVars>>
       \/ /\ configByCluster
          /\ queued' = FALSE
          /\ pc' = "SetInitStatus"
          /\ mem' = stored
          /\ UNCHANGED <<faults, todo, cur, attempts, failStage>>
    /\ UNCHANGED stored

\* newpkg (the docker client can fail) and the prerequisite check of handle:
\* checkClusterConfig fails with errorClusterConfigNoLocalHub while the
\* ImageRepository condition of the cluster is not True; both are requeued.
\* Otherwise handle works on its deep copy of the package.
StartHandle ==
    /\ \/ /\ faults < MaxFaults
          /\ faults' = faults + 1
          /\ queued' = TRUE
          /\ UNCHANGED passVars
       \/ /\ ~configByCluster
          /\ queued' = TRUE
          /\ UNCHANGED <<faults, passVars>>
       \/ /\ configByCluster
          /\ queued' = FALSE
          /\ pc' = "SetInitStatus"
          /\ mem' = stored
          /\ UNCHANGED <<faults, todo, cur, attempts, failStage>>
    /\ UNCHANGED stored

(***************************************************************************)
(* Reconcile, up to the point where handle starts on the stages: the      *)
(* cluster gate, the full-online shortcut, checkStatusCanReturn, newpkg    *)
(* and the prerequisite check of handle (checkClusterConfig).  The key     *)
(* leaves the queue; a RequeueAfter result puts it back.                   *)
(***************************************************************************)
Reconcile ==
    /\ pc = "Idle"
    /\ queued
    /\ \/ /\ ~cluster.completed
          /\ queued' = TRUE
          /\ UNCHANGED <<stored, faults, passVars>>
       \/ /\ cluster.completed
          /\ cluster.fullOnline
          /\ WriteOk(initPackageStatus("Completed"), FALSE) \/ WriteFails(TRUE)
          /\ UNCHANGED passVars
       \/ /\ cluster.completed
          /\ ~cluster.fullOnline
          /\ ~HasConditions(stored)
          /\ WriteOk(initPackageStatus("Waiting"), FALSE) \/ WriteFails(TRUE)
          /\ UNCHANGED passVars
       \/ /\ cluster.completed
          /\ ~cluster.fullOnline
          /\ HasConditions(stored)
          /\ checkStatusCanReturn(stored)
          /\ queued' = FALSE
          /\ UNCHANGED <<stored, faults, passVars>>
       \/ /\ cluster.completed
          /\ ~cluster.fullOnline
          /\ HasConditions(stored)
          /\ ~checkStatusCanReturn(stored)
          /\ StartHandle
    /\ UNCHANGED <<envVars, crashes, resets, outages>>

\* setInitStatus: Init is set to Completed directly, not through
\* updateConditionStatus, so its progress is left as it was.  If the write
\* fails, handle marks Init Failed.
SetInitStatus ==
    /\ pc = "SetInitStatus"
    /\ IF Status(mem, "Init") = "Completed"
         THEN /\ pc' = "CanDownload"
              /\ UNCHANGED <<stored, queued, faults, mem, failStage>>
         ELSE LET m1 == [mem EXCEPT !.conds["Init"].status = "Completed"] IN
              /\ mem' = m1
              /\ \/ WriteOk(m1, queued) /\ pc' = "CanDownload" /\ UNCHANGED failStage
                 \/ WriteFails(queued) /\ pc' = "FailCondition" /\ failStage' = "Init"
    /\ UNCHANGED <<envVars, todo, cur, attempts, crashes, resets, outages>>

\* canDownload with downloadPackage false: completeCondition, whose write
\* error is only logged.
CanDownload ==
    /\ pc = "CanDownload"
    /\ pc' = "CanUnpack"
    /\ IF Status(mem, "DownloadPackage") # "Completed"
         THEN LET m1 == updateConditionStatus(mem, "DownloadPackage", "Completed") IN
              /\ mem' = m1
              /\ WriteOk(m1, queued) \/ WriteFails(queued)
         ELSE UNCHANGED <<stored, queued, faults, mem>>
    /\ UNCHANGED <<envVars, todo, cur, attempts, failStage, crashes, resets, outages>>

\* canUnpack with downloadPackage false: same shortcut for UnpackPackage,
\* once DownloadPackage is Completed.
CanUnpack ==
    /\ pc = "CanUnpack"
    /\ pc' = "CanPushImage"
    /\ IF /\ Status(mem, "DownloadPackage") = "Completed"
          /\ Status(mem, "UnpackPackage") # "Completed"
         THEN LET m1 == updateConditionStatus(mem, "UnpackPackage", "Completed") IN
              /\ mem' = m1
              /\ WriteOk(m1, queued) \/ WriteFails(queued)
         ELSE UNCHANGED <<stored, queued, faults, mem>>
    /\ UNCHANGED <<envVars, todo, cur, attempts, failStage, crashes, resets, outages>>

\* Mutant: ImagesPushed is not emptied when the stage starts again.
StartPushImagesNoReset ==
    /\ pc' = "HandleImage"
    /\ mem' = mem
    /\ todo' = Images
    /\ cur' = NoImage
    /\ attempts' = 0

\* imagePullAndPush starts: ImagesNumber = len(p.images), ImagesPushed = nil.
StartPushImages ==
    /\ pc' = "HandleImage"
    /\ mem' = [mem EXCEPT !.pushed = <<>>]
    /\ todo' = Images
    /\ cur' = NoImage
    /\ attempts' = 0

\* Mutant: canPushImage without the check that PushImage is not done yet.
canPushImageNoDoneCheck(st) == Status(st, "UnpackPackage") = "Completed"

\* canPushImage: UnpackPackage is Completed and PushImage is not.
canPushImage(st) ==
    Status(st, "UnpackPackage") = "Completed" /\ Status(st, "PushImage") # "Completed"

\* canReady: PushImage is Completed.
canReady(st) == Status(st, "PushImage") = "Completed"

\* handle, once canPushImage or canReady holds: canPushImage starts imagePullAndPush, which empties ImagesPushed;
\* otherwise canReady completes Ready.  A failed final write is a handle
\* error, requeued after 8s.  The last branch of handle ("no event can be
\* handled") is not reachable: canDownload and canUnpack have completed
\* UnpackPackage in p.pkg by now, so one of the two branches is taken.
CanPushImage ==
    /\ pc = "CanPushImage"
    /\ \/ /\ canPushImage(mem)
          /\ StartPushImages
          /\ UNCHANGED <<stored, queued, faults, failStage>>
       \/ /\ ~canPushImage(mem)
          /\ canReady(mem)
          /\ WriteOk(updateConditionStatus(mem, "Ready", "Completed"), queued) \/ WriteFails(TRUE)
          /\ EndPass
    /\ UNCHANGED <<envVars, crashes, resets, outages>>

\* checkIfImageExists: the source image is in the local daemon.
checkIfImageExists(img) == img \in local

\* imagePull brings the source image into the daemon.
imagePull(img) == local \cup {img}

\* imagePush puts the tagged image into the target registry.
imagePush(img) == registry \cup {img}

\* handleImgae succeeded on img: the image is in the daemon and the
\* registry, count++ and ImagesPushed append, then the progress write when
\* the value changed.
ImagePushed(img) ==
    LET m1 == [mem EXCEPT !.pushed = Append(@, img)]
        m2 == updateConditionProgress(m1, "PushImage", (Len(m1.pushed) * 100) \div ImagesNumber)
    IN /\ local' = IF checkIfImageExists(img) THEN local ELSE imagePull(img)
       /\ registry' = imagePush(img)
       /\ mem' = m2
       /\ todo' = todo \ {img}
       /\ cur' = NoImage
       /\ attempts' = 0
       /\ pc' = IF m2.conds["PushImage"].progress # mem.conds["PushImage"].progress
                  THEN "UpdateProgress" ELSE "HandleImage"
       /\ UNCHANGED <<faults, failStage>>

\* What the daemon and the registry hold after a failed attempt on img.
FailOutcomes(img) ==
    {<<local, registry>>, <<local \cup {img}, registry>>,
     <<local \cup {img}, registry \cup {img}>>}

\* Mutant: the retry loop allows one attempt too many.
ImageAttemptFailsOffByOne(img) ==
    /\ faults < MaxFaults
    /\ faults' = faults + 1
    /\ \E o \in FailOutcomes(img) : local' = o[1] /\ registry' = o[2]
    /\ IF attempts < MaxAttempts
         THEN /\ attempts' = attempts + 1
              /\ cur' = img
              /\ UNCHANGED <<pc, failStage, todo>>
         ELSE /\ pc' = "FailCondition"
              /\ failStage' = "PushImage"
              /\ UNCHANGED <<cur, attempts, todo>>
    /\ UNCHANGED mem

\* Mutant: an entry whose attempts are spent is skipped and the loop goes on.
ImageAttemptFailsSkip(img) ==
    /\ faults < MaxFaults
    /\ faults' = faults + 1
    /\ \E o \in FailOutcomes(img) : local' = o[1] /\ registry' = o[2]
    /\ IF attempts + 1 < MaxAttempts
         THEN /\ attempts' = attempts + 1
              /\ cur' = img
              /\ UNCHANGED <<pc, failStage, todo>>
         ELSE /\ todo' = todo \ {img}
              /\ cur' = NoImage
              /\ attempts' = 0
              /\ UNCHANGED <<pc, failStage>>
    /\ UNCHANGED mem

\* An attempt of handleImgae on img failed: checkIfImageExists or imagePull
\* (the daemon is unchanged), ImageTag (the pulled image stays) or imagePush,
\* whose error can come from the progress stream after the registry has
\* taken the image.  retryutil.Retry gives img MaxAttempts attempts; when they are
\* spent the loop returns the error and handle fails PushImage.
ImageAttemptFails(img) ==
    /\ faults < MaxFaults
    /\ faults' = faults + 1
    /\ \E o \in FailOutcomes(img) : local' = o[1] /\ registry' = o[2]
    /\ IF attempts + 1 < MaxAttempts
         THEN /\ attempts' = attempts + 1
              /\ cur' = img
              /\ UNCHANGED <<pc, failStage, todo>>
         ELSE /\ pc' = "FailCondition"
              /\ failStage' = "PushImage"
              /\ UNCHANGED <<cur, attempts, todo>>
    /\ UNCHANGED mem

(***************************************************************************)
(* The loop of imagePullAndPush: one attempt of handleImgae on an entry of *)
(* p.images, taken in map order (any order), or on the entry being         *)
(* retried.                                                                *)
(***************************************************************************)
HandleImage ==
    /\ pc = "HandleImage"
    /\ todo # {}
    /\ \E img \in (IF cur = NoImage THEN todo ELSE {cur}) :
          ImagePushed(img) \/ ImageAttemptFails(img)
    /\ UNCHANGED <<cluster, stored, queued, crashes, resets, outages>>

\* The progress write of the push loop; its failure fails the stage.
UpdateProgress ==
    /\ pc = "UpdateProgress"
    /\ \/ WriteOk(mem, queued) /\ pc' = "HandleImage" /\ UNCHANGED failStage
       \/ WriteFails(queued) /\ pc' = "FailCondition" /\ failStage' = "PushImage"
    /\ UNCHANGED <<envVars, mem, todo, cur, attempts, crashes, resets, outages>>

\* Every entry pushed: handle completes PushImage.
PushImageCompleted ==
    /\ pc = "HandleImage"
    /\ todo = {}
    /\ WriteOk(updateConditionStatus(mem, "PushImage", "Completed"), queued) \/ WriteFails(TRUE)
    /\ EndPass
    /\ UNCHANGED <<envVars, crashes, resets, outages>>

\* The error branches of handle: mark the condition Failed, write (error
\* ignored) and return the error, which Reconcile requeues after 8s.
FailCondition ==
    /\ pc = "FailCondition"
    /\ WriteOk(updateConditionStatus(mem, failStage, "Failed"), TRUE) \/ WriteFails(TRUE)
    /\ EndPass
    /\ UNCHANGED <<envVars, crashes, resets, outages>>

(***************************************************************************)
(* The environment.                                                        *)
(***************************************************************************)
\* The operator restarts in the middle of a pass; the informer's initial
\* list queues every package again.
Crash ==
    /\ pc # "Idle"
    /\ crashes < MaxCrashes
    /\ crashes' = crashes + 1
    /\ queued' = TRUE
    /\ EndPass
    /\ UNCHANGED <<envVars, stored, faults, resets, outages>>

\* Someone clears the package status (the recovery of spec section 7).
ClearStatus ==
    /\ HasConditions(stored)
    /\ resets < MaxResets
    /\ resets' = resets + 1
    /\ stored' = EmptyStatus
    /\ queued' = TRUE
    /\ UNCHANGED <<envVars, passVars, faults, crashes, outages>>

CompleteClusterConfig ==
    /\ ~cluster.completed
    /\ cluster' = [cluster EXCEPT !.completed = TRUE]
    /\ UNCHANGED <<stored, queued, local, registry, passVars, budget>>

ImageRepositoryDown ==
    /\ cluster.repoReady
    /\ outages < MaxOutages
    /\ outages' = outages + 1
    /\ cluster' = [cluster EXCEPT !.repoReady = FALSE]
    /\ UNCHANGED <<stored, queued, local, registry, passVars, faults, crashes, resets>>

ImageRepositoryUp ==
    /\ ~cluster.repoReady
    /\ cluster' = [cluster EXCEPT !.repoReady = TRUE]
    /\ UNCHANGED <<stored, queued, local, registry, passVars, budget>>

PassStep ==
    \/ Reconcile \/ SetInitStatus \/ CanDownload \/ CanUnpack \/ CanPushImage
    \/ HandleImage \/ UpdateProgress \/ PushImageCompleted \/ FailCondition

Environment ==
    \/ Crash \/ ClearStatus \/ CompleteClusterConfig
    \/ ImageRepositoryDown \/ ImageRepositoryUp

Next == PassStep \/ Environment

(***************************************************************************)
(* The controller's worker keeps taking the key while it is queued and     *)
(* runs a pass to its end; RequeueAfter timers fire.  The cluster config   *)
(* is assumed to be completed eventually and the image repository to come  *)
(* back when it is down.  Crashes and clears are not fair.                 *)
(***************************************************************************)
Fairness ==
    /\ WF_vars(Reconcile) /\ WF_vars(SetInitStatus) /\ WF_vars(CanDownload)
    /\ WF_vars(CanUnpack) /\ WF_vars(CanPushImage) /\ WF_vars(HandleImage)
    /\ WF_vars(UpdateProgress) /\ WF_vars(PushImageCompleted) /\ WF_vars(FailCondition)
    /\ WF_vars(CompleteClusterConfig) /\ WF_vars(ImageRepositoryUp)

Spec == Init /\ [][Next]_vars /\ Fairness

-----------------------------------------------------------------------------
(***************************************************************************)
(* Properties.                                                             *)
(***************************************************************************)

\* Every variable has the shape the code gives it.
TypeOK ==
    /\ cluster \in ClusterType
    /\ stored \in PackageStatus
    /\ queued \in BOOLEAN
    /\ local \subseteq Images
    /\ registry \subseteq Images
    /\ pc \in PassPcs
    /\ mem \in PackageStatus
    /\ todo \subseteq Images
    /\ cur \in Images \cup {NoImage}
    /\ attempts \in 0..(MaxAttempts - 1)
    /\ failStage \in Stages
    /\ faults \in 0..MaxFaults /\ crashes \in 0..MaxCrashes
    /\ resets \in 0..MaxResets /\ outages \in 0..MaxOutages

PushCompleted(st) == HasConditions(st) /\ Status(st, "PushImage") = "Completed"

\* What the stored status says about the registry is true: every image in
\* ImagesPushed was pushed by imagePush, and once PushImage is Completed in
\* a mode that pushes (not full-online) every entry of p.images is in the
\* target registry, whatever retries, failed writes, crashes and clears
\* came before.
InstalledImagesPresent ==
    /\ Range(stored.pushed) \subseteq registry
    /\ (PushCompleted(stored) /\ ~cluster.fullOnline) => Images \subseteq registry

\* When PushImage is Completed, ImagesPushed names each entry of p.images
\* exactly once: imagePullAndPush empties the list at the start of every
\* attempt of the stage, so a retried stage does not list an image twice.
ImagesPushedExact ==
    (PushCompleted(stored) /\ ~cluster.fullOnline) =>
        /\ IsInjective(stored.pushed)
        /\ Len(stored.pushed) = ImagesNumber

\* No lost wake-up: when no pass runs and the key is not queued, the stored
\* status is final (every condition Completed) or held by a Running
\* condition.  Every Reconcile result that leaves work undone must requeue,
\* and every write that changes the object must produce a watch event.
NoLostWakeup ==
    (pc = "Idle" /\ ~queued) =>
        /\ HasConditions(stored)
        /\ AllCompleted(stored) \/ RunningFirst(stored)

\* Under the fairness above and a finite number of faults, the package
\* reaches, and stays in, a status where every condition is Completed.
EventuallyReady == <>[](HasConditions(stored) /\ AllCompleted(stored))

(***************************************************************************)
(* Refinement: the stored statuses evolve as PackageConditions allows.     *)
(***************************************************************************)
StatusOf(st) ==
    IF HasConditions(st) THEN [s \in Stages |-> Status(st, s)]
                         ELSE [s \in {} |-> "Waiting"]

Conditions == INSTANCE PackageConditions WITH conds <- StatusOf(stored)

\* Every write of the whole status by a pass, including a stale copy or a
\* retried stage, keeps the list in chain order and never takes back a
\* Completed stage; only an external clear empties it (spec sections 3, 4.6).
ConditionsRefined == Conditions!Spec

(***************************************************************************)
(* Claims of spec.md that the code does not keep (runs expected to fail).  *)
(***************************************************************************)

\* Spec sections 4.2 and 7: a Failed stage is not retried automatically; it
\* stays Failed until an external actor clears the status.
FailedIsSticky ==
    [][\A s \in Stages :
         (HasConditions(stored) /\ HasConditions(stored') /\ Status(stored, s) = "Failed")
            => Status(stored', s) = "Failed"]_stored

\* Spec sections 5 and 6: the storage boundary protects the status against
\* concurrent writers, so once the status has been cleared, the next status
\* written is the fresh initialisation of checkStatusCanReturn (or of the
\* full-online shortcut), not a copy taken before the clear.
StatusResetNotLost ==
    [][~HasConditions(stored) /\ stored' # stored =>
         stored' \in {initPackageStatus("Waiting"), initPackageStatus("Completed")}]_stored

\* Spec section 4.1: a condition that is Completed has progress 100.
CompletedMeansFullProgress ==
    HasConditions(stored) =>
        \A s \in Stages : Status(stored, s) = "Completed" => stored.conds[s].progress = 100
=============================================================================
