# Formal model of the rainbond-operator package reconciler

This directory holds TLA+ models of the rainbond-operator controller code under
`src/`, TLC configurations that check them on small instances, and TLAPS proofs
of their main safety invariants.

## The system and its parts

| Part | Source | What it does | Status |
|---|---|---|---|
| RainbondPackage reconciler | `src/controllers/rainbondpackage_controller.go` | Drives a package through the conditions Init → DownloadPackage → UnpackPackage → PushImage → Ready. In the pull mode it pulls each image into the local daemon and pushes it to the target registry; in the bundle mode it downloads a tarball, extracts it, and loads and pushes every image file. It persists its progress in the package status. | modelled, except the image-name string conversions |
| Component handlers (rbd-worker, rbd-api, rbd-monitor, rbd-app-ui, local-path) | `src/controllers/handler/*.go`, `src/unnamed/part_00*` | Build Kubernetes manifests from the cluster and component specs. | not modelled: stateless builders, pure data layout |
| NFS CSI plugin and GlobalConfig conversion | `src/pkg/controller/rainbondvolume/plugin/nfs/nfs.go` | Builds manifests. Converts the GlobalConfig CRD to and from its model. | not modelled (planned: conversion round trip) |
| Controller registration | `src/pkg/controller/add_privateregistry.go` | Adds one constructor to a list. | not modelled |
| Image build | `src/Dockerfile` | Build recipe. | not modelled |

The reconciler works with the RainbondCluster (it reads ConfigCompleted, the
install mode and the ImageRepository condition), the API server (it reads and
writes the package status, and each write produces a watch event), the
controller-runtime work queue (requeues and RequeueAfter), the local docker
daemon and the target registry.

## Modules

- `PackageReconciler.tla` models the reconciler together with its environment.
- `MC_PackageReconciler.tla` instantiates it for TLC. It gives two image model
  values and a model value for `NoImage`.
- `PackageReconcilerProofs.tla` holds the TLAPS proofs of type correctness and
  of `InstalledImagesPresent`.
- `PackageConditions.tla` is the abstract specification of what the stored
  condition list promises: empty until the first pass, then five stages in
  chain order (a stage is Completed only after the one before it), and no
  Completed stage is ever taken back except by a clear (`Write`, `Clear`).
  `PackageReconciler` instantiates it as `Conditions` under the refinement
  mapping `conds <- StatusOf(stored)`, the statuses of the stored conditions.
  The property `ConditionsRefined == Conditions!Spec` states the refinement.
- `PackageRefinementProofs.tla` proves the refinement with TLAPS.
- `PackageSafetyProofs.tla` proves `NoLostWakeup` and `ImagesPushedExact` with
  TLAPS, on top of the refinement invariant.
- `PackageBundle.tla` extends `PackageReconciler` with the bundle mode, and
  `MC_PackageBundle.tla` instantiates it (two image files, symmetry over them).
- `PackageBundleProofs.tla` proves `StagesMatchFiles` for the bundle mode
  with TLAPS.

### State

| Variable | Code |
|---|---|
| `stored` | The package status held by the API server: five conditions (status, progress) plus `ImagesPushed`. |
| `mem` | `p.pkg.Status`, the deep copy a pass takes in `newpkg` and writes back whole with `updateCRStatus`. |
| `queued` | The package key is in the work queue, from a watch event, a RequeueAfter or the informer's initial list. |
| `cluster` | ConfigCompleted, full-online install mode, and whether the ImageRepository condition is True. |
| `local`, `registry` | The images in the docker daemon and in the target registry. |
| `pc`, `todo`, `cur`, `attempts`, `failStage` | Where the pass is in `handle`, the entries of `p.images` not yet pushed, the entry `retryutil.Retry` is retrying and its failed attempts, and the condition the error branch will mark Failed. |
| `faults`, `crashes`, `resets`, `outages` | Counters that bound the environment. |

The condition list is modelled as a function from stage names, because the
code always stores the five conditions in the order `initPackageStatus` builds.
A fresh package has an empty list.

### Actions

Every action is one atomic step between two writes.

| Action | Code it covers |
|---|---|
| `Reconcile` | `Reconcile`: the cluster gate, the full-online shortcut, `initPackageStatus` and `checkStatusCanReturn`. It then runs `StartHandle`, which covers `newpkg`, whose docker client can fail, and `checkClusterConfig`/`configByCluster`. |
| `SetInitStatus` | `setInitStatus`. |
| `CanDownload`, `CanUnpack` | The `downloadPackage == false` shortcuts of `canDownload` and `canUnpack`, with `completeCondition`. Their write errors are only logged. |
| `CanPushImage` | The `canPushImage` and `canReady` branches of `handle`. |
| `HandleImage` | One attempt of `handleImgae` in the `imagePullAndPush` loop. It either succeeds (`ImagePushed`, with pull, tag, push and the `ImagesPushed` append) or fails (`ImageAttemptFails`). A failed attempt can leave the image pulled, or pushed but reported as an error. |
| `UpdateProgress` | The progress write of the loop. It is taken only when the clamped percentage changed. |
| `PushImageCompleted` | Completion of PushImage. |
| `FailCondition` | The error branches of `handle`. |
| `Crash` | Environment: the operator restarts mid-pass. |
| `ClearStatus` | Environment: someone clears the status. |
| `CompleteClusterConfig`, `ImageRepositoryDown`, `ImageRepositoryUp` | Environment: cluster signals. |

`PROJECT.json`'s `map` gives the source lines of every definition.

### The bundle mode (PackageBundle.tla)

`handle` takes this path when `p.downloadPackage` is true. `newpkg` does not
set the field in this version, but the code is present and the spec describes
the mode, so it is modelled in a module of its own that reuses every step the
two modes share.

| Variable | Code |
|---|---|
| `bundleOk` | The file at `localPackagePath` passes the MD5 check. |
| `percent` | `downloadListener.Percent`, in steps of `PercentStep` (50). |
| `unpacked` | The valid image files (`validateFile`) in `pkgDst`, as counted by `countImages`. |
| `rep` | The progress goroutine of the running pass: its stage and whether stop was sent. |
| `orphans` | Goroutines whose pass has returned. Each keeps that pass's `p.pkg` and its last percentage. |

| Action | Code it covers |
|---|---|
| `BCanDownload`, `BCanUnpack` | `canDownload`/`canUnpack` with `runningCondition`, which writes Running (error only logged). |
| `StartDownload` | `donwnloadPackage`: the MD5 check of an existing file, else the reporter starts. |
| `DownloadProgress`, `DownloadFails`, `DownloadSucceeds` | `Download()`: progress, the single retry after a status write, and the final error (no stop sent); on success stop is sent on the buffered channel. |
| `DownloadDone`, `UntarDone` | The success branches of `handle`: the stage Completed, written, and the pass returns; a reporter that has not exited becomes an orphan. |
| `StartUntar`, `UntarFile`, `UntarFails`, `UntarSucceeds` | `untartar`: open, reporter, one file at a time, failure without stop, success with stop. |
| `StartLoadPush`, `LoadImage` | `imagesLoadAndPush` and `imageLoad`, with the retry of the pull mode (`ImageAttemptFails`). |
| `ReporterTick`, `ReporterExit`, `OrphanTick`, `OrphanExit` | A goroutine's tick (`updateConditionProgress` and, when the value changed, `updateCRStatus` of its `p.pkg`) and its exit after stop. |
| `BFailCondition`, `BCrash` | The error branch of `handle`, and a restart that ends every goroutine. |

### Not modelled

- **Image-name conversions.** `newImageWithNewDomain`, `trimLatest` and
  `parseImageName` are string handling; images are model values.
- **Reasons and messages.** `updateConditionResion` only sets strings. Its
  status write between the two download attempts is kept.
- **Formatting and logging.**
- **Two details of the bundle push loop.**
  - In `imagesLoadAndPush`, the progress write (:748-751) sits inside the
    function that `retryutil.Retry` repeats. A failed write is therefore
    retried: the file is loaded and pushed again, and appended twice. In
    `PackageBundle` the failed write fails the stage, as it does in the pull
    mode.
  - The access error that `walkFn` returns (:712-715) is left out.

  No property checked in the bundle mode is about `ImagesPushed` or its
  count: `StagesMatchFiles` reads only the file stages, and
  `InstalledImagesPresent` only requires the listed images to be in the
  registry. A duplicate entry from the retry is an image that was pushed.

## Runs

| Run | cfg | Expect | What it shows |
|---|---|---|---|
| `reconciler` | `MC_PackageReconciler.cfg` | pass | Checks `TypeOK`, `InstalledImagesPresent`, `ImagesPushedExact`, `NoLostWakeup` and `EventuallyReady`. |
| `failed_is_sticky` | `MC_PackageReconciler_FailedIsSticky.cfg` | violation | A Failed condition is retried on the next pass. `checkStatusCanReturn` :219 says "have failed conditions, retry". Spec §4.2/§7 say a Failed stage stays Failed until the status is cleared. |
| `status_reset_lost` | `MC_PackageReconciler_StatusResetNotLost.cfg` | violation | `updateCRStatus` :316 copies the latest resourceVersion into the pass's stale copy, so a status cleared during a pass is overwritten. |
| `completed_progress` | `MC_PackageReconciler_CompletedMeansFullProgress.cfg` | violation | `setInitStatus` and the full-online `initPackageStatus(Completed)` leave progress 0 on a Completed condition. Spec §4.1 says Completed means 100. |
| `bundle` | `MC_PackageBundle.cfg` | pass | Checks `StagesMatchFiles` and `InstalledImagesPresent` in the bundle mode. |
| `bundle_conditions_refined` | `MC_PackageBundle_ConditionsRefined.cfg` | violation | A reporter that outlives its pass takes back a Completed stage. In the trace, the DownloadPackage Running write fails and the download succeeds. The Completed write then fails, and the stopped reporter becomes an orphan holding DownloadPackage Completed. The next pass reads Waiting, the orphan's tick writes Completed, and the pass's Running write takes it back. Spec §5/§9 say reporters are stopped and joined. |
| `bundle_eventually_ready` | `MC_PackageBundle_EventuallyReady.cfg` | violation | DownloadPackage Running is written, then the operator restarts. `checkStatusCanReturn` :216 returns on Running with no requeue, so the package is never reconciled again. Spec §4.6 asks for a requeue while a stage is in flight. |

The properties checked by the `reconciler` run:

- **`InstalledImagesPresent`** says every image the stored status lists as
  pushed is in the registry. It also says that when PushImage is Completed
  (outside full-online mode), every image is in the registry. The stale
  whole-status writes, retries after partial pushes, crashes and clears must
  all keep this true.
- **`ImagesPushedExact`** says that when PushImage is Completed, `ImagesPushed`
  lists each image exactly once. This depends on the list being reset when a
  stage is retried.
- **`NoLostWakeup`** says that whenever the key is idle and unqueued, the
  stored status is final or held by a Running condition. So every early return
  that leaves work undone requeued.
- **`EventuallyReady`** is the liveness property: the package reaches, and
  stays in, all-Completed.
- **`ConditionsRefined`** says the stored conditions refine
  `PackageConditions`. Every write of a pass's whole copy keeps the chain order
  and takes back no Completed stage, even though the copy is stale by the time
  it is written.

The properties checked by the `bundle` run:

- **`StagesMatchFiles`** says a stored DownloadPackage Completed implies a
  bundle that passes the MD5 check. It also says a stored UnpackPackage
  Completed implies every image file is extracted. Failed downloads, the
  retry, partial extractions, crashes, orphan writes and clears must not break
  this.
- **`InstalledImagesPresent`**, as above, for the load-and-push path.

### Bounds and why they are enough

The main run uses:

- two images, so the loop has an order and a partial state;
- `MaxAttempts = 3`, the code's retry count, so an image's retries can be
  exhausted;
- `MaxFaults = 3`, which is enough to exhaust one image's retries, or to fail
  writes at two different points of one pass;
- one crash, one status clear and one repository outage.

Each of the `reconciler` mutants listed in `PROJECT.json` is violated under
these bounds. The run reaches 47,919 distinct states at depth 31.

The `bundle` run uses:

- two image files;
- `MaxFaults = 2`, enough for a failed download followed by a failed retry, or
  a failed write plus a failed extraction;
- one crash and one clear;
- no outages, because the repository gate is the same as in the pull mode and
  is covered by the `reconciler` run;
- symmetry over the two files.

A download runs in two steps of 50%, so a reporter sees an intermediate value.
`TotalImageNum` is the code's constant 23. The run reaches about 3.9 million
distinct states in under two minutes.

The two bundle violation runs use smaller bounds that still reach their
traces.

### Fairness

Weak fairness is assumed for every step of a pass and for the `Reconcile` step
of a queued key. This matches controller-runtime's worker, which keeps taking
queued keys and runs a pass to its end, with RequeueAfter timers firing.

Two environment assumptions are also fair:

- the cluster configuration is eventually completed (`CompleteClusterConfig`);
- the image repository eventually comes back (`ImageRepositoryUp`).

Without them no package can ever progress. Crashes, clears and faults are not
fair; their counters bound them.

In the bundle mode, the steps of a pass and a transfer or extraction that is
not failing are also fair. Reporter goroutines are not fair, because nothing
in the code makes a tick happen before the pass goes on.

## Proofs

### PackageReconcilerProofs.tla

Both theorems are proved for every finite, non-empty set of images and every
value of the bounds. They rely on `ImagesAssumption` and `BoundsAssumption`.

- **`TypeCorrect`**: `Spec => []TypeOK`. The inductive invariant is `TypeInv`:
  `TypeOK` plus the fact that a running pass's copy always has its five
  conditions, because `handle` only starts on a non-empty list. The proof has
  one step per action. Lemmas cover what `updateConditionStatus`,
  `updateConditionProgress`, `initPackageStatus` and the `ImagesPushed` append
  return.
- **`ImagesPresent`**: `Spec => []InstalledImagesPresent`. The invariant is not
  inductive as it stands, because a pass's copy is written back later. The
  strengthening `ImagesInv` adds three facts:
  - the pass's copy is truthful about the registry;
  - while the push loop runs, every image already taken off `todo` is in the
    registry;
  - the registry only grows.

  A write of the copy therefore keeps the stored status truthful, and
  completing PushImage requires `todo = {}`.

### PackageRefinementProofs.tla

**`Refinement`**: `Spec => ConditionsRefined`. It holds for every finite,
non-empty image map and every value of the bounds.

The refinement mapping sends `stored` to the function from each stage to its
status, or to the empty list. Under it:

- the initial states map to `Conditions!Init`;
- every write of a whole status is a `Write`;
- a clear is a `Clear`;
- every other step is a stutter.

The inductive invariant `RInv` adds to `TypeInv`:

- the stored status is in chain order (`StoredChain`);
- a running pass's copy `mem` is in chain order (`MemChain`);
- `mem` has Completed every stage the stored status has Completed
  (`MemAhead`), because a pass starts from the stored status and only adds
  Completed stages, and a clear only empties the stored status;
- per step of the pass, what its next write sets is allowed (`PassFacts`):
  - before `CanDownload` writes DownloadPackage Completed, Init is Completed
    in `mem`;
  - in the push loop, UnpackPackage is Completed and PushImage is not;
  - before the error branch marks a stage Failed, that stage is Init or
    PushImage, it is not Completed in the stored status, and the stage after
    it is not Completed in `mem`.

The invariant is needed because a pass writes its own copy, not the stored
status. TLC checked `RInv` as an invariant of the `reconciler` instance before
the proof was written.

Lemmas cover the status each edit leaves (`UpdateChain`, `UpdateBehind`,
`InitCompletedChain`). `WriteRefines` says a write of an ordered status not
behind the stored one is an abstract `Write`. The proof has one case per
action.

The refinement holds in the pull mode only. In the bundle mode the
`bundle_conditions_refined` run shows it fails, because of orphaned reporters.

### PackageSafetyProofs.tla

Both theorems hold for every finite, non-empty image map and every value of
the bounds. Both invariants were checked by TLC as invariants of the
`reconciler` instance before they were proved.

- **`NoLostWakeupHolds`**: `Spec => []NoLostWakeup`. The inductive invariant
  is `WakeInv == RInv /\ NoLostWakeup`. Only two pass-ending steps can leave
  the key unqueued:
  - the Ready write, which leaves every stage Completed, because `mem` is in
    chain order and its PushImage is Completed (`ReadyAllCompleted`);
  - the PushImage write, which always changes the stored status. In the push
    loop PushImage is not Completed in `mem`, and `mem` is never behind the
    stored status, so the stored PushImage is not Completed either. The write
    is therefore a watch event.

  Every other return of `Reconcile` or `handle` that leaves work undone
  requeues the key.
- **`ImagesPushedExactHolds`**: `Spec => []ImagesPushedExact`. The inductive
  invariant `ExactInv` adds to `RInv`:
  - outside full-online mode, the stored status satisfies `Exact`: a status
    that claims PushImage lists every image exactly once;
  - a running pass's copy satisfies `Exact`, and a pass never runs in
    full-online mode;
  - `LoopList`: while the push loop runs, `ImagesPushed` is injective, its
    range is `Images \ todo`, its length is `Cardinality(Images \ todo)`, and
    the entry being retried is still in `todo`.

  `StartPushImages` empties the list, so the loop starts with the empty range.
  A successful push appends an image that is still in `todo`, so it is not
  listed yet (`AppendKeepsInjective`). That push removes the image from `todo`,
  and the count grows by one (`FinishEntry`, from `FS_AddElement`).
  `PushImageCompleted` requires `todo = {}`, so the length is then
  `ImagesNumber`. The other writes keep `ImagesPushed` and never set PushImage
  Completed (`UpdateKeepsClaims`, `InitCompletedClaims`). A failed attempt
  leaves the copy and `todo` alone.

### PackageBundleProofs.tla

**`StagesMatchFilesHolds`**: `BSpec => []StagesMatchFiles`. It holds for
every finite, non-empty image map and every value of the bounds. Outside
full-online mode, a stored DownloadPackage Completed means the bundle passed
its MD5 check (`bundleOk`). A stored UnpackPackage Completed means every image
file is in pkgDst (`unpacked = Images`).

`StagesMatchFiles` is not inductive as it stands. Four writers put a whole
status into `stored`:

- the pass;
- its reporter goroutine;
- the orphaned reporters of earlier passes;
- a clear.

A reporter writes the copy it holds, so that copy must be backed by the files
before it is written. `BackedBy(st, ok, files)` says a status claims a file
stage Completed only when the files are there. The inductive invariant
`BackInv` adds to the shapes (`BType`):

- outside full-online mode, `stored` is backed, and so is every orphan's copy;
- a running pass never runs in full-online mode, and its copy `mem` is backed;
- at `DownloadDone` the bundle is good, and at `UntarDone` every file is
  extracted; these are the only two steps that complete a file stage;
- in the push loop UnpackPackage is Completed in `mem`, so `countImages` is
  `ImagesNumber` when a push records its progress;
- a reporter exists only at the steps where one can still run. At
  `Downloading`, `DownloadRetry` and `Untarring` it is a live, unstopped
  reporter, so the step that stops it yields a well-formed reporter.

TLC checked `BackInv` as an invariant of the `bundle` instance before the
proof was written.

The argument rests on two facts. First, the files only grow: `bundleOk` is
only ever set, and `unpacked` only gains files (`BGrow`). Second, every edit
of a status other than the two completions claims no more file stages than
the status it edits (`ClaimsNoMoreFiles`, `UpdateClaimsNoMoreFiles`,
`ProgressEffect`, `InitCompletedFiles`, `AppendFiles`, `PushedResetEffect`).
`CompleteBacked` covers the two completions. `DetachOrphans` says an orphan
holds the pass's final status.

The step is proved in three parts, each with one case per action:

- `BTypeStep`: the shapes;
- `CtrlStep`: the pass position and its reporter;
- `BackedStep`: the statuses.

### What TLC checks but the prover does not

- **Liveness.** TLAPS cannot prove `EventuallyReady`, which needs fairness.
- **The rest of the bundle mode.** In `PackageBundle` only `StagesMatchFiles`
  is proved. `InstalledImagesPresent` there and the two bundle violations are
  model-checked only.

## Findings and hazards

`PROJECT.json` lists five findings, one per violation run. It also lists the
hazards this code is exposed to, each with the properties that cover it.

## Plan for later work

1. Prove `InstalledImagesPresent` for the bundle mode, on top of `BackInv`.
2. Model the GlobalConfig conversion round trip of `nfs.go` as pure operators.
3. State and prove an action property of the stored status, for example that
   a write never takes `ImagesPushed` back while PushImage stays Completed.
