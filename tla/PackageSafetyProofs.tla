------------------------ MODULE PackageSafetyProofs ------------------------
(***************************************************************************)
(* Proofs of NoLostWakeup and ImagesPushedExact for every value of the     *)
(* constants.  Both rest on RInv, the invariant of the refinement proof:   *)
(* a pass's copy is in chain order and never behind the stored status.     *)
(***************************************************************************)
EXTENDS PackageRefinementProofs

(***************************************************************************)
(* No lost wake-up.  An idle, unqueued key needs a stored status that is   *)
(* final or held by a Running condition.  The only steps that end a pass   *)
(* without queueing the key are writes that change nothing, and RInv shows *)
(* the write of PushImage always changes the stored status, while the      *)
(* write of Ready leaves every stage Completed.                            *)
(***************************************************************************)
WakeInv == RInv /\ NoLostWakeup

\* Completing Ready on a copy in chain order whose PushImage is Completed
\* leaves every stage Completed.
LEMMA ReadyAllCompleted ==
    ASSUME NEW st \in PackageStatus, CondsFn(st), Chain(st),
           Status(st, "PushImage") = "Completed"
    PROVE  LET u == updateConditionStatus(st, "Ready", "Completed")
           IN  HasConditions(u) /\ AllCompleted(u)
<1> DEFINE u == updateConditionStatus(st, "Ready", "Completed")
<1>1. HasConditions(u)
      /\ \A t \in Stages : Status(u, t) = IF t = "Ready" THEN "Completed" ELSE Status(st, t)
  BY UpdateConditionStatusEffect DEF Stages, Statuses
<1>2. QED
  BY <1>1 DEF Chain, AllCompleted, Stages

\* Every step keeps WakeInv.
LEMMA WakeInvStep == WakeInv /\ [Next]_vars => WakeInv'
<1> SUFFICES ASSUME RInv, NoLostWakeup, [Next]_vars PROVE WakeInv'
  BY DEF WakeInv
<1>1. RInv'
  BY RInvStep
<1> SUFFICES ASSUME pc' = "Idle", ~queued'
             PROVE  HasConditions(stored') /\ (AllCompleted(stored') \/ RunningFirst(stored'))
  BY <1>1 DEF WakeInv, NoLostWakeup
<1>0. /\ stored \in PackageStatus
      /\ pc # "Idle" => mem \in PackageStatus /\ CondsFn(mem) /\ Chain(mem)
      /\ pc # "Idle" /\ HasConditions(stored) => Behind(stored, mem)
  BY DEF RInv, TypeInv, TypeOK, MemHasConditions, MemChain, MemAhead
<1>2. CASE Reconcile
  <2>1. \/ stored' = initPackageStatus("Completed")
        \/ stored' = stored /\ HasConditions(stored) /\ checkStatusCanReturn(stored)
        \/ stored' = initPackageStatus("Waiting") /\ stored' = stored /\ ~HasConditions(stored)
    BY <1>2 DEF Reconcile, StartHandle, WriteOk, WriteFails
  <2>2. HasConditions(initPackageStatus("Completed")) /\ AllCompleted(initPackageStatus("Completed"))
        /\ HasConditions(initPackageStatus("Waiting"))
    BY InitPackageStatusType, CondsFnHasConditions DEF AllCompleted, Status, initPackageStatus, Statuses
  <2>3. QED
    BY <2>1, <2>2 DEF checkStatusCanReturn
<1>3. CASE CanPushImage
  <2>1. ~canPushImage(mem) /\ canReady(mem) /\ pc = "CanPushImage"
        /\ stored' = updateConditionStatus(mem, "Ready", "Completed")
    BY <1>3 DEF CanPushImage, StartPushImages, WriteOk, WriteFails
  <2>2. QED
    BY <1>0, <2>1, ReadyAllCompleted DEF canReady
<1>4. CASE PushImageCompleted
  <2> DEFINE m1 == updateConditionStatus(mem, "PushImage", "Completed")
  <2>1. pc = "HandleImage" /\ stored' = m1 /\ m1 = stored
    BY <1>4 DEF PushImageCompleted, WriteOk, WriteFails
  <2>2. Status(mem, "PushImage") # "Completed"
    BY <2>1 DEF RInv, PassFacts
  <2>3. HasConditions(m1) /\ Status(m1, "PushImage") = "Completed"
    BY <1>0, <2>1, UpdateConditionStatusEffect DEF Stages, Statuses
  <2>4. FALSE
    BY <1>0, <2>1, <2>2, <2>3 DEF Behind, Stages
  <2>5. QED
    BY <2>4
<1>5. CASE SetInitStatus \/ CanDownload \/ CanUnpack \/ HandleImage \/ UpdateProgress
  BY <1>5 DEF SetInitStatus, CanDownload, CanUnpack, HandleImage, UpdateProgress,
              ImagePushed, ImageAttemptFails
<1>6. CASE FailCondition \/ Crash \/ ClearStatus
  BY <1>6 DEF FailCondition, Crash, ClearStatus, WriteOk, WriteFails
<1>7. CASE CompleteClusterConfig \/ ImageRepositoryDown \/ ImageRepositoryUp \/ UNCHANGED vars
  <2>1. UNCHANGED <<pc, queued, stored>>
    BY <1>7 DEF CompleteClusterConfig, ImageRepositoryDown, ImageRepositoryUp, vars, passVars, budget
  <2>2. QED
    BY <2>1 DEF NoLostWakeup
<1>8. QED
  BY <1>2, <1>3, <1>4, <1>5, <1>6, <1>7 DEF Next, PassStep, Environment

\* Spec => []NoLostWakeup: whenever no pass runs and the key is not in the
\* work queue, the stored status is final or held by a Running condition.
\* Every early return of Reconcile and handle that leaves work undone
\* requeues, and every pass-ending write that could leave work undone
\* changes the object and so produces a watch event.
THEOREM NoLostWakeupHolds == Spec => []NoLostWakeup
<1>1. Init => WakeInv
  BY RInvInit DEF Init, WakeInv, NoLostWakeup
<1>2. QED
  BY <1>1, WakeInvStep, PTL DEF Spec, WakeInv

(***************************************************************************)
(* ImagesPushed.  While the push loop runs, the list names each finished   *)
(* entry once, and the entry being retried is still to do.  A status that *)
(* claims PushImage lists every entry once.                                *)
(***************************************************************************)
\* A status that claims PushImage lists every entry of p.images once.
Exact(st) == PushCompleted(st) => IsInjective(st.pushed) /\ Len(st.pushed) = ImagesNumber

LoopList ==
    pc \in {"HandleImage", "UpdateProgress"} =>
        /\ IsInjective(mem.pushed)
        /\ Range(mem.pushed) = Images \ todo
        /\ Len(mem.pushed) = Cardinality(Images \ todo)
        /\ cur # NoImage => cur \in todo

ExactInv ==
    /\ RInv
    /\ ~cluster.fullOnline => Exact(stored)
    /\ pc # "Idle" => Exact(mem) /\ ~cluster.fullOnline
    /\ LoopList

\* Appending an element not yet listed keeps a sequence injective.
LEMMA AppendKeepsInjective ==
    ASSUME NEW S, NEW sq \in Seq(S), NEW x \in S, IsInjective(sq), x \notin Range(sq)
    PROVE  IsInjective(Append(sq, x))
<1>1. Len(sq) \in Nat /\ DOMAIN sq = 1..Len(sq)
  OBVIOUS
<1>2. Len(Append(sq, x)) = Len(sq) + 1 /\ DOMAIN Append(sq, x) = 1..(Len(sq) + 1)
  BY AppendProperties
<1>3. \A k \in 1..Len(sq) : Append(sq, x)[k] = sq[k]
  BY AppendProperties
<1>4. Append(sq, x)[Len(sq) + 1] = x
  BY AppendProperties
<1>5. \A k \in 1..Len(sq) : sq[k] # x
  BY <1>1 DEF Range
<1>6. \A k, j \in 1..Len(sq) : sq[k] = sq[j] => k = j
  BY <1>1 DEF IsInjective
<1>7. QED
  BY <1>1, <1>2, <1>3, <1>4, <1>5, <1>6 DEF IsInjective

\* Finishing an entry of todo adds it to the finished entries, one more.
LEMMA FinishEntry ==
    ASSUME NEW T \in SUBSET Images, NEW img \in T
    PROVE  /\ Images \ (T \ {img}) = (Images \ T) \cup {img}
           /\ Cardinality(Images \ (T \ {img})) = Cardinality(Images \ T) + 1
<1>1. Images \ (T \ {img}) = (Images \ T) \cup {img}
  OBVIOUS
<1>2. IsFiniteSet(Images \ T)
  BY ImagesAssumption, FS_Subset
<1>3. QED
  BY <1>1, <1>2, FS_AddElement

\* An edit that keeps the list and claims PushImage only when the original
\* did keeps Exact.
LEMMA ExactKeep ==
    ASSUME NEW st, NEW u, Exact(st), u.pushed = st.pushed,
           PushCompleted(u) => PushCompleted(st)
    PROVE  Exact(u)
BY DEF Exact

\* Every step keeps ExactInv.
LEMMA ExactInvStep == ExactInv /\ [Next]_vars => ExactInv'
<1> SUFFICES ASSUME ExactInv, [Next]_vars PROVE ExactInv'
  OBVIOUS
<1> DEFINE FO == cluster.fullOnline
<1>0. /\ RInv /\ RInv' /\ TypeInv /\ stored \in PackageStatus
      /\ cluster'.fullOnline = FO
      /\ pc # "Idle" => mem \in PackageStatus /\ CondsFn(mem) /\ Chain(mem)
      /\ todo \subseteq Images
  BY RInvStep, RegistryGrows DEF ExactInv, RInv, TypeInv, TypeOK, MemHasConditions, MemChain
<1>1. CASE Reconcile
  <2>1. \/ stored' = stored
        \/ stored' = initPackageStatus("Completed") /\ FO
        \/ stored' = initPackageStatus("Waiting")
    BY <1>1 DEF Reconcile, StartHandle, WriteOk, WriteFails
  <2>2. pc' # "Idle" => mem' = stored /\ ~FO /\ pc' = "SetInitStatus"
    BY <1>1 DEF Reconcile, StartHandle, passVars
  <2>3. ~PushCompleted(initPackageStatus("Waiting"))
    BY DEF PushCompleted, Status, initPackageStatus, Stages
  <2>4. QED
    BY <1>0, <2>1, <2>2, <2>3 DEF ExactInv, Exact, LoopList
<1>2. CASE SetInitStatus
  <2>1. pc = "SetInitStatus" /\ pc' \in {"CanDownload", "FailCondition"}
    BY <1>2 DEF SetInitStatus
  <2> DEFINE m1 == [mem EXCEPT !.conds["Init"].status = "Completed"]
  <2>2. Exact(m1)
    <3>1. m1.pushed = mem.pushed
      BY <1>0, <2>1, InitCompletedEffect
    <3>2. PushCompleted(m1) => PushCompleted(mem)
      BY <1>0, <2>1, InitCompletedClaims
    <3>3. QED
      BY <2>1, <3>1, <3>2, ExactKeep DEF ExactInv
  <2>3. (mem' = mem \/ mem' = m1) /\ (stored' = stored \/ stored' = m1)
    BY <1>2 DEF SetInitStatus, WriteOk, WriteFails
  <2>4. QED
    BY <1>0, <2>1, <2>2, <2>3 DEF ExactInv, LoopList
<1>3. CASE CanDownload \/ CanUnpack
  <2>1. pc \in {"CanDownload", "CanUnpack"} /\ pc' \in {"CanUnpack", "CanPushImage"}
    BY <1>3 DEF CanDownload, CanUnpack
  <2>2. \E typ \in {"DownloadPackage", "UnpackPackage"} :
           /\ mem' = mem \/ mem' = updateConditionStatus(mem, typ, "Completed")
           /\ stored' = stored \/ stored' = mem'
    BY <1>3 DEF CanDownload, CanUnpack, WriteOk, WriteFails
  <2>3. PICK typ \in {"DownloadPackage", "UnpackPackage"} :
           /\ mem' = mem \/ mem' = updateConditionStatus(mem, typ, "Completed")
           /\ stored' = stored \/ stored' = mem'
    BY <2>2
  <2>4. Exact(updateConditionStatus(mem, typ, "Completed"))
    <3>1. updateConditionStatus(mem, typ, "Completed").pushed = mem.pushed
      BY <1>0, <2>1, UpdateConditionStatusEffect DEF Stages, Statuses
    <3>2. PushCompleted(updateConditionStatus(mem, typ, "Completed")) => PushCompleted(mem)
      BY <1>0, <2>1, UpdateKeepsClaims DEF Stages, Statuses
    <3>3. QED
      BY <2>1, <3>1, <3>2, ExactKeep DEF ExactInv
  <2>5. QED
    BY <1>0, <2>1, <2>3, <2>4 DEF ExactInv, LoopList
<1>4. CASE CanPushImage
  <2>1. pc = "CanPushImage"
    BY <1>4 DEF CanPushImage
  <2>2. CASE canPushImage(mem) /\ StartPushImages /\ UNCHANGED stored
    <3>1. mem'.pushed = <<>> /\ todo' = Images /\ cur' = NoImage /\ pc' = "HandleImage"
      BY <2>2 DEF StartPushImages
    <3>2. ~PushCompleted(mem')
      BY <2>2 DEF StartPushImages, canPushImage, PushCompleted, Status
    <3>3. IsInjective(<<>>) /\ Range(<<>>) = {} /\ Len(<<>>) = 0
      BY DEF IsInjective, Range
    <3>4. Images \ Images = {} /\ Cardinality({}) = 0
      BY FS_EmptySet
    <3>5. Exact(mem')
      BY <3>2 DEF Exact
    <3>6. LoopList'
      BY <3>1, <3>3, <3>4 DEF LoopList
    <3>7. ~cluster'.fullOnline
      BY <1>0, <2>1 DEF ExactInv
    <3>8. QED
      BY <1>0, <2>2, <3>1, <3>5, <3>6, <3>7 DEF ExactInv
  <2>3. CASE ~canPushImage(mem) /\ canReady(mem)
             /\ (WriteOk(updateConditionStatus(mem, "Ready", "Completed"), queued) \/ WriteFails(TRUE))
             /\ EndPass
    <3> DEFINE m1 == updateConditionStatus(mem, "Ready", "Completed")
    <3>1. m1.pushed = mem.pushed /\ (PushCompleted(m1) => PushCompleted(mem))
      BY <1>0, <2>1, UpdateConditionStatusEffect, UpdateKeepsClaims DEF Stages, Statuses
    <3>2. Exact(m1)
      BY <2>1, <3>1, ExactKeep DEF ExactInv
    <3>3. (stored' = stored \/ stored' = m1) /\ pc' = "Idle"
      BY <2>3 DEF WriteOk, WriteFails, EndPass
    <3>4. QED
      BY <1>0, <3>2, <3>3 DEF ExactInv, LoopList
  <2>4. QED
    BY <1>4, <2>2, <2>3 DEF CanPushImage
<1>5. CASE HandleImage
  <2>1. PICK img \in (IF cur = NoImage THEN todo ELSE {cur}) :
               ImagePushed(img) \/ ImageAttemptFails(img)
    BY <1>5 DEF HandleImage
  <2>2. pc = "HandleImage" /\ UNCHANGED stored /\ img \in todo /\ img \in Images
    BY <1>0, <1>5, <2>1 DEF HandleImage, ExactInv, LoopList
  <2>3. /\ IsInjective(mem.pushed) /\ Range(mem.pushed) = Images \ todo
        /\ Len(mem.pushed) = Cardinality(Images \ todo)
    BY <2>2 DEF ExactInv, LoopList
  <2>4. Status(mem, "PushImage") # "Completed"
    BY <2>2 DEF ExactInv, RInv, PassFacts
  <2>5. CASE ImagePushed(img)
    <3> DEFINE m1 == [mem EXCEPT !.pushed = Append(@, img)]
               m2 == updateConditionProgress(m1, "PushImage", (Len(m1.pushed) * 100) \div ImagesNumber)
    <3>1. mem' = m2 /\ todo' = todo \ {img} /\ cur' = NoImage
          /\ pc' \in {"UpdateProgress", "HandleImage"}
      BY <2>5 DEF ImagePushed
    <3>2. mem.pushed \in Seq(Images)
      BY <1>0, <2>2 DEF PackageStatus
    <3>3. m2.pushed = Append(mem.pushed, img)
      BY DEF updateConditionProgress
    <3>4. /\ Range(m2.pushed) = Range(mem.pushed) \cup {img}
          /\ \A t \in Stages : Status(m2, t) = Status(mem, t)
      BY <1>0, <2>2, PushedAppendEffect
    <3>5. IsInjective(m2.pushed)
      BY <2>2, <2>3, <3>2, <3>3, AppendKeepsInjective
    <3>6. Len(m2.pushed) = Cardinality(Images \ todo) + 1
      BY <2>3, <3>2, <3>3
    <3>7. /\ Images \ (todo \ {img}) = (Images \ todo) \cup {img}
          /\ Cardinality(Images \ (todo \ {img})) = Cardinality(Images \ todo) + 1
      BY <1>0, <2>2, FinishEntry
    <3>8. ~PushCompleted(m2)
      BY <2>4, <3>4 DEF PushCompleted, Stages
    <3>9. QED
      BY <1>0, <2>2, <2>3, <3>1, <3>4, <3>5, <3>6, <3>7, <3>8 DEF ExactInv, Exact, LoopList
  <2>6. CASE ImageAttemptFails(img)
    <3>1. /\ UNCHANGED <<mem, todo>>
          /\ \/ pc' = "HandleImage" /\ cur' = img
             \/ pc' = "FailCondition"
      BY <2>2, <2>6 DEF ImageAttemptFails
    <3>2. LoopList'
      BY <2>2, <2>3, <3>1 DEF LoopList
    <3>3. Exact(mem') /\ ~cluster'.fullOnline
      BY <1>0, <2>2, <3>1 DEF ExactInv
    <3>4. QED
      BY <1>0, <2>2, <3>2, <3>3 DEF ExactInv
  <2>7. QED
    BY <2>1, <2>5, <2>6
<1>6. CASE UpdateProgress
  <2>1. /\ pc = "UpdateProgress" /\ UNCHANGED <<mem, todo, cur>>
        /\ (stored' = stored \/ stored' = mem)
        /\ pc' \in {"HandleImage", "FailCondition"}
    BY <1>6 DEF UpdateProgress, WriteOk, WriteFails
  <2>2. QED
    BY <1>0, <2>1 DEF ExactInv, LoopList
<1>7. CASE PushImageCompleted
  <2> DEFINE m1 == updateConditionStatus(mem, "PushImage", "Completed")
  <2>1. pc = "HandleImage" /\ todo = {}
        /\ (stored' = stored \/ stored' = m1) /\ pc' = "Idle"
    BY <1>7 DEF PushImageCompleted, WriteOk, WriteFails, EndPass
  <2>2. IsInjective(mem.pushed) /\ Len(mem.pushed) = Cardinality(Images)
    BY <2>1 DEF ExactInv, LoopList
  <2>3. m1.pushed = mem.pushed
    BY <1>0, <2>1, UpdateConditionStatusEffect DEF Stages, Statuses
  <2>4. Exact(m1)
    BY <2>2, <2>3 DEF Exact, ImagesNumber
  <2>5. QED
    BY <1>0, <2>1, <2>4 DEF ExactInv, LoopList
<1>8. CASE FailCondition
  <2> DEFINE m1 == updateConditionStatus(mem, failStage, "Failed")
  <2>1. pc = "FailCondition" /\ failStage \in Stages
        /\ (stored' = stored \/ stored' = m1) /\ pc' = "Idle"
    BY <1>0, <1>8 DEF FailCondition, WriteOk, WriteFails, EndPass, TypeInv, TypeOK
  <2>2. m1.pushed = mem.pushed /\ (PushCompleted(m1) => PushCompleted(mem))
    BY <1>0, <2>1, UpdateConditionStatusEffect, UpdateKeepsClaims DEF Statuses
  <2>3. Exact(m1)
    BY <2>1, <2>2, ExactKeep DEF ExactInv
  <2>4. QED
    BY <1>0, <2>1, <2>3 DEF ExactInv, LoopList
<1>9. CASE Crash
  BY <1>0, <1>9 DEF Crash, EndPass, ExactInv, LoopList
<1>10. CASE ClearStatus
  <2>1. ~PushCompleted(EmptyStatus)
    BY DEF PushCompleted, HasConditions, EmptyStatus
  <2>2. QED
    BY <1>0, <1>10, <2>1 DEF ClearStatus, passVars, ExactInv, Exact, LoopList
<1>11. CASE CompleteClusterConfig \/ ImageRepositoryDown \/ ImageRepositoryUp \/ UNCHANGED vars
  <2>1. UNCHANGED <<stored, pc, mem, todo, cur>>
    BY <1>11 DEF CompleteClusterConfig, ImageRepositoryDown, ImageRepositoryUp, vars, passVars, budget
  <2>2. QED
    BY <1>0, <2>1 DEF ExactInv, LoopList
<1>12. QED
  BY <1>1, <1>2, <1>3, <1>4, <1>5, <1>6, <1>7, <1>8, <1>9, <1>10, <1>11
  DEF Next, PassStep, Environment

\* Spec => []ImagesPushedExact: when PushImage is Completed outside the
\* full-online mode, ImagesPushed names every entry of p.images exactly
\* once, whatever retries of an image, failed progress writes, restarts and
\* clears came before; imagePullAndPush empties the list whenever the
\* stage starts again, and a retried entry is appended only once.
THEOREM ImagesPushedExactHolds == Spec => []ImagesPushedExact
<1>1. Init => ExactInv
  <2>1. ASSUME Init PROVE ~PushCompleted(stored)
    BY <2>1 DEF Init, PushCompleted, HasConditions, EmptyStatus
  <2>2. QED
    BY <2>1, RInvInit DEF Init, ExactInv, Exact, LoopList
<1>2. ExactInv => ImagesPushedExact
  BY DEF ExactInv, Exact, ImagesPushedExact
<1>3. QED
  BY <1>1, <1>2, ExactInvStep, PTL DEF Spec
=============================================================================
