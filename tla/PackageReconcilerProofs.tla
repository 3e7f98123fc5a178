--------------------- MODULE PackageReconcilerProofs ----------------------
(***************************************************************************)
(* Proofs about PackageReconciler for every value of its constants.        *)
(***************************************************************************)
EXTENDS PackageReconciler, FiniteSetTheorems, SequenceTheorems, TLAPS

(***************************************************************************)
(* Lemmas on the operators that edit a status.                             *)
(***************************************************************************)
CondsFn(st) == st.conds \in [Stages -> Cond]

\* initPackageStatus builds a well-formed status with all five conditions.
LEMMA InitPackageStatusType ==
    ASSUME NEW s \in Statuses
    PROVE  /\ initPackageStatus(s) \in PackageStatus
           /\ CondsFn(initPackageStatus(s))
BY DEF initPackageStatus, PackageStatus, Cond, CondsFn, Statuses, Stages

\* updateConditionStatus keeps a status with five conditions well formed.
LEMMA UpdateConditionStatusType ==
    ASSUME NEW st \in PackageStatus, CondsFn(st), NEW typ \in Stages, NEW s \in Statuses
    PROVE  /\ updateConditionStatus(st, typ, s) \in PackageStatus
           /\ CondsFn(updateConditionStatus(st, typ, s))
<1> DEFINE c == [status   |-> s,
                 progress |-> IF s = "Completed" THEN 100 ELSE st.conds[typ].progress]
<1>1. c \in Cond
  BY DEF CondsFn, Cond
<1>2. updateConditionStatus(st, typ, s) = [st EXCEPT !.conds = [st.conds EXCEPT ![typ] = c]]
  BY DEF updateConditionStatus
<1>3. [st.conds EXCEPT ![typ] = c] \in [Stages -> Cond]
  BY <1>1 DEF CondsFn
<1>4. QED
  BY <1>2, <1>3 DEF PackageStatus, CondsFn

\* updateConditionProgress clamps any natural number into 0..100.
LEMMA UpdateConditionProgressType ==
    ASSUME NEW st \in PackageStatus, CondsFn(st), NEW typ \in Stages, NEW p \in Nat
    PROVE  /\ updateConditionProgress(st, typ, p) \in PackageStatus
           /\ CondsFn(updateConditionProgress(st, typ, p))
<1> DEFINE c == [st.conds[typ] EXCEPT !.progress = IF p > 100 THEN 100 ELSE p]
<1>1. c \in Cond
  BY DEF CondsFn, Cond
<1>2. updateConditionProgress(st, typ, p) = [st EXCEPT !.conds = [st.conds EXCEPT ![typ] = c]]
  BY DEF updateConditionProgress
<1>3. [st.conds EXCEPT ![typ] = c] \in [Stages -> Cond]
  BY <1>1 DEF CondsFn
<1>4. QED
  BY <1>2, <1>3 DEF PackageStatus, CondsFn

\* The image mapping has at least one entry, so the progress division is defined.
LEMMA ImagesNumberPositive == ImagesNumber \in Nat \ {0}
BY ImagesAssumption, FS_CardinalityType, FS_EmptySet DEF ImagesNumber

\* The status of a package that has no conditions yet is well formed.
LEMMA EmptyStatusType == EmptyStatus \in PackageStatus
BY DEF EmptyStatus, PackageStatus

\* Setting a flag of the cluster record keeps its shape.
LEMMA ClusterExceptType ==
    ASSUME NEW c \in ClusterType, NEW b \in BOOLEAN
    PROVE  /\ [c EXCEPT !.completed = b] \in ClusterType
           /\ [c EXCEPT !.repoReady = b] \in ClusterType
BY Zenon DEF ClusterType

\* Setting Init to Completed, as setInitStatus does, keeps the conditions.
LEMMA InitCompletedType ==
    ASSUME NEW st \in PackageStatus, CondsFn(st)
    PROVE  /\ [st EXCEPT !.conds["Init"].status = "Completed"] \in PackageStatus
           /\ CondsFn([st EXCEPT !.conds["Init"].status = "Completed"])
<1> DEFINE c == [st.conds["Init"] EXCEPT !.status = "Completed"]
<1>1. c \in Cond
  BY DEF CondsFn, Cond, Stages, Statuses
<1>2. [st EXCEPT !.conds["Init"].status = "Completed"] = [st EXCEPT !.conds = [st.conds EXCEPT !["Init"] = c]]
  OBVIOUS
<1>3. [st.conds EXCEPT !["Init"] = c] \in [Stages -> Cond]
  BY <1>1 DEF CondsFn
<1>4. QED
  BY <1>2, <1>3 DEF PackageStatus, CondsFn

\* imagePullAndPush empties ImagesPushed and keeps the conditions.
LEMMA PushedResetType ==
    ASSUME NEW st \in PackageStatus, CondsFn(st)
    PROVE  /\ [st EXCEPT !.pushed = <<>>] \in PackageStatus
           /\ CondsFn([st EXCEPT !.pushed = <<>>])
<1>1. st = [conds |-> st.conds, pushed |-> st.pushed]
  BY DEF PackageStatus
<1>2. [st EXCEPT !.pushed = <<>>] = [conds |-> st.conds, pushed |-> <<>>]
  BY <1>1
<1>3. <<>> \in Seq(Images)
  OBVIOUS
<1>4. QED
  BY <1>2, <1>3 DEF PackageStatus, CondsFn

\* Appending a pushed image, then writing the progress, keeps the status well formed.
LEMMA PushedAppendType ==
    ASSUME NEW st \in PackageStatus, CondsFn(st), NEW img \in Images
    PROVE  LET m1 == [st EXCEPT !.pushed = Append(@, img)]
               m2 == updateConditionProgress(m1, "PushImage", (Len(m1.pushed) * 100) \div ImagesNumber)
           IN  m2 \in PackageStatus /\ CondsFn(m2)
<1> DEFINE m1 == [st EXCEPT !.pushed = Append(@, img)]
           p1 == (Len(m1.pushed) * 100) \div ImagesNumber
<1>1. st = [conds |-> st.conds, pushed |-> st.pushed]
  BY DEF PackageStatus
<1>2. m1 = [conds |-> st.conds, pushed |-> Append(st.pushed, img)]
  BY <1>1
<1>3. Append(st.pushed, img) \in Seq(Images)
  BY DEF PackageStatus
<1>4. m1 \in PackageStatus /\ CondsFn(m1)
  BY <1>2, <1>3 DEF PackageStatus, CondsFn
<1>5. Len(m1.pushed) \in Nat
  BY <1>2, <1>3
<1>6. p1 \in Nat
  <2>1. Len(m1.pushed) * 100 \in Nat
    BY <1>5
  <2>2. \A x \in Nat, n \in Nat \ {0} : x \div n \in Nat
    OBVIOUS
  <2>3. QED
    BY <2>1, <2>2, ImagesNumberPositive
<1>7. QED
  BY <1>4, <1>6, UpdateConditionProgressType DEF Stages

(***************************************************************************)
(* Type correctness.  TypeOK alone is not inductive: the steps of a pass   *)
(* edit the five conditions of mem, so mem must hold them whenever a pass  *)
(* runs.                                                                   *)
(***************************************************************************)
MemHasConditions == pc # "Idle" => CondsFn(mem)

TypeInv == TypeOK /\ MemHasConditions

\* The initial states satisfy the strengthened type invariant.
LEMMA TypeInvInit == Init => TypeInv
<1> SUFFICES ASSUME Init PROVE TypeInv
  OBVIOUS
<1>1. EmptyStatus \in PackageStatus
  BY DEF EmptyStatus, PackageStatus
<1>2. cluster \in ClusterType
  BY DEF Init, ClusterType
<1>3. QED
  BY <1>1, <1>2, BoundsAssumption
  DEF Init, TypeInv, TypeOK, MemHasConditions, PassPcs, Stages

\* Every step of the reconciler and its environment keeps the strengthened
\* type invariant: each action assigns values of the declared shapes.
LEMMA TypeInvStep == TypeInv /\ [Next]_vars => TypeInv'
<1> SUFFICES ASSUME TypeInv, [Next]_vars PROVE TypeInv'
  OBVIOUS
<1>. USE BoundsAssumption, ImagesAssumption DEF TypeInv, TypeOK, MemHasConditions, envVars, passVars, budget
<1>1. CASE Reconcile
  <2>1. stored' \in PackageStatus
    BY <1>1, InitPackageStatusType DEF Reconcile, StartHandle, WriteOk, WriteFails, Statuses
  <2>2. queued' \in BOOLEAN
    BY <1>1 DEF Reconcile, StartHandle, WriteOk, WriteFails
  <2>3. faults' \in 0..MaxFaults
    BY <1>1 DEF Reconcile, StartHandle, WriteOk, WriteFails
  <2>4. pc' \in PassPcs
    BY <1>1 DEF Reconcile, StartHandle, PassPcs
  <2>5. pc' # "Idle" => mem' = stored /\ HasConditions(stored)
    BY <1>1 DEF Reconcile, StartHandle
  <2>6. HasConditions(stored) => CondsFn(stored)
    BY DEF HasConditions, PackageStatus, CondsFn
  <2>7. mem' \in PackageStatus
    BY <1>1 DEF Reconcile, StartHandle
  <2>8. UNCHANGED <<cluster, local, registry, todo, cur, attempts, failStage,
                    crashes, resets, outages>>
    BY <1>1 DEF Reconcile, StartHandle
  <2>9. QED
    BY <2>1, <2>2, <2>3, <2>4, <2>5, <2>6, <2>7, <2>8
<1>2. CASE SetInitStatus
  <2>1. CondsFn(mem)
    BY <1>2 DEF SetInitStatus
  <2>2. /\ [mem EXCEPT !.conds["Init"].status = "Completed"] \in PackageStatus
        /\ CondsFn([mem EXCEPT !.conds["Init"].status = "Completed"])
    BY <2>1, InitCompletedType
  <2>3. mem' \in PackageStatus /\ CondsFn(mem') /\ stored' \in PackageStatus
    BY <1>2, <2>1, <2>2 DEF SetInitStatus, WriteOk, WriteFails
  <2>4. queued' \in BOOLEAN
    BY <1>2, Zenon DEF SetInitStatus, WriteOk, WriteFails
  <2>8. faults' \in 0..MaxFaults
    BY <1>2 DEF SetInitStatus, WriteOk, WriteFails
  <2>5. pc' \in PassPcs /\ failStage' \in Stages
    BY <1>2 DEF SetInitStatus, WriteOk, WriteFails, PassPcs, Stages
  <2>6. UNCHANGED <<cluster, local, registry, todo, cur, attempts, crashes, resets, outages>>
    BY <1>2 DEF SetInitStatus
  <2>7. QED
    BY <2>3, <2>4, <2>5, <2>6, <2>8
<1>3. CASE CanDownload
  <2>1. CondsFn(mem)
    BY <1>3 DEF CanDownload
  <2>2. /\ updateConditionStatus(mem, "DownloadPackage", "Completed") \in PackageStatus
        /\ CondsFn(updateConditionStatus(mem, "DownloadPackage", "Completed"))
    BY <2>1, UpdateConditionStatusType DEF Stages, Statuses
  <2>3. mem' \in PackageStatus /\ CondsFn(mem') /\ stored' \in PackageStatus
    BY <1>3, <2>1, <2>2 DEF CanDownload, WriteOk, WriteFails
  <2>4. queued' \in BOOLEAN
    BY <1>3, Zenon DEF CanDownload, WriteOk, WriteFails
  <2>8. faults' \in 0..MaxFaults
    BY <1>3 DEF CanDownload, WriteOk, WriteFails
  <2>5. pc' \in PassPcs
    BY <1>3 DEF CanDownload, PassPcs
  <2>6. UNCHANGED <<cluster, local, registry, todo, cur, attempts, failStage,
                    crashes, resets, outages>>
    BY <1>3 DEF CanDownload
  <2>7. QED
    BY <2>3, <2>4, <2>5, <2>6, <2>8
<1>4. CASE CanUnpack
  <2>1. CondsFn(mem)
    BY <1>4 DEF CanUnpack
  <2>2. /\ updateConditionStatus(mem, "UnpackPackage", "Completed") \in PackageStatus
        /\ CondsFn(updateConditionStatus(mem, "UnpackPackage", "Completed"))
    BY <2>1, UpdateConditionStatusType DEF Stages, Statuses
  <2>3. mem' \in PackageStatus /\ CondsFn(mem') /\ stored' \in PackageStatus
    BY <1>4, <2>1, <2>2 DEF CanUnpack, WriteOk, WriteFails
  <2>4. queued' \in BOOLEAN
    BY <1>4, Zenon DEF CanUnpack, WriteOk, WriteFails
  <2>8. faults' \in 0..MaxFaults
    BY <1>4 DEF CanUnpack, WriteOk, WriteFails
  <2>5. pc' \in PassPcs
    BY <1>4 DEF CanUnpack, PassPcs
  <2>6. UNCHANGED <<cluster, local, registry, todo, cur, attempts, failStage,
                    crashes, resets, outages>>
    BY <1>4 DEF CanUnpack
  <2>7. QED
    BY <2>3, <2>4, <2>5, <2>6, <2>8
<1>5. CASE CanPushImage
  <2>1. CondsFn(mem)
    BY <1>5 DEF CanPushImage
  <2>2. /\ [mem EXCEPT !.pushed = <<>>] \in PackageStatus
        /\ CondsFn([mem EXCEPT !.pushed = <<>>])
    BY <2>1, PushedResetType
  <2>3. updateConditionStatus(mem, "Ready", "Completed") \in PackageStatus
    BY <2>1, UpdateConditionStatusType DEF Stages, Statuses
  <2>4. /\ mem' \in PackageStatus /\ (pc' # "Idle" => CondsFn(mem'))
        /\ stored' \in PackageStatus
    BY <1>5, <2>2, <2>3, EmptyStatusType DEF CanPushImage, StartPushImages, EndPass, WriteOk, WriteFails
  <2>5. queued' \in BOOLEAN
    BY <1>5, Zenon DEF CanPushImage, WriteOk, WriteFails
  <2>6. faults' \in 0..MaxFaults
    BY <1>5 DEF CanPushImage, WriteOk, WriteFails
  <2>7. /\ pc' \in PassPcs /\ failStage' \in Stages /\ todo' \subseteq Images
        /\ cur' \in Images \cup {NoImage}
    BY <1>5 DEF CanPushImage, StartPushImages, EndPass, PassPcs, Stages
  <2>10. attempts' \in 0..(MaxAttempts - 1)
    <3>1. attempts' = 0
      BY <1>5, Zenon DEF CanPushImage, StartPushImages, EndPass
    <3>2. QED
      BY <3>1
  <2>8. UNCHANGED <<cluster, local, registry, crashes, resets, outages>>
    BY <1>5 DEF CanPushImage
  <2>9. QED
    BY <2>4, <2>5, <2>6, <2>7, <2>8, <2>10
<1>6. CASE HandleImage
  <2>1. PICK img \in (IF cur = NoImage THEN todo ELSE {cur}) :
               ImagePushed(img) \/ ImageAttemptFails(img)
    BY <1>6 DEF HandleImage
  <2>2. img \in Images
    BY <2>1
  <2>3. CondsFn(mem) /\ pc = "HandleImage"
    BY <1>6 DEF HandleImage
  <2>4. UNCHANGED <<cluster, stored, queued, crashes, resets, outages>>
    BY <1>6 DEF HandleImage
  <2>5. CASE ImagePushed(img)
    <3>1. mem' \in PackageStatus /\ CondsFn(mem')
      BY <2>2, <2>3, <2>5, PushedAppendType DEF ImagePushed
    <3>2. QED
      BY <2>2, <2>4, <2>5, <3>1 DEF ImagePushed, PassPcs, imagePull, imagePush, checkIfImageExists
  <2>6. CASE ImageAttemptFails(img)
    <3>1. local' \subseteq Images /\ registry' \subseteq Images
      BY <2>2, <2>6 DEF ImageAttemptFails, FailOutcomes
    <3>2. faults' \in 0..MaxFaults /\ attempts' \in 0..(MaxAttempts - 1)
      BY <2>6 DEF ImageAttemptFails
    <3>3. /\ pc' \in PassPcs \ {"Idle"} /\ failStage' \in Stages /\ todo' \subseteq Images
          /\ cur' \in Images \cup {NoImage} /\ mem' = mem
      <4>1. CASE attempts + 1 < MaxAttempts
        BY <2>2, <2>3, <2>6, <4>1 DEF ImageAttemptFails, PassPcs, Stages
      <4>2. CASE ~(attempts + 1 < MaxAttempts)
        BY <2>2, <2>6, <4>2 DEF ImageAttemptFails, PassPcs, Stages
      <4>3. QED
        BY <4>1, <4>2
    <3>4. QED
      BY <2>3, <2>4, <3>1, <3>2, <3>3
  <2>7. QED
    BY <2>1, <2>5, <2>6
<1>7. CASE UpdateProgress
  <2>1. stored' \in PackageStatus
    BY <1>7 DEF UpdateProgress, WriteOk, WriteFails
  <2>2. queued' \in BOOLEAN
    <3>1. queued' = (queued \/ mem # stored) \/ queued' = queued
      BY <1>7 DEF UpdateProgress, WriteOk, WriteFails
    <3>2. QED
      BY <3>1
  <2>3. faults' \in 0..MaxFaults
    BY <1>7 DEF UpdateProgress, WriteOk, WriteFails
  <2>4. pc' \in PassPcs \ {"Idle"} /\ failStage' \in Stages
    BY <1>7 DEF UpdateProgress, WriteOk, WriteFails, PassPcs, Stages
  <2>5. UNCHANGED <<cluster, local, registry, mem, todo, cur, attempts, crashes, resets, outages>>
    BY <1>7 DEF UpdateProgress
  <2>6. CondsFn(mem)
    BY <1>7 DEF UpdateProgress
  <2>7. QED
    BY <2>1, <2>2, <2>3, <2>4, <2>5, <2>6
<1>8. CASE PushImageCompleted
  <2>1. CondsFn(mem)
    BY <1>8 DEF PushImageCompleted
  <2>2. updateConditionStatus(mem, "PushImage", "Completed") \in PackageStatus
    BY <2>1, UpdateConditionStatusType DEF Stages, Statuses
  <2>3. mem' \in PackageStatus /\ stored' \in PackageStatus /\ pc' = "Idle"
    BY <1>8, <2>2, EmptyStatusType DEF PushImageCompleted, EndPass, WriteOk, WriteFails
  <2>4. queued' \in BOOLEAN
    BY <1>8, Zenon DEF PushImageCompleted, WriteOk, WriteFails
  <2>5. faults' \in 0..MaxFaults
    BY <1>8 DEF PushImageCompleted, WriteOk, WriteFails
  <2>6. /\ failStage' \in Stages /\ todo' \subseteq Images
        /\ cur' \in Images \cup {NoImage} /\ attempts' \in 0..(MaxAttempts - 1)
    BY <1>8 DEF PushImageCompleted, EndPass, Stages
  <2>7. UNCHANGED <<cluster, local, registry, crashes, resets, outages>>
    BY <1>8 DEF PushImageCompleted
  <2>8. QED
    BY <2>3, <2>4, <2>5, <2>6, <2>7 DEF PassPcs
<1>9. CASE FailCondition
  <2>1. CondsFn(mem)
    BY <1>9 DEF FailCondition
  <2>2. updateConditionStatus(mem, failStage, "Failed") \in PackageStatus
    BY <2>1, UpdateConditionStatusType DEF Stages, Statuses
  <2>3. mem' \in PackageStatus /\ stored' \in PackageStatus /\ pc' = "Idle"
    BY <1>9, <2>2, EmptyStatusType DEF FailCondition, EndPass, WriteOk, WriteFails
  <2>4. queued' \in BOOLEAN
    BY <1>9, Zenon DEF FailCondition, WriteOk, WriteFails
  <2>5. faults' \in 0..MaxFaults
    BY <1>9 DEF FailCondition, WriteOk, WriteFails
  <2>6. /\ failStage' \in Stages /\ todo' \subseteq Images
        /\ cur' \in Images \cup {NoImage} /\ attempts' \in 0..(MaxAttempts - 1)
    BY <1>9 DEF FailCondition, EndPass, Stages
  <2>7. UNCHANGED <<cluster, local, registry, crashes, resets, outages>>
    BY <1>9 DEF FailCondition
  <2>8. QED
    BY <2>3, <2>4, <2>5, <2>6, <2>7 DEF PassPcs
<1>10. CASE Crash
  BY <1>10, EmptyStatusType DEF Crash, EndPass, PassPcs, Stages
<1>11. CASE ClearStatus
  BY <1>11, EmptyStatusType DEF ClearStatus, passVars, envVars
<1>12. CASE CompleteClusterConfig
  <2>1. cluster' \in ClusterType
    BY <1>12, ClusterExceptType DEF CompleteClusterConfig
  <2>2. UNCHANGED <<stored, queued, local, registry, pc, mem, todo, cur, attempts,
                    failStage, faults, crashes, resets, outages>>
    BY <1>12 DEF CompleteClusterConfig, passVars, budget
  <2>3. QED
    BY <2>1, <2>2
<1>13. CASE ImageRepositoryDown
  <2>1. cluster' \in ClusterType
    BY <1>13, ClusterExceptType DEF ImageRepositoryDown
  <2>2. outages' \in 0..MaxOutages
    BY <1>13 DEF ImageRepositoryDown
  <2>3. UNCHANGED <<stored, queued, local, registry, pc, mem, todo, cur, attempts,
                    failStage, faults, crashes, resets>>
    BY <1>13 DEF ImageRepositoryDown, passVars
  <2>4. QED
    BY <2>1, <2>2, <2>3
<1>14. CASE ImageRepositoryUp
  <2>1. cluster' \in ClusterType
    BY <1>14, ClusterExceptType DEF ImageRepositoryUp
  <2>2. UNCHANGED <<stored, queued, local, registry, pc, mem, todo, cur, attempts,
                    failStage, faults, crashes, resets, outages>>
    BY <1>14 DEF ImageRepositoryUp, passVars, budget
  <2>3. QED
    BY <2>1, <2>2
<1>15. CASE UNCHANGED vars
  BY <1>15 DEF vars
<1>16. QED
  BY <1>1, <1>2, <1>3, <1>4, <1>5, <1>6, <1>7, <1>8, <1>9, <1>10, <1>11, <1>12,
     <1>13, <1>14, <1>15 DEF Next, PassStep, Environment

\* Spec => []TypeOK: every variable keeps the shape the code gives it.
THEOREM TypeCorrect == Spec => []TypeOK
<1>1. Init => TypeInv
  BY TypeInvInit
<1>2. TypeInv /\ [Next]_vars => TypeInv'
  BY TypeInvStep
<1>3. QED
  BY <1>1, <1>2, PTL DEF Spec, TypeInv

(***************************************************************************)
(* What the registry holds.  InstalledImagesPresent is not inductive: a    *)
(* pass writes its own copy mem, so mem must already say only true things  *)
(* about the registry, and while the push loop runs every entry it has     *)
(* finished must be in the registry.  The registry only grows and the      *)
(* install mode never changes, so facts about it stay true.                *)
(***************************************************************************)

\* A status that holds the five conditions is not the empty list.
LEMMA CondsFnHasConditions ==
    ASSUME NEW st, CondsFn(st)
    PROVE  HasConditions(st)
<1>1. DOMAIN st.conds = Stages /\ DOMAIN NoConditions = {}
  BY DEF CondsFn, NoConditions
<1>2. Stages # {}
  BY DEF Stages
<1>3. QED
  BY <1>1, <1>2 DEF HasConditions

\* updateConditionStatus changes the status of its own condition only.
LEMMA UpdateConditionStatusEffect ==
    ASSUME NEW st \in PackageStatus, CondsFn(st), NEW typ \in Stages, NEW s \in Statuses
    PROVE  LET u == updateConditionStatus(st, typ, s)
           IN  /\ u.pushed = st.pushed
               /\ HasConditions(u)
               /\ \A t \in Stages : Status(u, t) = IF t = typ THEN s ELSE Status(st, t)
<1>1. updateConditionStatus(st, typ, s).pushed = st.pushed
  BY DEF updateConditionStatus
<1>2. HasConditions(updateConditionStatus(st, typ, s))
  BY UpdateConditionStatusType, CondsFnHasConditions
<1>3. \A t \in Stages : Status(updateConditionStatus(st, typ, s), t)
                        = IF t = typ THEN s ELSE Status(st, t)
  BY DEF updateConditionStatus, Status, CondsFn
<1>4. QED
  BY <1>1, <1>2, <1>3

\* The progress write of the push loop changes no status and keeps the list.
LEMMA PushedAppendEffect ==
    ASSUME NEW st \in PackageStatus, CondsFn(st), NEW img \in Images
    PROVE  LET m1 == [st EXCEPT !.pushed = Append(@, img)]
               m2 == updateConditionProgress(m1, "PushImage", (Len(m1.pushed) * 100) \div ImagesNumber)
           IN  /\ Range(m2.pushed) = Range(st.pushed) \cup {img}
               /\ \A t \in Stages : Status(m2, t) = Status(st, t)
<1> DEFINE m1 == [st EXCEPT !.pushed = Append(@, img)]
           m2 == updateConditionProgress(m1, "PushImage", (Len(m1.pushed) * 100) \div ImagesNumber)
<1>1. st.pushed \in Seq(Images)
  BY DEF PackageStatus
<1>2. m2.pushed = Append(st.pushed, img)
  BY DEF updateConditionProgress
<1>3. Range(Append(st.pushed, img)) = Range(st.pushed) \cup {img}
  <2> DEFINE sq == st.pushed
             ap == Append(sq, img)
  <2>1. /\ ap \in Seq(Images) /\ Len(ap) = Len(sq) + 1
        /\ \A i \in 1..Len(sq) : ap[i] = sq[i]
        /\ ap[Len(sq) + 1] = img
    BY <1>1, AppendProperties
  <2>2. DOMAIN ap = 1..(Len(sq) + 1) /\ DOMAIN sq = 1..Len(sq) /\ Len(sq) \in Nat
    BY <1>1, <2>1
  <2>3. Range(ap) \subseteq Range(sq) \cup {img}
    BY <2>1, <2>2 DEF Range
  <2>4. Range(sq) \cup {img} \subseteq Range(ap)
    BY <2>1, <2>2 DEF Range
  <2>5. QED
    BY <2>3, <2>4
<1>4. \A t \in Stages : Status(m2, t) = Status(st, t)
  BY DEF updateConditionProgress, Status, CondsFn
<1>5. QED
  BY <1>2, <1>3, <1>4

\* setInitStatus changes the status of Init only.
LEMMA InitCompletedEffect ==
    ASSUME NEW st \in PackageStatus, CondsFn(st)
    PROVE  LET u == [st EXCEPT !.conds["Init"].status = "Completed"]
           IN  /\ u.pushed = st.pushed
               /\ \A t \in Stages \ {"Init"} : Status(u, t) = Status(st, t)
BY DEF Status, CondsFn, Stages


\* A status says only true things about the registry reg (fo: full-online).
Truthful(st, reg, fo) ==
    /\ Range(st.pushed) \subseteq reg
    /\ (PushCompleted(st) /\ ~fo) => Images \subseteq reg

\* The pass's copy is as truthful as the stored status.
MemImagesPresent == pc # "Idle" => Truthful(mem, registry, cluster.fullOnline)

\* Every entry the push loop has finished is in the registry.
LoopImagesPresent ==
    pc \in {"HandleImage", "UpdateProgress"} => Images \ todo \subseteq registry

ImagesInv ==
    /\ TypeInv
    /\ Truthful(stored, registry, cluster.fullOnline)
    /\ MemImagesPresent
    /\ LoopImagesPresent

\* A status that lists no more images and claims no more than a truthful one,
\* checked against a registry that holds no less, is truthful.
LEMMA TruthfulWeaken ==
    ASSUME NEW st, NEW st2, NEW r, NEW r2, NEW fo,
           Truthful(st, r, fo), r \subseteq r2,
           Range(st2.pushed) \subseteq Range(st.pushed),
           PushCompleted(st2) => PushCompleted(st)
    PROVE  Truthful(st2, r2, fo)
BY DEF Truthful

\* The statuses Reconcile writes from scratch are truthful.
LEMMA FreshStatusTruthful ==
    ASSUME NEW r, NEW fo
    PROVE  /\ Truthful(EmptyStatus, r, fo)
           /\ Truthful(initPackageStatus("Waiting"), r, fo)
           /\ Truthful(initPackageStatus("Completed"), r, TRUE)
<1>1. Range(<<>>) = {}
  BY DEF Range
<1>2. ~PushCompleted(EmptyStatus)
  BY DEF PushCompleted, HasConditions, EmptyStatus
<1>3. ~PushCompleted(initPackageStatus("Waiting"))
  BY DEF PushCompleted, Status, initPackageStatus, Stages
<1>4. QED
  BY <1>1, <1>2, <1>3 DEF Truthful, EmptyStatus, initPackageStatus

\* Marking a condition other than PushImage neither adds images nor claims
\* PushImage; marking PushImage Failed withdraws the claim.
LEMMA UpdateKeepsClaims ==
    ASSUME NEW st \in PackageStatus, CondsFn(st), NEW typ \in Stages, NEW s \in Statuses,
           typ # "PushImage" \/ s # "Completed"
    PROVE  LET u == updateConditionStatus(st, typ, s)
           IN  /\ Range(u.pushed) \subseteq Range(st.pushed)
               /\ PushCompleted(u) => PushCompleted(st)
<1>1. /\ updateConditionStatus(st, typ, s).pushed = st.pushed
      /\ Status(updateConditionStatus(st, typ, s), "PushImage")
           = IF typ = "PushImage" THEN s ELSE Status(st, "PushImage")
  BY UpdateConditionStatusEffect DEF Stages
<1>2. HasConditions(st)
  BY CondsFnHasConditions
<1>3. QED
  BY <1>1, <1>2 DEF PushCompleted


\* setInitStatus neither adds images nor claims PushImage.
LEMMA InitCompletedClaims ==
    ASSUME NEW st \in PackageStatus, CondsFn(st)
    PROVE  LET u == [st EXCEPT !.conds["Init"].status = "Completed"]
           IN  /\ Range(u.pushed) \subseteq Range(st.pushed)
               /\ PushCompleted(u) => PushCompleted(st)
<1>1. HasConditions(st)
  BY CondsFnHasConditions
<1>2. QED
  BY <1>1, InitCompletedEffect DEF PushCompleted, Stages

\* imagePullAndPush empties ImagesPushed and changes no status.
LEMMA PushedResetClaims ==
    ASSUME NEW st \in PackageStatus, CondsFn(st)
    PROVE  LET u == [st EXCEPT !.pushed = <<>>]
           IN  /\ Range(u.pushed) = {}
               /\ PushCompleted(u) => PushCompleted(st)
BY DEF Range, PushCompleted, HasConditions, Status, PackageStatus

\* Setting a flag of the cluster record leaves the install mode alone.
LEMMA ClusterExceptFullOnline ==
    ASSUME NEW c \in ClusterType, NEW b \in BOOLEAN
    PROVE  /\ [c EXCEPT !.completed = b].fullOnline = c.fullOnline
           /\ [c EXCEPT !.repoReady = b].fullOnline = c.fullOnline
BY Zenon DEF ClusterType

\* The initial states satisfy ImagesInv.
LEMMA ImagesInvInit == Init => ImagesInv
<1> SUFFICES ASSUME Init PROVE ImagesInv
  OBVIOUS
<1>1. TypeInv
  BY TypeInvInit
<1>2. Truthful(stored, registry, cluster.fullOnline)
  BY FreshStatusTruthful DEF Init
<1>3. QED
  BY <1>1, <1>2 DEF Init, ImagesInv, MemImagesPresent, LoopImagesPresent

\* The registry only grows and the install mode never changes.
LEMMA RegistryGrows ==
    ASSUME TypeInv, [Next]_vars
    PROVE  registry \subseteq registry' /\ cluster'.fullOnline = cluster.fullOnline
<1>. USE DEF TypeInv, TypeOK
<1>1. CASE HandleImage
  <2>1. PICK img \in Images : ImagePushed(img) \/ ImageAttemptFails(img)
    BY <1>1 DEF HandleImage
  <2>2. registry \subseteq registry'
    BY <2>1 DEF ImagePushed, ImageAttemptFails, FailOutcomes, imagePush, imagePull, checkIfImageExists
  <2>3. QED
    BY <1>1, <2>2 DEF HandleImage
<1>2. CASE CompleteClusterConfig
  BY <1>2, ClusterExceptFullOnline DEF CompleteClusterConfig
<1>3. CASE ImageRepositoryDown
  BY <1>3, ClusterExceptFullOnline DEF ImageRepositoryDown
<1>4. CASE ImageRepositoryUp
  BY <1>4, ClusterExceptFullOnline DEF ImageRepositoryUp
<1>5. CASE Reconcile \/ SetInitStatus \/ CanDownload \/ CanUnpack \/ CanPushImage
            \/ UpdateProgress \/ PushImageCompleted \/ FailCondition \/ Crash \/ ClearStatus
  BY <1>5 DEF Reconcile, SetInitStatus, CanDownload, CanUnpack, CanPushImage,
              UpdateProgress, PushImageCompleted, FailCondition, Crash, ClearStatus, envVars
<1>6. CASE UNCHANGED vars
  BY <1>6 DEF vars
<1>7. QED
  BY <1>1, <1>2, <1>3, <1>4, <1>5, <1>6 DEF Next, PassStep, Environment


\* Every step keeps ImagesInv.  One case per action; in each, the stored
\* status, the pass's copy and the loop's finished entries.
LEMMA ImagesInvStep == ImagesInv /\ [Next]_vars => ImagesInv'
<1> SUFFICES ASSUME ImagesInv, [Next]_vars PROVE ImagesInv'
  OBVIOUS
<1> DEFINE FO == cluster.fullOnline
<1>1. TypeInv /\ TypeInv'
  BY TypeInvStep DEF ImagesInv
<1>2. registry \subseteq registry' /\ cluster'.fullOnline = FO
  BY <1>1, RegistryGrows
<1>3. Truthful(stored, registry', FO)
  BY <1>2, TruthfulWeaken DEF ImagesInv
<1>4. pc # "Idle" => Truthful(mem, registry', FO) /\ CondsFn(mem)
  BY <1>2, TruthfulWeaken DEF ImagesInv, MemImagesPresent, TypeInv, MemHasConditions
<1>5. mem \in PackageStatus
  BY <1>1 DEF TypeInv, TypeOK
<1>6. SUFFICES /\ Truthful(stored', registry', FO)
               /\ pc' # "Idle" => Truthful(mem', registry', FO)
               /\ pc' \in {"HandleImage", "UpdateProgress"} => Images \ todo' \subseteq registry'
  BY <1>1, <1>2 DEF ImagesInv, MemImagesPresent, LoopImagesPresent
<1>7. CASE Reconcile
  <2>1. \/ stored' = stored
        \/ stored' = initPackageStatus("Waiting")
        \/ stored' = initPackageStatus("Completed") /\ FO
    BY <1>7 DEF Reconcile, StartHandle, WriteOk, WriteFails
  <2>2. Truthful(stored', registry', FO)
    BY <1>3, <2>1, FreshStatusTruthful
  <2>3. pc' # "Idle" => mem' = stored
    BY <1>7 DEF Reconcile, StartHandle, passVars
  <2>4. pc' \notin {"HandleImage", "UpdateProgress"}
    BY <1>7 DEF Reconcile, StartHandle, passVars
  <2>5. QED
    BY <1>3, <2>2, <2>3, <2>4
<1>8. CASE SetInitStatus
  <2> DEFINE m1 == [mem EXCEPT !.conds["Init"].status = "Completed"]
  <2>1. pc = "SetInitStatus"
    BY <1>8 DEF SetInitStatus
  <2>2. Truthful(m1, registry', FO)
    BY <1>4, <1>5, <2>1, InitCompletedClaims, TruthfulWeaken
  <2>3. (stored' = stored \/ stored' = m1) /\ (mem' = mem \/ mem' = m1)
    BY <1>8 DEF SetInitStatus, WriteOk, WriteFails
  <2>4. pc' \in {"CanDownload", "FailCondition"}
    BY <1>8 DEF SetInitStatus
  <2>5. QED
    BY <1>3, <1>4, <2>1, <2>2, <2>3, <2>4
<1>9. CASE CanDownload
  <2> DEFINE u == updateConditionStatus(mem, "DownloadPackage", "Completed")
  <2>1. pc = "CanDownload"
    BY <1>9 DEF CanDownload
  <2>2. Truthful(u, registry', FO)
    BY <1>4, <1>5, <2>1, UpdateKeepsClaims, TruthfulWeaken DEF Stages, Statuses
  <2>3. (stored' = stored \/ stored' = u) /\ (mem' = mem \/ mem' = u)
    BY <1>9 DEF CanDownload, WriteOk, WriteFails
  <2>4. pc' = "CanUnpack"
    BY <1>9 DEF CanDownload
  <2>5. QED
    BY <1>3, <1>4, <2>1, <2>2, <2>3, <2>4
<1>10. CASE CanUnpack
  <2> DEFINE u == updateConditionStatus(mem, "UnpackPackage", "Completed")
  <2>1. pc = "CanUnpack"
    BY <1>10 DEF CanUnpack
  <2>2. Truthful(u, registry', FO)
    BY <1>4, <1>5, <2>1, UpdateKeepsClaims, TruthfulWeaken DEF Stages, Statuses
  <2>3. (stored' = stored \/ stored' = u) /\ (mem' = mem \/ mem' = u)
    BY <1>10 DEF CanUnpack, WriteOk, WriteFails
  <2>4. pc' = "CanPushImage"
    BY <1>10 DEF CanUnpack
  <2>5. QED
    BY <1>3, <1>4, <2>1, <2>2, <2>3, <2>4
<1>11. CASE CanPushImage
  <2>1. pc = "CanPushImage"
    BY <1>11 DEF CanPushImage
  <2>2. CASE StartPushImages /\ UNCHANGED <<stored, queued, faults, failStage>>
    <3>1. Truthful([mem EXCEPT !.pushed = <<>>], registry', FO)
      BY <1>4, <1>5, <2>1, PushedResetClaims, TruthfulWeaken
    <3>2. QED
      BY <1>3, <2>2, <3>1 DEF StartPushImages
  <2>3. CASE /\ WriteOk(updateConditionStatus(mem, "Ready", "Completed"), queued) \/ WriteFails(TRUE)
             /\ EndPass
    <3>1. Truthful(updateConditionStatus(mem, "Ready", "Completed"), registry', FO)
      BY <1>4, <1>5, <2>1, UpdateKeepsClaims, TruthfulWeaken DEF Stages, Statuses
    <3>2. QED
      BY <1>3, <2>3, <3>1 DEF WriteOk, WriteFails, EndPass
  <2>4. QED
    BY <1>11, <2>2, <2>3 DEF CanPushImage
<1>12. CASE HandleImage
  <2>1. pc = "HandleImage" /\ UNCHANGED stored
    BY <1>12 DEF HandleImage
  <2>2. PICK img \in (IF cur = NoImage THEN todo ELSE {cur}) :
               ImagePushed(img) \/ ImageAttemptFails(img)
    BY <1>12 DEF HandleImage
  <2>3. img \in Images
    BY <1>1, <2>2 DEF TypeInv, TypeOK
  <2>4. Images \ todo \subseteq registry
    BY <2>1 DEF ImagesInv, LoopImagesPresent
  <2>5. CASE ImagePushed(img)
    <3>1. img \in registry' /\ todo' = todo \ {img}
      BY <2>5 DEF ImagePushed, imagePush
    <3>2. /\ Range(mem'.pushed) = Range(mem.pushed) \cup {img}
          /\ \A t \in Stages : Status(mem', t) = Status(mem, t)
      BY <1>4, <1>5, <2>1, <2>3, <2>5, PushedAppendEffect DEF ImagePushed
    <3>3. PushCompleted(mem') => PushCompleted(mem)
      BY <1>4, <2>1, <3>2, CondsFnHasConditions DEF PushCompleted, Stages
    <3>4. Truthful(mem', registry', FO)
      BY <1>4, <2>1, <3>1, <3>2, <3>3 DEF Truthful
    <3>5. QED
      BY <1>2, <1>3, <2>1, <2>4, <3>1, <3>4
  <2>6. CASE ImageAttemptFails(img)
    <3>1. mem' = mem /\ pc' \in {"HandleImage", "FailCondition"} /\ todo' = todo
      BY <2>1, <2>6 DEF ImageAttemptFails
    <3>2. QED
      BY <1>2, <1>3, <1>4, <2>1, <2>4, <3>1
  <2>7. QED
    BY <2>2, <2>5, <2>6
<1>13. CASE UpdateProgress
  <2>1. pc = "UpdateProgress"
    BY <1>13 DEF UpdateProgress
  <2>2. /\ stored' = stored \/ stored' = mem
        /\ UNCHANGED <<mem, todo, registry>>
        /\ pc' \in {"HandleImage", "FailCondition"}
    BY <1>13 DEF UpdateProgress, WriteOk, WriteFails, envVars
  <2>3. Images \ todo \subseteq registry
    BY <2>1 DEF ImagesInv, LoopImagesPresent
  <2>4. QED
    BY <1>3, <1>4, <2>1, <2>2, <2>3
<1>14. CASE PushImageCompleted
  <2> DEFINE u == updateConditionStatus(mem, "PushImage", "Completed")
  <2>1. pc = "HandleImage" /\ todo = {}
    BY <1>14 DEF PushImageCompleted
  <2>2. Images \subseteq registry'
    BY <1>2, <2>1 DEF ImagesInv, LoopImagesPresent
  <2>3. u.pushed = mem.pushed
    BY <1>4, <1>5, <2>1, UpdateConditionStatusEffect DEF Stages, Statuses
  <2>4. Truthful(u, registry', FO)
    BY <1>4, <2>1, <2>2, <2>3 DEF Truthful
  <2>5. (stored' = stored \/ stored' = u) /\ pc' = "Idle"
    BY <1>14 DEF PushImageCompleted, WriteOk, WriteFails, EndPass
  <2>6. QED
    BY <1>3, <2>4, <2>5
<1>15. CASE FailCondition
  <2> DEFINE u == updateConditionStatus(mem, failStage, "Failed")
  <2>1. pc = "FailCondition"
    BY <1>15 DEF FailCondition
  <2>2. failStage \in Stages
    BY <1>1 DEF TypeInv, TypeOK
  <2>3. Truthful(u, registry', FO)
    BY <1>4, <1>5, <2>1, <2>2, UpdateKeepsClaims, TruthfulWeaken DEF Statuses
  <2>4. (stored' = stored \/ stored' = u) /\ pc' = "Idle"
    BY <1>15 DEF FailCondition, WriteOk, WriteFails, EndPass
  <2>5. QED
    BY <1>3, <2>3, <2>4
<1>16. CASE Crash
  BY <1>3, <1>16 DEF Crash, EndPass
<1>17. CASE ClearStatus
  <2>1. stored' = EmptyStatus /\ UNCHANGED <<pc, mem, todo, registry>>
    BY <1>17 DEF ClearStatus, passVars, envVars
  <2>2. QED
    BY <1>4, <2>1, FreshStatusTruthful DEF ImagesInv, LoopImagesPresent
<1>18. CASE CompleteClusterConfig \/ ImageRepositoryDown \/ ImageRepositoryUp
  <2>1. UNCHANGED <<stored, pc, mem, todo, registry>>
    BY <1>18 DEF CompleteClusterConfig, ImageRepositoryDown, ImageRepositoryUp, passVars
  <2>2. QED
    BY <1>3, <1>4, <2>1 DEF ImagesInv, LoopImagesPresent
<1>19. CASE UNCHANGED vars
  BY <1>3, <1>4, <1>19 DEF vars, ImagesInv, LoopImagesPresent
<1>20. QED
  BY <1>7, <1>8, <1>9, <1>10, <1>11, <1>12, <1>13, <1>14, <1>15, <1>16, <1>17,
     <1>18, <1>19 DEF Next, PassStep, Environment

\* Spec => []InstalledImagesPresent: what the stored status says about the
\* target registry is true (every image listed in ImagesPushed was pushed,
\* and a Completed PushImage outside full-online mode means every entry of
\* p.images was pushed), whatever failed writes, retries after a partial
\* pull or push, operator restarts and status clears came before.
THEOREM ImagesPresent == Spec => []InstalledImagesPresent
<1>1. ImagesInv => InstalledImagesPresent
  BY DEF ImagesInv, Truthful, InstalledImagesPresent
<1>2. QED
  BY <1>1, ImagesInvInit, ImagesInvStep, PTL DEF Spec

=============================================================================
