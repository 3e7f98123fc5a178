--------------------- MODULE PackageRefinementProofs ----------------------
(***************************************************************************)
(* PackageReconciler implements PackageConditions: under the mapping      *)
(* conds <- StatusOf(stored), every step of the reconciler and of its      *)
(* environment is a Write, a Clear or a stutter of the abstract list.      *)
(***************************************************************************)
EXTENDS PackageReconcilerProofs

\* A status lists its conditions in chain order: a stage is Completed only
\* when the stage before it is.
Chain(st) ==
    /\ Status(st, "DownloadPackage") = "Completed" => Status(st, "Init") = "Completed"
    /\ Status(st, "UnpackPackage") = "Completed" => Status(st, "DownloadPackage") = "Completed"
    /\ Status(st, "PushImage") = "Completed" => Status(st, "UnpackPackage") = "Completed"
    /\ Status(st, "Ready") = "Completed" => Status(st, "PushImage") = "Completed"

\* Every stage Completed in old is Completed in new.
Behind(old, new) == \A s \in Stages : Status(old, s) = "Completed" => Status(new, s) = "Completed"

(***************************************************************************)
(* The inductive invariant.  A pass writes its whole copy mem back, so     *)
(* mem must be in chain order and never behind the stored status; what    *)
(* the next step of a pass sets Completed or Failed must be allowed by     *)
(* where the pass is.                                                      *)
(***************************************************************************)
StoredChain == HasConditions(stored) => Chain(stored)
MemChain    == pc # "Idle" => Chain(mem)
MemAhead    == pc # "Idle" /\ HasConditions(stored) => Behind(stored, mem)
PassFacts ==
    /\ pc = "CanDownload" => Status(mem, "Init") = "Completed"
    /\ pc \in {"HandleImage", "UpdateProgress"} =>
          /\ Status(mem, "UnpackPackage") = "Completed"
          /\ Status(mem, "PushImage") # "Completed"
    /\ pc = "FailCondition" =>
          /\ failStage \in {"Init", "PushImage"}
          /\ HasConditions(stored) => Status(stored, failStage) # "Completed"
          /\ failStage = "Init" => Status(mem, "DownloadPackage") # "Completed"
          /\ failStage = "PushImage" => Status(mem, "Ready") # "Completed"

RInv == TypeInv /\ StoredChain /\ MemChain /\ MemAhead /\ PassFacts

(***************************************************************************)
(* Lemmas on the statuses the edits of a status leave.                     *)
(***************************************************************************)

\* Two statuses that agree on every stage agree on the chain and on what
\* they keep Completed.
LEMMA SameStatuses ==
    ASSUME NEW a, NEW b, \A t \in Stages : Status(b, t) = Status(a, t)
    PROVE  /\ Chain(a) => Chain(b)
           /\ \A o : Behind(o, a) => Behind(o, b)
BY DEF Chain, Behind, Stages

\* A status built by initPackageStatus is in chain order; one with every
\* stage Completed keeps every stage of any status Completed.
LEMMA InitPackageChain ==
    ASSUME NEW s \in Statuses
    PROVE  /\ Chain(initPackageStatus(s))
           /\ \A o : Behind(o, initPackageStatus("Completed"))
BY DEF Chain, Behind, Status, initPackageStatus, Stages

\* Setting one condition keeps the chain when a Completed stage follows a
\* Completed one and a stage that is not Completed has no Completed
\* successor.
LEMMA UpdateChain ==
    ASSUME NEW st \in PackageStatus, CondsFn(st), Chain(st),
           NEW typ \in Stages, NEW s \in Statuses,
           s = "Completed" =>
              /\ typ = "DownloadPackage" => Status(st, "Init") = "Completed"
              /\ typ = "UnpackPackage" => Status(st, "DownloadPackage") = "Completed"
              /\ typ = "PushImage" => Status(st, "UnpackPackage") = "Completed"
              /\ typ = "Ready" => Status(st, "PushImage") = "Completed",
           s # "Completed" =>
              /\ typ = "Init" => Status(st, "DownloadPackage") # "Completed"
              /\ typ = "DownloadPackage" => Status(st, "UnpackPackage") # "Completed"
              /\ typ = "UnpackPackage" => Status(st, "PushImage") # "Completed"
              /\ typ = "PushImage" => Status(st, "Ready") # "Completed"
    PROVE  Chain(updateConditionStatus(st, typ, s))
<1>1. \A t \in Stages : Status(updateConditionStatus(st, typ, s), t)
                        = IF t = typ THEN s ELSE Status(st, t)
  BY UpdateConditionStatusEffect
<1>2. QED
  BY <1>1 DEF Chain, Stages

\* Setting one condition keeps every stage an old status has Completed,
\* unless it takes back a Completed stage of the old status.
LEMMA UpdateBehind ==
    ASSUME NEW old, NEW st \in PackageStatus, CondsFn(st), Behind(old, st),
           NEW typ \in Stages, NEW s \in Statuses,
           s = "Completed" \/ Status(old, typ) # "Completed"
    PROVE  Behind(old, updateConditionStatus(st, typ, s))
<1>1. \A t \in Stages : Status(updateConditionStatus(st, typ, s), t)
                        = IF t = typ THEN s ELSE Status(st, t)
  BY UpdateConditionStatusEffect
<1>2. QED
  BY <1>1 DEF Behind

\* setInitStatus sets Init Completed and leaves the other stages.
LEMMA InitCompletedChain ==
    ASSUME NEW st \in PackageStatus, CondsFn(st), Chain(st), NEW old, Behind(old, st)
    PROVE  LET u == [st EXCEPT !.conds["Init"].status = "Completed"]
           IN  Chain(u) /\ Behind(old, u) /\ Status(u, "Init") = "Completed"
<1> DEFINE u == [st EXCEPT !.conds["Init"].status = "Completed"]
<1>1. \A t \in Stages \ {"Init"} : Status(u, t) = Status(st, t)
  BY InitCompletedEffect
<1>2. Status(u, "Init") = "Completed"
  BY DEF Status, CondsFn, Stages
<1>3. QED
  BY <1>1, <1>2 DEF Chain, Behind, Stages

(***************************************************************************)
(* How a stored status maps to the abstract list.                         *)
(***************************************************************************)

\* A status with its five conditions maps to the function of their statuses.
LEMMA StatusOfConds ==
    ASSUME NEW st, CondsFn(st)
    PROVE  /\ StatusOf(st) = [s \in Stages |-> Status(st, s)]
           /\ StatusOf(st) # Conditions!NoConds
<1>1. HasConditions(st)
  BY CondsFnHasConditions
<1>2. StatusOf(st) = [s \in Stages |-> Status(st, s)]
  BY <1>1 DEF StatusOf
<1>3. DOMAIN StatusOf(st) = Stages /\ DOMAIN Conditions!NoConds = {}
  BY <1>2 DEF Conditions!NoConds
<1>4. QED
  BY <1>2, <1>3 DEF Stages

\* A status without conditions maps to the empty list.
LEMMA StatusOfEmpty ==
    ASSUME NEW st, ~HasConditions(st)
    PROVE  StatusOf(st) = Conditions!NoConds
BY DEF StatusOf, Conditions!NoConds

\* A write of a status in chain order that keeps every stage the stored
\* status has Completed is a Write of the abstract list.
LEMMA WriteRefines ==
    ASSUME NEW st \in PackageStatus, CondsFn(st), Chain(st),
           stored \in PackageStatus,
           HasConditions(stored) => Behind(stored, st),
           stored' = st
    PROVE  Conditions!Next
<1>1. StatusOf(stored)' = [s \in Stages |-> Status(st, s)]
  <2>1. StatusOf(stored)' = StatusOf(st)
    OBVIOUS
  <2>2. QED
    BY <2>1, StatusOfConds
<1>2. [s \in Stages |-> Status(st, s)] \in [Conditions!StageSet -> Conditions!StatusSet]
  BY DEF CondsFn, Cond, Status, Stages, Statuses, Conditions!StageSet, Conditions!StatusSet
<1>3. Conditions!ChainOrdered([s \in Stages |-> Status(st, s)])
  BY DEF Chain, Conditions!ChainOrdered, Conditions!StageOrder, Stages
<1>4. StatusOf(stored) # Conditions!NoConds =>
        \A s \in Conditions!StageSet :
           StatusOf(stored)[s] = "Completed" => [t \in Stages |-> Status(st, t)][s] = "Completed"
  <2>1. CASE HasConditions(stored)
    <3>1. CondsFn(stored)
      BY <2>1 DEF HasConditions, PackageStatus, CondsFn
    <3>2. StatusOf(stored) = [s \in Stages |-> Status(stored, s)]
      BY <3>1, StatusOfConds
    <3>3. QED
      BY <2>1, <3>2 DEF Behind, Conditions!StageSet, Stages
  <2>2. CASE ~HasConditions(stored)
    BY <2>2, StatusOfEmpty
  <2>3. QED
    BY <2>1, <2>2
<1>5. QED
  BY <1>1, <1>2, <1>3, <1>4 DEF Conditions!Next, Conditions!Write

\* A status without conditions maps to the empty list, so a clear is a
\* Clear of the abstract list.
LEMMA ClearRefines ==
    ASSUME stored' = EmptyStatus
    PROVE  Conditions!Next
<1>1. ~HasConditions(EmptyStatus)
  BY DEF HasConditions, EmptyStatus
<1>2. StatusOf(stored)' = Conditions!NoConds
  BY <1>1, StatusOfEmpty
<1>3. QED
  BY <1>2 DEF Conditions!Next, Conditions!Clear

\* A step that writes st or leaves the stored status alone keeps the stored
\* chain and the stored status behind st, and refines the abstract list.
LEMMA WriteOrKeep ==
    ASSUME NEW st \in PackageStatus, CondsFn(st), Chain(st),
           stored \in PackageStatus, StoredChain,
           HasConditions(stored) => Behind(stored, st),
           stored' = st \/ stored' = stored
    PROVE  /\ HasConditions(stored') => Chain(stored')
           /\ HasConditions(stored') => Behind(stored', st)
           /\ [Conditions!Next]_(StatusOf(stored))
<1>1. CASE stored' = st
  <2>1. Conditions!Next
    BY <1>1, WriteRefines
  <2>2. QED
    BY <1>1, <2>1 DEF Behind
<1>2. CASE stored' = stored
  BY <1>2 DEF StoredChain
<1>3. QED
  BY <1>1, <1>2

\* The initial states satisfy RInv.
LEMMA RInvInit == Init => RInv
<1> SUFFICES ASSUME Init PROVE RInv
  OBVIOUS
<1>1. TypeInv
  BY TypeInvInit
<1>2. ~HasConditions(stored)
  BY DEF Init, HasConditions, EmptyStatus
<1>3. QED
  BY <1>1, <1>2 DEF Init, RInv, StoredChain, MemChain, MemAhead, PassFacts

\* Every step keeps RInv and maps to a step or a stutter of the abstract
\* list.  One case per action; in each, the stored status, the pass's copy
\* and the facts of the step the pass is at.
LEMMA RInvStep ==
    RInv /\ [Next]_vars => RInv' /\ [Conditions!Next]_(StatusOf(stored))
<1> SUFFICES ASSUME RInv, [Next]_vars
             PROVE  RInv' /\ [Conditions!Next]_(StatusOf(stored))
  OBVIOUS
<1>0. /\ TypeInv /\ TypeInv' /\ stored \in PackageStatus /\ StoredChain
      /\ HasConditions(stored) => CondsFn(stored)
      /\ pc # "Idle" => mem \in PackageStatus /\ CondsFn(mem) /\ Chain(mem)
      /\ pc # "Idle" /\ HasConditions(stored) => Behind(stored, mem)
  BY TypeInvStep DEF RInv, TypeInv, TypeOK, MemHasConditions, MemChain, MemAhead,
                     HasConditions, PackageStatus, CondsFn
<1> DEFINE Goal == RInv' /\ [Conditions!Next]_(StatusOf(stored))
<1>1. CASE Reconcile
  <2>1. pc = "Idle"
    BY <1>1 DEF Reconcile
  <2>2. \/ stored' = stored /\ (pc' # "Idle" => pc' = "SetInitStatus" /\ mem' = stored /\ HasConditions(stored))
        \/ stored' = initPackageStatus("Completed") /\ pc' = "Idle"
        \/ stored' = initPackageStatus("Waiting") /\ pc' = "Idle" /\ ~HasConditions(stored)
    BY <1>1 DEF Reconcile, StartHandle, WriteOk, WriteFails, passVars
  <2>3. CASE stored' = stored /\ (pc' # "Idle" => pc' = "SetInitStatus" /\ mem' = stored /\ HasConditions(stored))
    <3>1. Behind(stored, stored)
      BY DEF Behind
    <3>2. QED
      BY <1>0, <2>3, <3>1 DEF RInv, StoredChain, MemChain, MemAhead, PassFacts
  <2>4. CASE stored' = initPackageStatus("Completed") /\ pc' = "Idle"
    <3>1. /\ initPackageStatus("Completed") \in PackageStatus
          /\ CondsFn(initPackageStatus("Completed"))
          /\ Chain(initPackageStatus("Completed"))
          /\ Behind(stored, initPackageStatus("Completed"))
      BY InitPackageStatusType, InitPackageChain DEF Statuses
    <3>2. Conditions!Next
      BY <1>0, <2>4, <3>1, WriteRefines
    <3>3. QED
      BY <1>0, <2>4, <3>1, <3>2 DEF RInv, StoredChain, MemChain, MemAhead, PassFacts
  <2>5. CASE stored' = initPackageStatus("Waiting") /\ pc' = "Idle" /\ ~HasConditions(stored)
    <3>1. /\ initPackageStatus("Waiting") \in PackageStatus
          /\ CondsFn(initPackageStatus("Waiting"))
          /\ Chain(initPackageStatus("Waiting"))
      BY InitPackageStatusType, InitPackageChain DEF Statuses
    <3>2. Conditions!Next
      BY <1>0, <2>5, <3>1, WriteRefines
    <3>3. QED
      BY <1>0, <2>5, <3>1, <3>2 DEF RInv, StoredChain, MemChain, MemAhead, PassFacts
  <2>6. QED
    BY <2>2, <2>3, <2>4, <2>5
<1>2. CASE SetInitStatus
  <2>1. pc = "SetInitStatus" /\ UNCHANGED <<todo, cur, attempts>>
    BY <1>2 DEF SetInitStatus
  <2>2. CASE Status(mem, "Init") = "Completed"
    <3>1. /\ pc' = "CanDownload" /\ UNCHANGED <<stored, mem, failStage>>
      BY <1>2, <2>2 DEF SetInitStatus
    <3>2. QED
      BY <1>0, <2>1, <2>2, <3>1 DEF RInv, StoredChain, MemChain, MemAhead, PassFacts
  <2>3. CASE Status(mem, "Init") # "Completed"
    <3> DEFINE m1 == [mem EXCEPT !.conds["Init"].status = "Completed"]
    <3>1. /\ m1 \in PackageStatus /\ CondsFn(m1) /\ Chain(m1)
          /\ Status(m1, "Init") = "Completed"
          /\ Status(m1, "DownloadPackage") = Status(mem, "DownloadPackage")
      <4>1. m1 \in PackageStatus /\ CondsFn(m1)
        BY <1>0, <2>1, InitCompletedType
      <4>2. Chain(m1) /\ Status(m1, "Init") = "Completed"
        BY <1>0, <2>1, InitCompletedChain DEF Behind
      <4>3. Status(m1, "DownloadPackage") = Status(mem, "DownloadPackage")
        BY <1>0, <2>1, InitCompletedEffect DEF Stages
      <4>4. QED
        BY <4>1, <4>2, <4>3
    <3>2. HasConditions(stored) => Behind(stored, m1)
      BY <1>0, <2>1, InitCompletedChain
    <3>3. /\ mem' = m1
          /\ \/ stored' = m1 /\ pc' = "CanDownload" /\ UNCHANGED failStage
             \/ stored' = stored /\ pc' = "FailCondition" /\ failStage' = "Init"
      BY <1>2, <2>3 DEF SetInitStatus, WriteOk, WriteFails
    <3>4. /\ HasConditions(stored') => Chain(stored')
          /\ HasConditions(stored') => Behind(stored', m1)
          /\ [Conditions!Next]_(StatusOf(stored))
      BY <1>0, <3>1, <3>2, <3>3, WriteOrKeep
    <3>5. HasConditions(stored) => Status(stored, "Init") # "Completed"
      BY <1>0, <2>1, <2>3 DEF Behind, Stages
    <3>6. Status(mem, "DownloadPackage") # "Completed"
      BY <1>0, <2>1, <2>3 DEF Chain
    <3>7. QED
      BY <1>0, <2>1, <3>1, <3>3, <3>4, <3>5, <3>6
      DEF RInv, StoredChain, MemChain, MemAhead, PassFacts
  <2>4. QED
    BY <2>2, <2>3
<1>3. CASE CanDownload
  <2>1. /\ pc = "CanDownload" /\ pc' = "CanUnpack"
        /\ UNCHANGED <<todo, cur, attempts, failStage>>
    BY <1>3 DEF CanDownload
  <2>2. CASE Status(mem, "DownloadPackage") # "Completed"
    <3> DEFINE m1 == updateConditionStatus(mem, "DownloadPackage", "Completed")
    <3>1. Status(mem, "Init") = "Completed"
      BY <2>1 DEF RInv, PassFacts
    <3>2. m1 \in PackageStatus /\ CondsFn(m1) /\ Chain(m1)
      BY <1>0, <2>1, <3>1, UpdateConditionStatusType, UpdateChain DEF Stages, Statuses
    <3>3. HasConditions(stored) => Behind(stored, m1)
      BY <1>0, <2>1, UpdateBehind DEF Stages, Statuses
    <3>4. mem' = m1 /\ (stored' = m1 \/ stored' = stored)
      BY <1>3, <2>2 DEF CanDownload, WriteOk, WriteFails
    <3>5. /\ HasConditions(stored') => Chain(stored')
          /\ HasConditions(stored') => Behind(stored', m1)
          /\ [Conditions!Next]_(StatusOf(stored))
      BY <1>0, <3>2, <3>3, <3>4, WriteOrKeep
    <3>6. QED
      BY <1>0, <2>1, <3>2, <3>4, <3>5 DEF RInv, StoredChain, MemChain, MemAhead, PassFacts
  <2>3. CASE Status(mem, "DownloadPackage") = "Completed"
    <3>1. UNCHANGED <<stored, mem>>
      BY <1>3, <2>3 DEF CanDownload
    <3>2. QED
      BY <1>0, <2>1, <3>1 DEF RInv, StoredChain, MemChain, MemAhead, PassFacts
  <2>4. QED
    BY <2>2, <2>3
<1>4. CASE CanUnpack
  <2>1. /\ pc = "CanUnpack" /\ pc' = "CanPushImage"
        /\ UNCHANGED <<todo, cur, attempts, failStage>>
    BY <1>4 DEF CanUnpack
  <2>2. CASE Status(mem, "DownloadPackage") = "Completed" /\ Status(mem, "UnpackPackage") # "Completed"
    <3> DEFINE m1 == updateConditionStatus(mem, "UnpackPackage", "Completed")
    <3>2. m1 \in PackageStatus /\ CondsFn(m1) /\ Chain(m1)
      BY <1>0, <2>1, <2>2, UpdateConditionStatusType, UpdateChain DEF Stages, Statuses
    <3>3. HasConditions(stored) => Behind(stored, m1)
      BY <1>0, <2>1, UpdateBehind DEF Stages, Statuses
    <3>4. mem' = m1 /\ (stored' = m1 \/ stored' = stored)
      BY <1>4, <2>2 DEF CanUnpack, WriteOk, WriteFails
    <3>5. /\ HasConditions(stored') => Chain(stored')
          /\ HasConditions(stored') => Behind(stored', m1)
          /\ [Conditions!Next]_(StatusOf(stored))
      BY <1>0, <3>2, <3>3, <3>4, WriteOrKeep
    <3>6. QED
      BY <1>0, <2>1, <3>2, <3>4, <3>5 DEF RInv, StoredChain, MemChain, MemAhead, PassFacts
  <2>3. CASE ~(Status(mem, "DownloadPackage") = "Completed" /\ Status(mem, "UnpackPackage") # "Completed")
    <3>1. UNCHANGED <<stored, mem>>
      BY <1>4, <2>3 DEF CanUnpack
    <3>2. QED
      BY <1>0, <2>1, <3>1 DEF RInv, StoredChain, MemChain, MemAhead, PassFacts
  <2>4. QED
    BY <2>2, <2>3
<1>5. CASE CanPushImage
  <2>1. pc = "CanPushImage"
    BY <1>5 DEF CanPushImage
  <2>2. CASE canPushImage(mem) /\ StartPushImages /\ UNCHANGED <<stored, failStage>>
    <3>1. \A t \in Stages : Status(mem', t) = Status(mem, t)
      BY <2>2 DEF StartPushImages, Status
    <3>2. Chain(mem') /\ (HasConditions(stored) => Behind(stored, mem'))
      BY <1>0, <2>1, <3>1, SameStatuses
    <3>3. QED
      BY <1>0, <2>1, <2>2, <3>1, <3>2
      DEF StartPushImages, canPushImage, Stages, RInv, StoredChain, MemChain, MemAhead, PassFacts
  <2>3. CASE ~canPushImage(mem) /\ canReady(mem)
             /\ (WriteOk(updateConditionStatus(mem, "Ready", "Completed"), queued) \/ WriteFails(TRUE))
             /\ EndPass
    <3> DEFINE m1 == updateConditionStatus(mem, "Ready", "Completed")
    <3>1. m1 \in PackageStatus /\ CondsFn(m1) /\ Chain(m1)
      BY <1>0, <2>1, <2>3, UpdateConditionStatusType, UpdateChain DEF canReady, Stages, Statuses
    <3>2. HasConditions(stored) => Behind(stored, m1)
      BY <1>0, <2>1, UpdateBehind DEF Stages, Statuses
    <3>3. (stored' = m1 \/ stored' = stored) /\ pc' = "Idle"
      BY <2>3 DEF WriteOk, WriteFails, EndPass
    <3>4. /\ HasConditions(stored') => Chain(stored')
          /\ [Conditions!Next]_(StatusOf(stored))
      BY <1>0, <3>1, <3>2, <3>3, WriteOrKeep
    <3>5. QED
      BY <1>0, <3>3, <3>4 DEF RInv, StoredChain, MemChain, MemAhead, PassFacts
  <2>4. QED
    BY <1>5, <2>2, <2>3 DEF CanPushImage
<1>6. CASE HandleImage
  <2>1. PICK img \in (IF cur = NoImage THEN todo ELSE {cur}) :
               ImagePushed(img) \/ ImageAttemptFails(img)
    BY <1>6 DEF HandleImage
  <2>2. img \in Images /\ pc = "HandleImage" /\ UNCHANGED stored
    BY <1>0, <1>6, <2>1 DEF HandleImage, TypeInv, TypeOK
  <2>3. Status(mem, "UnpackPackage") = "Completed" /\ Status(mem, "PushImage") # "Completed"
    BY <2>2 DEF RInv, PassFacts
  <2>4. CASE ImagePushed(img)
    <3>1. \A t \in Stages : Status(mem', t) = Status(mem, t)
      BY <1>0, <2>2, <2>4, PushedAppendEffect DEF ImagePushed
    <3>2. Chain(mem') /\ (HasConditions(stored) => Behind(stored, mem'))
      BY <1>0, <2>2, <3>1, SameStatuses
    <3>3. pc' \in {"UpdateProgress", "HandleImage"} /\ UNCHANGED failStage
      BY <2>4 DEF ImagePushed
    <3>4. QED
      BY <1>0, <2>2, <2>3, <3>1, <3>2, <3>3
      DEF Stages, RInv, StoredChain, MemChain, MemAhead, PassFacts
  <2>5. CASE ImageAttemptFails(img)
    <3>1. /\ UNCHANGED mem
          /\ \/ pc' = "HandleImage" /\ UNCHANGED failStage
             \/ pc' = "FailCondition" /\ failStage' = "PushImage"
      BY <2>2, <2>5 DEF ImageAttemptFails
    <3>2. HasConditions(stored) => Status(stored, "PushImage") # "Completed"
      BY <1>0, <2>2, <2>3 DEF Behind, Stages
    <3>3. Status(mem, "Ready") # "Completed"
      BY <1>0, <2>2, <2>3 DEF Chain
    <3>4. QED
      BY <1>0, <2>2, <2>3, <3>1, <3>2, <3>3
      DEF RInv, StoredChain, MemChain, MemAhead, PassFacts
  <2>6. QED
    BY <2>1, <2>4, <2>5
<1>7. CASE UpdateProgress
  <2>1. pc = "UpdateProgress" /\ UNCHANGED mem
    BY <1>7 DEF UpdateProgress
  <2>2. Status(mem, "UnpackPackage") = "Completed" /\ Status(mem, "PushImage") # "Completed"
    BY <2>1 DEF RInv, PassFacts
  <2>3. \/ stored' = mem /\ pc' = "HandleImage" /\ UNCHANGED failStage
        \/ stored' = stored /\ pc' = "FailCondition" /\ failStage' = "PushImage"
    BY <1>7 DEF UpdateProgress, WriteOk, WriteFails
  <2>4. /\ HasConditions(stored') => Chain(stored')
        /\ HasConditions(stored') => Behind(stored', mem)
        /\ [Conditions!Next]_(StatusOf(stored))
    BY <1>0, <2>1, <2>3, WriteOrKeep
  <2>5. HasConditions(stored) => Status(stored, "PushImage") # "Completed"
    BY <1>0, <2>1, <2>2 DEF Behind, Stages
  <2>6. Status(mem, "Ready") # "Completed"
    BY <1>0, <2>1, <2>2 DEF Chain
  <2>7. QED
    BY <1>0, <2>1, <2>2, <2>3, <2>4, <2>5, <2>6
    DEF RInv, StoredChain, MemChain, MemAhead, PassFacts
<1>8. CASE PushImageCompleted
  <2> DEFINE m1 == updateConditionStatus(mem, "PushImage", "Completed")
  <2>1. pc = "HandleImage"
    BY <1>8 DEF PushImageCompleted
  <2>2. Status(mem, "UnpackPackage") = "Completed"
    BY <2>1 DEF RInv, PassFacts
  <2>3. m1 \in PackageStatus /\ CondsFn(m1) /\ Chain(m1)
    BY <1>0, <2>1, <2>2, UpdateConditionStatusType, UpdateChain DEF Stages, Statuses
  <2>4. HasConditions(stored) => Behind(stored, m1)
    BY <1>0, <2>1, UpdateBehind DEF Stages, Statuses
  <2>5. (stored' = m1 \/ stored' = stored) /\ pc' = "Idle"
    BY <1>8 DEF PushImageCompleted, WriteOk, WriteFails, EndPass
  <2>6. /\ HasConditions(stored') => Chain(stored')
        /\ [Conditions!Next]_(StatusOf(stored))
    BY <1>0, <2>3, <2>4, <2>5, WriteOrKeep
  <2>7. QED
    BY <1>0, <2>5, <2>6 DEF RInv, StoredChain, MemChain, MemAhead, PassFacts
<1>9. CASE FailCondition
  <2> DEFINE m1 == updateConditionStatus(mem, failStage, "Failed")
  <2>1. pc = "FailCondition"
    BY <1>9 DEF FailCondition
  <2>2. /\ failStage \in {"Init", "PushImage"}
        /\ HasConditions(stored) => Status(stored, failStage) # "Completed"
        /\ failStage = "Init" => Status(mem, "DownloadPackage") # "Completed"
        /\ failStage = "PushImage" => Status(mem, "Ready") # "Completed"
    BY <2>1 DEF RInv, PassFacts
  <2>3. m1 \in PackageStatus /\ CondsFn(m1) /\ Chain(m1)
    BY <1>0, <2>1, <2>2, UpdateConditionStatusType, UpdateChain DEF Stages, Statuses
  <2>4. HasConditions(stored) => Behind(stored, m1)
    BY <1>0, <2>1, <2>2, UpdateBehind DEF Stages, Statuses
  <2>5. (stored' = m1 \/ stored' = stored) /\ pc' = "Idle"
    BY <1>9 DEF FailCondition, WriteOk, WriteFails, EndPass
  <2>6. /\ HasConditions(stored') => Chain(stored')
        /\ [Conditions!Next]_(StatusOf(stored))
    BY <1>0, <2>3, <2>4, <2>5, WriteOrKeep
  <2>7. QED
    BY <1>0, <2>5, <2>6 DEF RInv, StoredChain, MemChain, MemAhead, PassFacts
<1>10. CASE Crash
  <2>1. pc' = "Idle" /\ UNCHANGED stored
    BY <1>10 DEF Crash, EndPass
  <2>2. QED
    BY <1>0, <2>1 DEF RInv, StoredChain, MemChain, MemAhead, PassFacts
<1>11. CASE ClearStatus
  <2>1. stored' = EmptyStatus /\ UNCHANGED <<pc, mem, failStage>>
    BY <1>11 DEF ClearStatus, passVars
  <2>2. ~HasConditions(stored')
    BY <2>1 DEF HasConditions, EmptyStatus
  <2>3. Conditions!Next
    BY <2>1, ClearRefines
  <2>4. QED
    BY <1>0, <2>1, <2>2, <2>3 DEF RInv, StoredChain, MemChain, MemAhead, PassFacts
<1>12. CASE CompleteClusterConfig \/ ImageRepositoryDown \/ ImageRepositoryUp
  <2>1. UNCHANGED <<stored, pc, mem, failStage>>
    BY <1>12 DEF CompleteClusterConfig, ImageRepositoryDown, ImageRepositoryUp, passVars
  <2>2. QED
    BY <1>0, <2>1 DEF RInv, StoredChain, MemChain, MemAhead, PassFacts
<1>13. CASE UNCHANGED vars
  <2>1. UNCHANGED <<stored, pc, mem, failStage>>
    BY <1>13 DEF vars
  <2>2. QED
    BY <1>0, <2>1 DEF RInv, StoredChain, MemChain, MemAhead, PassFacts
<1>14. QED
  BY <1>1, <1>2, <1>3, <1>4, <1>5, <1>6, <1>7, <1>8, <1>9, <1>10, <1>11, <1>12, <1>13
  DEF Next, PassStep, Environment

\* Spec => ConditionsRefined: the reconciler implements PackageConditions.
\* Whatever failed writes, retries, restarts of the operator and clears of
\* the status happen, every write of the whole status by a pass of
\* Reconcile keeps the stored conditions in chain order (a stage Completed
\* only after the one before it) and never takes back a Completed stage.
THEOREM Refinement == Spec => ConditionsRefined
<1>1. Init => RInv
  BY RInvInit
<1>2. Init => Conditions!Init
  <2>1. ASSUME Init PROVE ~HasConditions(stored)
    BY <2>1 DEF Init, HasConditions, EmptyStatus
  <2>2. QED
    BY <2>1, StatusOfEmpty DEF Conditions!Init
<1>3. RInv /\ [Next]_vars => RInv' /\ [Conditions!Next]_(StatusOf(stored))
  BY RInvStep
<1>4. QED
  BY <1>1, <1>2, <1>3, PTL DEF Spec, ConditionsRefined, Conditions!Spec
=============================================================================
