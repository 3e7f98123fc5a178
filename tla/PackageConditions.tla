------------------------- MODULE PackageConditions -------------------------
(***************************************************************************)
(* What the stored condition list of a RainbondPackage promises to its    *)
(* readers, whatever runs the reconciler takes: the list is empty until    *)
(* the first pass, then holds one condition per stage; a stage is          *)
(* Completed only after the stage before it is; a Completed stage stays    *)
(* Completed until someone clears the status.  Only the statuses are       *)
(* kept: progress, reasons and the pushed-image list are left to the       *)
(* detailed specification.                                                 *)
(***************************************************************************)
EXTENDS Naturals

VARIABLE conds   \* stage -> status of the stored conditions, or the empty list

StageOrder == <<"Init", "DownloadPackage", "UnpackPackage", "PushImage", "Ready">>
StageSet   == {"Init", "DownloadPackage", "UnpackPackage", "PushImage", "Ready"}
StatusSet  == {"Waiting", "Running", "Completed", "Failed"}
NoConds    == [s \in {} |-> "Waiting"]

\* A stage is Completed only when its predecessor is.
ChainOrdered(c) ==
    \A i \in 2..5 : c[StageOrder[i]] = "Completed" => c[StageOrder[i - 1]] = "Completed"

TypeOK == conds \in [StageSet -> StatusSet] \cup {NoConds}

Init == conds = NoConds

\* A write of the whole list: every stage present, the chain in order, and
\* no Completed stage taken back.
Write ==
    /\ conds' \in [StageSet -> StatusSet]
    /\ ChainOrdered(conds')
    /\ conds # NoConds =>
          \A s \in StageSet : conds[s] = "Completed" => conds'[s] = "Completed"

\* Someone outside the reconciler clears the status.
Clear == conds' = NoConds

Next == Write \/ Clear

Spec == Init /\ [][Next]_conds
=============================================================================
