------------------------ MODULE MC_PackageReconciler ------------------------
(***************************************************************************)
(* A small instance of PackageReconciler for TLC: two entries in the image *)
(* mapping, the three attempts of the code, and enough faults for one      *)
(* entry to spend its attempts.                                            *)
(***************************************************************************)
EXTENDS PackageReconciler

CONSTANTS i1, i2

MCImages == {i1, i2}
=============================================================================
