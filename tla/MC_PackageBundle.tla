-------------------------- MODULE MC_PackageBundle --------------------------
(***************************************************************************)
(* A small instance of PackageBundle for TLC: a bundle of two image files. *)
(***************************************************************************)
EXTENDS PackageBundle, TLC

CONSTANTS i1, i2

MCImages == {i1, i2}

\* The two files play the same part: no property names one of them.
MCSymmetry == Permutations(MCImages)
=============================================================================
