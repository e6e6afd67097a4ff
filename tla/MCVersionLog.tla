---------------------------- MODULE MCVersionLog ----------------------------
(***************************************************************************)
(* Symmetry for TLC's safety runs; the bounds are in the .cfg files.       *)
(***************************************************************************)
EXTENDS VersionLog, TLC

LogSymmetry == Permutations(Workers) \cup Permutations(Keys)
=============================================================================
