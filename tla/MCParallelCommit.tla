--------------------------- MODULE MCParallelCommit ---------------------------
(***************************************************************************)
(* Symmetry for TLC; the bounds are in the .cfg files.                     *)
(***************************************************************************)
EXTENDS ParallelCommit, TLC

\* Queue consumers are interchangeable, and no formula names one.
ParallelSymmetry == Permutations(Runners)
=============================================================================
