--------------------------- MODULE MCStorageFence ---------------------------
(***************************************************************************)
(* Model values and symmetry for TLC; the bounds are in the .cfg files.    *)
(***************************************************************************)
EXTENDS StorageFence, TLC

FenceSymmetry == Permutations(Objects) \cup Permutations(Writers)
=============================================================================
