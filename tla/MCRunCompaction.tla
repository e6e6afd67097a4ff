---------------------------- MODULE MCRunCompaction ----------------------------
(***************************************************************************)
(* Uploads for TLC; the bounds are in the .cfg files.                      *)
(***************************************************************************)
EXTENDS RunCompaction, TLC

k1k2 == {"k1", "k2"}

\* Three uploads that replace each other's entries.
Three == <<{"k1"}, {"k2"}, {"k1", "k2"}>>

Five == <<{"k1"}, {"k1"}, {"k1"}, {"k1"}, {"k1"}>>

k1 == {"k1"}

RunnerSymmetry == Permutations(Runners)
================================================================================
