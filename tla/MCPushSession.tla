---------------------------- MODULE MCPushSession ----------------------------
(***************************************************************************)
(* Model values for TLC; the bounds are in the .cfg files.                 *)
(***************************************************************************)
EXTENDS PushSession, TLC

\* Runners and batches are interchangeable; liveness runs can't use it.
PushSymmetry ==
    Permutations(Runners) \cup Permutations(Batches)
=============================================================================
