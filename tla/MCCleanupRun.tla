----------------------------- MODULE MCCleanupRun -----------------------------
(***************************************************************************)
(* Two collections for TLC.  "a" has two versions: the second rewrites its *)
(* one leaf, stored as a delta of the first's, and drops a large record.   *)
(* "b" is a fork of a's second version.                                    *)
(***************************************************************************)
EXTENDS CleanupRun, TLC

MCChildren ==
    [n \in {"old", "v2", "w1", "leaf", "more"} |->
       IF n \in {"v2", "w1"} THEN {"leaf", "more"} ELSE {}]

MCPoints ==
    [n \in DOMAIN MCChildren |->
       CASE n = "old" -> {"big", "file"} [] n = "leaf" -> {"file"} [] OTHER -> {}]

\* The second version drops nothing.
MCPointsKept == [MCPoints EXCEPT !["old"] = {"file"}]

MCFrame == [n \in DOMAIN MCChildren |-> IF n = "leaf" THEN "old" ELSE "none"]

MCVersions == [c \in {"a", "b"} |-> IF c = "a" THEN <<"old", "v2">> ELSE <<"w1">>]

MCPossessed == [c \in {"a", "b"} |-> IF c = "a" THEN {"file", "draft"} ELSE {}]

SourceFirst == <<"a", "b">>
SourceAlone == <<"a">>
ForkFirst == <<"b", "a">>

WorkerSymmetry == Permutations(Workers)
=============================================================================
