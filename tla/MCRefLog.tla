-------------------------------- MODULE MCRefLog --------------------------------
(***************************************************************************)
(* Versions and events for TLC; the bounds are in the .cfg files.          *)
(***************************************************************************)
EXTENDS RefLog, TLC

\* Version 1 of c1 in two units, a version of c2, and the first of a fork.
MCCollection == <<"c1", "c2", "fork">>
MCForked == {3}
MCUnits == <<2, 1, 1>>

\* Two events of the first unit with one of the second between them, and one of c2 at the end.
MCHash == <<1, 2, 3, 4>>
MCVersionOf == <<1, 1, 1, 2>>
MCUnitOf == <<1, 2, 1, 1>>

\* The events of c2 come first: without them every segment of a merge starts elsewhere.
FirstCollection == <<"c2", "c1">>
FirstUnits == <<1, 1>>
FirstHash == <<1, 2, 3, 4>>
FirstVersionOf == <<1, 2, 2, 2>>
FirstUnitOf == <<1, 1, 1, 1>>
ConsumerSymmetry == Permutations(Consumers)
================================================================================
