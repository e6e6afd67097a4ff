------------------------------ MODULE MCTreeMerge ------------------------------
(***************************************************************************)
(* Keys for TLC; the bounds are in the .cfg file.                          *)
(***************************************************************************)
EXTENDS TreeMerge

\* Six keys: the second and the fifth end a leaf, the fifth a level-1 node too; between them a leaf
\* ends by its size.
SixKeys == <<0, 1, 0, 0, 2, 0>>
================================================================================
