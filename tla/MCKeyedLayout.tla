---------------------------- MODULE MCKeyedLayout ----------------------------
(***************************************************************************)
(* Commits for TLC; the bounds are in the .cfg files.                      *)
(***************************************************************************)
EXTENDS KeyedLayout

OneEach == <<{"k1"}, {"k2"}>>
Again == <<{"k1", "k2"}, {"k1"}>>
TwoRanges == <<{"k1"}, {"k2"}>>
OneRange == <<{"k1", "k2"}>>

\* Four versions of one record.
Four == <<{"k1"}, {"k1"}, {"k1"}, {"k1"}>>
OneKey == <<{"k1"}>>

\* The part of the behaviours in which commits 1 and 2 have their objects' keys first and
\* put them after 3 and 4, with 4's packs about to be adopted; two split merges are planned
\* before that, and their jobs and pack merges start after it.
KeysCross ==
    LET pc(c) == process[Committer(c)].pc IN
    /\ pc(1) \in {"append", "list"} => pc(2) = "append"
    /\ pc(2) \in {"append", "list"} => pc(3) = "append"
    /\ pc(3) # "done" => pc(4) = "append"
    /\ pc(4) \in {"append", "list", "put", "save", "update"} => named \cap {1, 2} = {}
    /\ pc(4) \in {"clear", "done"} => next.id > 6
    /\ \A w \in Maintainers :
          /\ process[w].pc # "idle" => pc(1) = "done" /\ pc(2) = "done"
          /\ process[w].change.newLayers # {} => pc(4) = "done" /\ ~process[w].change.keepSeq
    /\ \A g \in Mergers : process[g].pc # "idle" => pc(4) = "done"
=============================================================================
