-------------------------------- MODULE TreeMerge --------------------------------
(***************************************************************************)
(* Chunked trees (protocol/src/tree/chunking.ts, builder.ts, merge.ts,     *)
(* assemble.ts).                                                           *)
(*                                                                         *)
(* Where a node ends depends on its keys and on where it began, so one set *)
(* of entries has one tree.  A commit must arrive at that tree without     *)
(* building it: by a merge that reuses what of the base it can (mergeTree) *)
(* or by units that each output the leaves of a key range and an assembly  *)
(* of those leaves with the base's (assembleTree).  The reference is the   *)
(* tree built level by level from the new entries.                         *)
(*                                                                         *)
(* A hash is the node itself: nodes are equal when their hashes are.  Each *)
(* visit of a node is an action.                                           *)
(***************************************************************************)
EXTENDS Integers, Sequences, FiniteSets, FiniteSetsExt, SequencesExt

CONSTANTS
    Zeros,          \* of each key, the trailing zeros of its boundary hash
    LeafBits,       \* LEAF_BOUNDARY_BITS
    StepBits,       \* INTERIOR_BOUNDARY_BITS_STEP
    LeafMax,        \* LEAF_MAX_ENTRIES
    InteriorMax,    \* INTERIOR_MAX_CHILDREN
    Top,            \* the highest level of a tree of these keys, a bound
    MaxChanges      \* keys changed at once, a bound

ASSUME TreeConstants ==
    /\ Zeros \in Seq(Nat) /\ {LeafBits, StepBits, Top, MaxChanges} \subseteq Nat
    /\ {LeafMax, InteriorMax} \subseteq Nat \ {0, 1}

VARIABLES
    base,           \* the base tree's entries: the value of each key
    changes,        \* in key order
    segments,       \* the key ranges of a parallel commit's units; none: a serial merge
    leaves,         \* of each unit done, the leaves it put out
    pc,
    walk,           \* the merge or assembly in progress
    root            \* the new tree: its root, or nothing

vars == <<base, changes, segments, leaves, pc, walk, root>>

Keys == DOMAIN Zeros

\* A range's null ends: before the first key, past the last.
Start == 0
End == Len(Zeros) + 1

\* Of an entry: as in the base, or another.
Values == {0, 1}

-----------------------------------------------------------------------------
(* Nodes.  A leaf's kids are its entries, an interior node's the nodes one *)
(* level below.                                                            *)

Entry(k, v) == [level |-> -1, last |-> k, value |-> v, kids |-> <<>>]

Node(h, kids) == [level |-> h, last |-> Last(kids).last, value |-> 0, kids |-> kids]

Natural(h, k) == Zeros[k] >= LeafBits + StepBits * h

Ends(h, k, size) == size >= (IF h = 0 THEN LeafMax ELSE InteriorMax) \/ Natural(h, k)

\* The nodes of a level, of the nodes or entries below it: the reference.
LevelOf(h, below) ==
    LET grow(sizes, n) == Append(sizes, IF sizes = <<>> \/ Ends(h, below[Len(sizes)].last, Last(sizes))
                                        THEN 1 ELSE Last(sizes) + 1)
        size == FoldLeft(grow, <<>>, below)
        ends == SetToSortSeq({i \in DOMAIN below : i = Len(below) \/ Ends(h, below[i].last, size[i])}, <)
    IN [n \in DOMAIN ends |-> Node(h, SubSeq(below, IF n = 1 THEN 1 ELSE ends[n - 1] + 1, ends[n]))]

EntriesOf(content) ==
    LET keys == SetToSortSeq(DOMAIN content, <)
    IN [i \in DOMAIN keys |-> Entry(keys[i], content[keys[i]])]

\* The root is the node of the lowest level that has one; an empty tree has none.
Root(content) ==
    LET next(levels, h) ==
            Append(levels, LevelOf(h, IF h = 0 THEN EntriesOf(content) ELSE Last(levels)))
        levels == FoldLeft(next, <<>>, [i \in 1 .. Top + 1 |-> i - 1])
    IN IF DOMAIN content = {} THEN <<>> ELSE SelectSeq(levels, LAMBDA l : Len(l) = 1)[1]

Leaves(content) == LevelOf(0, EntriesOf(content))

-----------------------------------------------------------------------------
(* TreeBuilder: per level, the elements of the node begun, how many nodes  *)
(* were completed and the last of them.  With top 0 it puts out leaves.    *)

Builder(top) ==
    [top |-> top, open |-> [h \in 0 .. Top |-> <<>>], made |-> [h \in 0 .. Top |-> 0],
     last |-> [h \in 0 .. Top |-> <<>>], out |-> <<>>]

\* Slip: the level itself is looked at, not those below it.
EmptyAt(b, level) == b.open[level] = <<>>

EmptyThrough(b, level) == \A h \in 0 .. level : b.open[h] = <<>>

Made(b, n) ==
    IF n.level < 0 THEN b
    ELSE IF b.top = 0 THEN [b EXCEPT !.out = Append(@, n)]
    ELSE [b EXCEPT !.made[n.level] = @ + 1, !.last[n.level] = <<n>>]

\* addEntry, addNode, #push: it joins the node begun above it, and so does what ends with it.
Push(b, n) ==
    LET join(s, h) ==
            IF s.n = <<>> THEN s
            ELSE LET open == Append(s.b.open[h], s.n[1])
                     node == Node(h, open)
                 IN IF Ends(h, node.last, Len(open))
                    THEN [b |-> Made([s.b EXCEPT !.open[h] = <<>>], node), n |-> <<node>>]
                    ELSE [b |-> [s.b EXCEPT !.open[h] = open], n |-> <<>>]
    IN FoldLeft(join, [b |-> Made(b, n), n |-> <<n>>], [i \in 1 .. b.top - n.level |-> n.level + i]).b

Close(b, h) ==
    IF b.open[h] = <<>> THEN b ELSE Push([b EXCEPT !.open[h] = <<>>], Node(h, b.open[h]))

Highest(b) == Max({h \in 0 .. Top : b.made[h] > 0})

\* resolveRoot, and the end of finish: down while there is a single child.
Resolved(n) ==
    LET down[i \in 0 .. n.level] ==
            IF i = 0 THEN n
            ELSE LET above == down[i - 1]
                 IN IF above.level > 0 /\ Len(above.kids) = 1 THEN above.kids[1] ELSE above
    IN down[n.level]

\* finish: the levels are closed upwards until the highest has a single node.
Finished(b) ==
    LET flush(s, h) ==
            IF s.done \/ (h = Highest(s.b) /\ s.b.made[h] = 1) THEN [s EXCEPT !.done = TRUE]
            ELSE [s EXCEPT !.b = Close(s.b, h + 1)]
        closed == Close(b, 0)
        all == FoldLeft(flush, [b |-> closed, done |-> FALSE], [i \in 1 .. Top |-> i - 1]).b
    IN IF \A h \in 0 .. Top : closed.made[h] = 0 THEN <<>>
       ELSE <<Resolved(all.last[Highest(all)][1])>>

-----------------------------------------------------------------------------
(* What a commit asks for.                                                 *)

Contents == UNION {[K -> {0}] : K \in SUBSET Keys}

\* An upsert with its value, or a delete.
Change == [key : Keys, put : Values \cup {-1}]

Deletes(c) == c.put = -1

\* The entries with the changes applied.
Changed(content, cs) ==
    LET put == {i \in DOMAIN cs : ~Deletes(cs[i])}
        gone == {cs[i].key : i \in DOMAIN cs \ put}
        new == [k \in {cs[i].key : i \in put} |-> (CHOOSE i \in put : cs[i].key = k)]
    IN [k \in (DOMAIN content \ gone) \cup DOMAIN new |->
            IF k \in DOMAIN new THEN cs[new[k]].put ELSE content[k]]

New == Changed(base, changes)

Within(range, k) == k > range.after /\ k <= range.through

\* assemble.ts 13-19: what the planner keeps, unless a unit's last key was deleted, when the unit
\* is merged with the next (ParallelCommit).
ValidSegments(content, cs, segs) ==
    LET new == Changed(content, cs)
        boundary(k) == k \in DOMAIN new /\ Natural(0, k)
    IN /\ \A i \in DOMAIN segs : segs[i].after < segs[i].through
       /\ \A i \in 1 .. Len(segs) - 1 : segs[i].through <= segs[i + 1].after
       /\ \A i \in DOMAIN segs :
            /\ segs[i].after = Start \/ boundary(segs[i].after)
            /\ segs[i].through = End \/ boundary(segs[i].through)
            /\ \/ segs[i].after \in DOMAIN content \cup {Start}
               \/ i > 1 /\ segs[i - 1].through = segs[i].after
       /\ \A j \in DOMAIN cs : \E i \in DOMAIN segs : Within(segs[i], cs[j].key)

-----------------------------------------------------------------------------
(* A merge: of the whole tree, or of a unit's range.                       *)

Whole == [after |-> Start, through |-> End]

InUnits == segments # <<>>

UnitRange == IF InUnits THEN segments[Len(leaves) + 1] ELSE Whole

NoStats == [added |-> 0, removed |-> 0, updated |-> 0, unchanged |-> 0, missing |-> 0]

\* What is left to visit: a node, whether it is the last of its level, and what comes before it.
Visit(n, right, low) == [node |-> n, right |-> right, low |-> low]

Children(v) ==
    LET kids == v.node.kids
    IN [i \in DOMAIN kids |->
            Visit(kids[i], v.right /\ i = Len(kids), IF i = 1 THEN v.low ELSE kids[i - 1].last)]

FirstVisit == IF Root(base) = <<>> THEN <<>> ELSE <<Visit(Root(base)[1], TRUE, Start)>>

Merging(range) ==
    [todo |-> FirstVisit, b |-> Builder(IF InUnits THEN 0 ELSE Top),
     left |-> SelectSeq(changes, LAMBDA c : Within(range, c.key)), stats |-> NoStats,
     head |-> 1, covered |-> Start]

\* Slip: a delete counts as one, whether or not it deleted anything.
InsertCounted(w, c) ==
    IF Deletes(c) THEN [w EXCEPT !.stats.removed = @ + 1]
    ELSE [w EXCEPT !.stats.added = @ + 1, !.b = Push(@, Entry(c.key, c.put))]

\* A change of a key the base does not have.
Insert(w, c) ==
    IF Deletes(c) THEN [w EXCEPT !.stats.missing = @ + 1]
    ELSE [w EXCEPT !.stats.added = @ + 1, !.b = Push(@, Entry(c.key, c.put))]

\* Slip: the entry's own change too, as if the base did not have its key.
BeforeOrAt(w, old) == SelectSeq(w.left, LAMBDA c : c.key <= old.last)

\* The changes of keys the base does not have, up to an entry.
Before(w, old) == SelectSeq(w.left, LAMBDA c : c.key < old.last)

\* rewriteLeaf, for one of the leaf's entries: the changes before it, then its own.
Meet(w, old) ==
    LET before == Before(w, old)
        t == [FoldLeft(Insert, w, before) EXCEPT
                 !.left = SubSeq(w.left, Len(before) + 1, Len(w.left))]
        meets == t.left # <<>> /\ Head(t.left).key = old.last
        c == Head(t.left)
        rest == [t EXCEPT !.left = Tail(@)]
    IN IF ~meets THEN [t EXCEPT !.b = Push(@, old)]
       ELSE IF Deletes(c) THEN [rest EXCEPT !.stats.removed = @ + 1]
       ELSE IF c.put = old.value THEN [rest EXCEPT !.stats.unchanged = @ + 1, !.b = Push(@, old)]
       ELSE [rest EXCEPT !.stats.updated = @ + 1, !.b = Push(@, Entry(c.key, c.put))]

\* A leaf across a unit's edge: only the range's entries.
Rewritten(w, leaf) ==
    FoldLeft(Meet, w, SelectSeq(leaf.kids, LAMBDA e : Within(UnitRange, e.last)))

Outside(v) == v.node.last <= UnitRange.after \/ v.low >= UnitRange.through

\* Slip: a leaf across the start of the unit's range counts as inside.
InsideFromEnd(v) == ~InUnits \/ (v.node.level = 0 /\ v.node.last <= UnitRange.through)

\* A unit reuses leaves only, those wholly in its range.
Inside(v) ==
    \/ ~InUnits
    \/ v.node.level = 0 /\ v.low >= UnitRange.after /\ v.node.last <= UnitRange.through

\* Slip: the last node of a level is taken for one that ended at a boundary.
TouchedBelow(w, v) == w.left # <<>> /\ Head(w.left).key <= v.node.last

\* The last node of a level may have ended because the tree did: any change left concerns it.
Touched(w, v) == w.left # <<>> /\ (v.right \/ Head(w.left).key <= v.node.last)

Begin ==
    /\ pc = "begin"
    /\ IF ~InUnits /\ changes = <<>>
       THEN root' = Root(base) /\ pc' = "done" /\ UNCHANGED walk
       ELSE walk' = Merging(UnitRange) /\ pc' = "merge" /\ UNCHANGED root
    /\ UNCHANGED <<base, changes, segments, leaves>>

VisitNode ==
    /\ pc = "merge" /\ walk.todo # <<>>
    /\ LET v == Head(walk.todo)
           w == [walk EXCEPT !.todo = Tail(@)]
       IN walk' = IF Outside(v) THEN w
                  ELSE IF Inside(v) /\ ~Touched(w, v) /\ EmptyThrough(w.b, v.node.level)
                       THEN [w EXCEPT !.b = Push(@, v.node)]
                  ELSE IF v.node.level = 0 THEN Rewritten(w, v.node)
                  ELSE [w EXCEPT !.todo = Children(v) \o @]
    /\ UNCHANGED <<base, changes, segments, leaves, pc, root>>

\* What is left comes after the base's last key.
EndMerge ==
    /\ pc = "merge" /\ walk.todo = <<>>
    /\ LET w == [FoldLeft(Insert, walk, walk.left) EXCEPT !.left = <<>>]
       IN IF InUnits
          THEN /\ leaves' = Append(leaves, Close(w.b, 0).out)
               /\ pc' = IF Len(leaves') < Len(segments) THEN "begin" ELSE "assemble"
               /\ walk' = [Merging(Whole) EXCEPT !.b = Builder(Top), !.left = <<>>]
               /\ UNCHANGED root
          ELSE /\ root' = Finished(w.b) /\ pc' = "done" /\ walk' = w
               /\ UNCHANGED leaves
    /\ UNCHANGED <<base, changes, segments>>

-----------------------------------------------------------------------------
(* The assembly.                                                           *)

Covered(w, k) == k <= w.covered

Overlaps(w, last) == w.head <= Len(segments) /\ last > segments[w.head].after

\* A unit's leaves go in as they are; the builder refuses them in the middle of a leaf.
Put(w) ==
    LET out == leaves[w.head]
    IN [w EXCEPT !.b = FoldLeft(Push, @, out), !.covered = segments[w.head].through, !.head = @ + 1]

\* The segments that start in a leaf, one after the other.
PutAll(w, last) ==
    LET put(s, i) == IF Overlaps(s, last) THEN Put(s) ELSE s
    IN FoldLeft(put, w, [i \in DOMAIN segments |-> i])

\* Slip: a leaf that an inserted boundary cuts is taken whole.
NeverCut(w, v) == TRUE

\* None of it is covered: a base leaf can straddle an inserted `through`.
Uncut(w, v) == w.covered = Start \/ v.low >= w.covered

\* The end of a leaf that the segments covered the start of.
Rest(w, leaf) ==
    IF Covered(w, leaf.last) THEN w
    ELSE [w EXCEPT !.b = FoldLeft(Push, @, SelectSeq(leaf.kids, LAMBDA e : ~Covered(w, e.last)))]

\* assembleTree throws where a segment starts inside a base leaf, after entries nothing covers.
StartsInside(w, leaf) ==
    \E s \in w.head .. Len(segments) :
        LET covered == IF s = w.head THEN w.covered ELSE segments[s - 1].through
        IN /\ leaf.last > segments[s].after
           /\ \E i \in DOMAIN leaf.kids :
                 covered < leaf.kids[i].last /\ leaf.kids[i].last <= segments[s].after

VisitAssembled ==
    /\ pc = "assemble" /\ walk.todo # <<>>
    /\ LET v == Head(walk.todo)
           w == [walk EXCEPT !.todo = Tail(@)]
           reused == /\ ~Overlaps(w, v.node.last) /\ Uncut(w, v)
                     /\ EmptyThrough(w.b, v.node.level)
                     /\ ~(v.right /\ w.head <= Len(segments))
       IN IF Covered(w, v.node.last) THEN walk' = w /\ UNCHANGED pc
          ELSE IF reused THEN walk' = [w EXCEPT !.b = Push(@, v.node)] /\ UNCHANGED pc
          ELSE IF v.node.level > 0 THEN walk' = [w EXCEPT !.todo = Children(v) \o @] /\ UNCHANGED pc
          ELSE IF StartsInside(w, v.node) \/ (Overlaps(w, v.node.last) /\ ~EmptyThrough(w.b, 0))
               THEN pc' = "thrown" /\ walk' = w
          ELSE walk' = Rest(PutAll(w, v.node.last), v.node) /\ UNCHANGED pc
    /\ UNCHANGED <<base, changes, segments, leaves, root>>

EndAssembly ==
    /\ pc = "assemble" /\ walk.todo = <<>>
    /\ LET w == PutAll(walk, End)
       IN root' = Finished(w.b) /\ walk' = w
    /\ pc' = "done"
    /\ UNCHANGED <<base, changes, segments, leaves>>

Next == Begin \/ VisitNode \/ EndMerge \/ VisitAssembled \/ EndAssembly

-----------------------------------------------------------------------------
Boundaries == {k \in Keys : Natural(0, k)}

Ranges == [after : Boundaries \cup {Start}, through : Boundaries \cup {End}]

\* A base, changes in order, and no segments or at most two that the rules allow.
Init ==
    /\ base \in Contents
    /\ \E K \in {x \in SUBSET Keys : Cardinality(x) <= MaxChanges} :
          LET keys == SetToSortSeq(K, <)
          IN \E put \in [DOMAIN keys -> Values \cup {-1}] :
                changes = [i \in DOMAIN keys |-> [key |-> keys[i], put |-> put[i]]]
    /\ \/ segments = <<>>
       \/ /\ \/ \E r \in Ranges : segments = <<r>>
             \/ \E r, s \in Ranges : r.through <= s.after /\ segments = <<r, s>>
          /\ ValidSegments(base, changes, segments)
    /\ leaves = <<>> /\ pc = "begin" /\ root = <<>>
    /\ walk = [todo |-> <<>>, b |-> Builder(Top), left |-> <<>>, stats |-> NoStats, head |-> 1,
               covered |-> Start]

Spec == Init /\ [][Next]_vars

-----------------------------------------------------------------------------
(* Properties.                                                             *)

Ascending(kids) == \A i \in 1 .. Len(kids) - 1 : kids[i].last < kids[i + 1].last

\* What is in progress has its type; what a builder holds begun is less than a node of its level,
\* and that and the nodes it last completed are in key order (builder.ts 4-5: "strictly
\* increasing key order").
TypeOK ==
    /\ DOMAIN base \subseteq Keys /\ pc \in {"begin", "merge", "assemble", "done", "thrown"}
    /\ \A i \in DOMAIN changes : changes[i] \in Change
    /\ Len(leaves) <= Len(segments) /\ Len(root) <= 1
    /\ \A h \in 0 .. Top :
          /\ Ascending(walk.b.open[h])
          /\ \A i \in DOMAIN walk.b.open[h] :
                /\ walk.b.open[h][i].level = h - 1
                /\ ~Ends(h, walk.b.open[h][i].last, i)
          /\ walk.b.last[h] # <<>> => Ascending(walk.b.last[h][1].kids)

\* A merge or an assembly ends with the very tree that building the new entries from scratch
\* gives (merge.ts 10-13, assemble.ts 7-11), and an assembly of valid segments never throws.
SameTree ==
    /\ pc # "thrown"
    /\ pc = "done" => root = Root(New)

\* A unit's leaves are the new tree's leaves of its range (merge.ts 15-20).
UnitLeaves ==
    [][\A i \in DOMAIN leaves' \ DOMAIN leaves :
          leaves'[i] = SelectSeq(Leaves(New), LAMBDA l : Within(segments[i], l.last))]_leaves

\* The changes counted are those that made a difference, each once: the version's change counts
\* and bump come from them.
Counted ==
    pc = "done" /\ ~InUnits /\ changes # <<>> =>
        LET new == New
            both == DOMAIN base \cap DOMAIN new
        IN /\ walk.stats.added = Cardinality(DOMAIN new \ DOMAIN base)
           /\ walk.stats.removed = Cardinality(DOMAIN base \ DOMAIN new)
           /\ walk.stats.updated = Cardinality({k \in both : base[k] # new[k]})
================================================================================
