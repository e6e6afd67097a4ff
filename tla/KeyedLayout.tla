------------------------------ MODULE KeyedLayout ------------------------------
(***************************************************************************)
(* Layout F's record store (protocol/src/repo/layouts/keyed.ts and kit.ts; *)
(* server/src/handlers.ts layout.maintain and layout.merge).               *)
(*                                                                         *)
(* Records lie in packs, and layers of index entries say in which; what    *)
(* there is, and which layer is newer, is in a manifest: a chain of        *)
(* numbered objects, each claimed by a write that fails if it is there.    *)
(* Commits add their layers as objects of their own, which the next change *)
(* of the manifest folds in.  Maintain jobs merge layers and packs, one    *)
(* job at a time by a lease that a dead job leaves behind; a large merge   *)
(* of layers goes to a job per key range.  What a merge replaces is        *)
(* retired, and deleted later.                                             *)
(*                                                                         *)
(* Files are written under fresh names, so reading inputs and writing an   *)
(* output is one action; each change of an object others read is another.  *)
(***************************************************************************)
EXTENDS Naturals, Sequences, FiniteSets, FiniteSetsExt

CONSTANTS
    KeysOf,         \* of each commit, the records it indexes
    Placed,         \* commits whose records are in packs their uploads wrote
    Ranges,         \* the key ranges a split merge is cut into
    Maintainers,    \* consumers of layout.maintain
    Mergers,        \* consumers of layout.merge
    PackFanout,     \* FANOUT
    MaxTier,        \* MAX_PACK_TIER
    TornReads,      \* whether a change of the manifest may fall inside a try's look for its runs
    LateRepeats,    \* whether a split merge's job may look for its inputs, or die, once its run is swapped in
    LateKeys,       \* whether a pending object may land behind one with a later key
    MaxIds,         \* files merges write, a bound
    MaxDeaths,      \* commits' and maintain jobs' deaths, and messages lost: a bound
    MaxRepeats,     \* merge messages delivered again, after a death or without: a bound
    MaxFaults       \* the two together: a bound

Commits == DOMAIN KeysOf
Keys == UNION {Ranges[i] : i \in DOMAIN Ranges}
Committer(c) == <<"commit", c>>
Committers == {Committer(c) : c \in Commits}
Processes == Committers \cup Maintainers \cup Mergers
Ids == 1 .. Len(KeysOf) + MaxIds
Plans == Len(KeysOf) + 1 .. Len(KeysOf) + MaxIds

ASSUME KeyedLayoutConstants ==
    /\ {TornReads, LateRepeats, LateKeys} \subseteq BOOLEAN
    /\ KeysOf \in Seq((SUBSET Keys) \ {{}}) /\ Placed \subseteq Commits
    /\ Maintainers \cap Mergers = {} /\ Committers \cap (Maintainers \cup Mergers) = {}
    /\ {"free", "dead"} \cap Maintainers = {}
    /\ \A i, j \in DOMAIN Ranges : i # j => Ranges[i] \cap Ranges[j] = {}
    /\ {PackFanout, MaxTier, MaxIds, MaxDeaths, MaxRepeats, MaxFaults} \subseteq Nat /\ PackFanout > 1

VARIABLES
    manifest,       \* the newest numbered manifest
    pending,        \* pending objects: the commit whose run each holds, by key
    files,          \* the layer and pack files stored
    plans,          \* of each split merge: its plan, its ranges' results and who claimed the swap
    queue,          \* layout.merge messages
    lease,          \* maintain/lease: free, its holder, or left by a dead one
    process,        \* what each commit and consumer is in the middle of
    named,          \* commits whose runs were ever named in a pending object
    next,           \* the next fresh name and the next pending key
    faults

vars == <<manifest, pending, files, plans, queue, lease, process, named, next, faults>>

Layer(id) == <<"layer", id>>
Pack(id) == <<"pack", id>>
Message(p, i) == [plan |-> p, range |-> i]

\* KeyedLayout.final: no merge takes such a pack, and the manifest does not list it.
Final(p) == p.tier >= MaxTier

\* The layer and the pack of a commit, written before it names them.
CommitLayer(c) == [id |-> c, run |-> c, seq |-> 0, nth |-> 0, at |-> [k \in KeysOf[c] |-> c]]
CommitPack(c) == [id |-> c, tier |-> 0, keys |-> KeysOf[c]]

\* A change of the manifest, and what a process remembers of one it is making.
NoChange ==
    [oldLayers |-> {}, oldPacks |-> {}, newLayers |-> {}, newPacks |-> {}, keepSeq |-> TRUE,
     forget |-> {}, adopts |-> {}]
EmptyManifest == [seq |-> 0, layers |-> {}, packs |-> {}, retired |-> {}, folded |-> {}, adopted |-> {}]
At(pc) ==
    [pc |-> pc, change |-> NoChange, then |-> "idle", base |-> EmptyManifest, listed |-> {},
     job |-> Message(0, 0), more |-> FALSE]
Idle == At("idle")
NoPlan == [layers |-> {}, seq |-> 0, there |-> FALSE, old |-> FALSE, claimed |-> FALSE,
           result |-> [i \in DOMAIN Ranges |-> {}], done |-> {}]

Init ==
    /\ manifest = EmptyManifest
    /\ pending = [k \in {} |-> 0]
    /\ files = {Layer(c) : c \in Commits} \cup {Pack(c) : c \in Commits}
    /\ plans = [p \in Plans |-> NoPlan]
    /\ queue = {} /\ lease = "free"
    /\ process = [x \in Processes |-> IF x \in Committers THEN At("append") ELSE Idle]
    /\ named = {}
    /\ next = [id |-> Len(KeysOf) + 1, key |-> 1]
    /\ faults = [deaths |-> 0, repeats |-> 0]

-----------------------------------------------------------------------------
(* The manifest.                                                           *)

TopSeq(m) == Max({m.seq} \cup {l.seq : l \in m.layers})

LayerIds(m) == {l.id : l \in m.layers}
PackIds(m) == {p.id : p \in m.packs}

\* Of two layers the one of the later sequence is newer, of two of one sequence the one
\* listed first.
Newer(a, b) == a.seq > b.seq \/ (a.seq = b.seq /\ a.nth < b.nth)

\* The pending objects m has not folded in.  A run that is there already, or in an object
\* before, is skipped.
Unfolded(m, keys) ==
    {k \in keys \ m.folded :
        pending[k] \notin LayerIds(m) /\ \A j \in keys \ m.folded : pending[j] = pending[k] => k <= j}

\* m with them, in the order of their keys, each a sequence past everything there.
WithPending(m, keys) ==
    LET ks == Unfolded(m, keys)
        folded(k) == [CommitLayer(pending[k]) EXCEPT !.seq = TopSeq(m) + Cardinality({j \in ks : j <= k})]
    IN [m EXCEPT !.layers = @ \cup {folded(k) : k \in ks},
                 !.packs = @ \cup {CommitPack(c) : c \in {pending[k] : k \in ks} \ Placed}]

Latest == WithPending(manifest, DOMAIN pending)

\* A layer put at the end of a list, at a sequence: the last of those there.
EndOf(ls, seq) == Max({0} \cup {l.nth + 1 : l \in {j \in ls : j.seq = seq}})

Appended(ls, l, seq) ==
    [l EXCEPT !.seq = seq, !.nth = EndOf(ls, seq)]

Kept(v, ch) == {l \in v.layers : l.id \notin ch.oldLayers}

\* A view with a change applied, a pack merge's layers at top.
ChangedAt(v, ch, top) ==
    [v EXCEPT !.layers = Kept(v, ch) \cup
                   {Appended(Kept(v, ch), l, IF ch.keepSeq THEN l.seq ELSE top) : l \in ch.newLayers},
              !.packs = {p \in @ : p.id \notin ch.oldPacks} \cup {p \in ch.newPacks : ~Final(p)}
                            \cup {CommitPack(c) : c \in ch.adopts},
              !.retired = (@ \ ch.forget) \cup {Layer(id) : id \in ch.oldLayers} \cup {Pack(id) : id \in ch.oldPacks},
              !.adopted = @ \cup ch.adopts]

\* Slip: not past the newest layer there is, but beside it.
ChangedBeside(v, ch) == ChangedAt(v, ch, TopSeq(v))

\* New layers keep their sequence, or are the newest: their places win over the old ones.
Changed(v, ch) == ChangedAt(v, ch, TopSeq([v EXCEPT !.layers = Kept(v, ch)]) + 1)

\* Slip: whether the packs were adopted before is not looked at.
AppliesAgain(v, ch) == ch.oldLayers \subseteq LayerIds(v) /\ ch.oldPacks \subseteq PackIds(v)

\* The change is made only if every input is still listed; an adoption, once.
Applies(v, ch) ==
    /\ ch.oldLayers \subseteq LayerIds(v) /\ ch.oldPacks \subseteq PackIds(v)
    /\ ch.adopts \cap v.adopted = {}

Outputs(ch) ==
    {Layer(l.id) : l \in ch.newLayers} \cup {Pack(p.id) : p \in ch.newPacks}

\* Another death or lost message, another repeat, within the bounds.
DeathLeft == faults.deaths < MaxDeaths /\ faults.deaths + faults.repeats < MaxFaults
RepeatLeft == faults.repeats < MaxRepeats /\ faults.deaths + faults.repeats < MaxFaults

Goto(x, pc) == process' = [process EXCEPT ![x].pc = pc]

\* update: the newest manifest and the pending objects are read, and the change put
\* off if it does not apply; what was written for it goes.
ReadNewest(x) ==
    /\ process[x].pc = "update"
    /\ IF Applies(Latest, process[x].change)
       THEN /\ process' = [process EXCEPT ![x].pc = "claim", ![x].base.seq = manifest.seq,
                                          ![x].listed = DOMAIN pending]
            /\ UNCHANGED files
       ELSE /\ Goto(x, process[x].then)
            /\ files' = files \ Outputs(process[x].change)
    /\ UNCHANGED <<manifest, pending, plans, queue, lease, named, next, faults>>

\* The next number is claimed, or was by another: then all of it again.
ClaimNumber(x) ==
    /\ process[x].pc = "claim"
    /\ LET keys == process[x].listed
       IN IF manifest.seq # process[x].base.seq
          THEN /\ process' = [process EXCEPT ![x].pc = "update", ![x].base = EmptyManifest, ![x].listed = {}]
               /\ UNCHANGED manifest
          ELSE /\ manifest' = [Changed(WithPending(manifest, keys), process[x].change) EXCEPT
                                 !.seq = @ + 1, !.folded = keys]
               /\ Goto(x, "clear")
    /\ UNCHANGED <<pending, files, plans, queue, lease, named, next, faults>>

\* The objects folded in are deleted.
ClearPending(x) ==
    /\ process[x].pc = "clear"
    /\ pending' = [k \in DOMAIN pending \ process[x].listed |-> pending[k]]
    /\ process' = [process EXCEPT ![x].pc = process[x].then, ![x].base = EmptyManifest, ![x].listed = {}]
    /\ UNCHANGED <<manifest, files, plans, queue, lease, named, next, faults>>

-----------------------------------------------------------------------------
(* A commit (server/src/push/parallel.ts assembleParallel): its runs are   *)
(* named in one pending object, its place saved, its uploads' packs listed. *)

\* appendRuns looks whether a try before this one named the runs: the manifest first,
\* the pending objects after it.
ReadManifest(c) ==
    /\ process[Committer(c)].pc = "append"
    /\ process' = [process EXCEPT ![Committer(c)].pc = "list", ![Committer(c)].base = manifest]
    /\ UNCHANGED <<manifest, pending, files, plans, queue, lease, named, next, faults>>

Known(m) == LayerIds(WithPending(m, DOMAIN pending)) \cup {id \in Ids : Layer(id) \in m.retired}

ListPending(c) ==
    LET x == Committer(c) IN
    /\ process[x].pc = "list" /\ (TornReads \/ process[x].base.seq = manifest.seq)
    /\ IF c \in Known(process[x].base) \/ Layer(c) \notin files
       THEN process' = [process EXCEPT ![x] = At("save")] /\ UNCHANGED next
       ELSE /\ process' = [process EXCEPT ![x] = [At("put") EXCEPT !.job.range = next.key]]
            /\ next' = [next EXCEPT !.key = @ + 1]
    /\ UNCHANGED <<manifest, pending, files, plans, queue, lease, named, faults>>

\* The key says when the object was put, which may be before one that is there already
\* (another host's clock, a slower write).
AppendRuns(c) ==
    LET x == Committer(c) IN
    /\ process[x].pc = "put" /\ (LateKeys \/ \A k \in DOMAIN pending : k < process[x].job.range)
    /\ pending' = [k \in DOMAIN pending \cup {process[x].job.range} |->
                     IF k = process[x].job.range THEN c ELSE pending[k]]
    /\ named' = named \cup {c}
    /\ process' = [process EXCEPT ![x] = At("save")]
    /\ UNCHANGED <<manifest, files, plans, queue, lease, next, faults>>

\* Its uploads' packs are listed in the manifest, once.
AdoptPacks(c) ==
    IF c \in Placed THEN [At("update") EXCEPT !.change.adopts = {c}, !.then = "done"] ELSE At("done")

\* The assembled tree is saved: a later try goes on from here.
SaveTree(c) ==
    LET x == Committer(c) IN
    /\ process[x].pc = "save"
    /\ process' = [process EXCEPT ![x] = AdoptPacks(c)]
    /\ UNCHANGED <<manifest, pending, files, plans, queue, lease, named, next, faults>>

Saved(x) == process[x].pc \in {"update", "claim", "clear"}

\* The job dies and is tried again.
CommitDies(c) ==
    LET x == Committer(c) IN
    /\ DeathLeft /\ process[x].pc \notin {"append", "done"}
    /\ process' = [process EXCEPT ![x] = IF Saved(x) THEN AdoptPacks(c) ELSE At("append")]
    /\ faults' = [faults EXCEPT !.deaths = @ + 1]
    /\ UNCHANGED <<manifest, pending, files, plans, queue, lease, named, next>>

-----------------------------------------------------------------------------
(* The maintain lease.                                                     *)

TakeLease(w) ==
    /\ process[w].pc = "idle" /\ lease = "free"
    /\ lease' = w
    /\ Goto(w, "layers")
    /\ UNCHANGED <<manifest, pending, files, plans, queue, named, next, faults>>

\* A lease older than a job can run is let go of for the job that died holding it, by a
\* read and a delete: a lease taken in between goes with it.
SeeDeadLease(w) ==
    /\ process[w].pc = "idle" /\ lease = "dead"
    /\ Goto(w, "break")
    /\ UNCHANGED <<manifest, pending, files, plans, queue, lease, named, next, faults>>

BreakLease(w) ==
    /\ process[w].pc = "break"
    /\ lease' = "free"
    /\ Goto(w, "idle")
    /\ UNCHANGED <<manifest, pending, files, plans, queue, named, next, faults>>

Release(w) ==
    /\ process[w].pc = "release"
    /\ lease' = IF lease = w THEN "free" ELSE lease
    /\ process' = [process EXCEPT ![w] = Idle]
    /\ UNCHANGED <<manifest, pending, files, plans, queue, named, next, faults>>

MaintainDies(w) ==
    /\ DeathLeft /\ process[w].pc \notin {"idle", "break"}
    /\ lease' = IF lease = w THEN "dead" ELSE lease
    /\ process' = [process EXCEPT ![w] = Idle]
    /\ faults' = [faults EXCEPT !.deaths = @ + 1]
    /\ UNCHANGED <<manifest, pending, files, plans, queue, named, next>>

-----------------------------------------------------------------------------
(* Merges of layers.                                                       *)

\* Where a record is, by some layers: in its newest entry.
NewestWith(ls, k) ==
    CHOOSE l \in ls : k \in DOMAIN l.at /\ \A j \in ls : k \in DOMAIN j.at => j = l \/ Newer(l, j)

\* The entries of layers, the newest winning, of the keys asked for.
Merged(ls, keys) ==
    [k \in {j \in keys : \E l \in ls : j \in DOMAIN l.at} |-> NewestWith(ls, k).at[k]]

InFlight == {p \in Plans : plans[p].there}
Blocked == {l.run : l \in UNION {plans[p].layers : p \in InFlight}}

OfRuns(ls, rs) == {l \in ls : l.run \in rs}

\* The layers of runs next to each other in sequence that no split merge holds.  Which
\* stretch is due, and whether it is split, goes by sizes, and is left open.
Stretches(ls) ==
    {OfRuns(ls, rs) : rs \in
        {rs \in SUBSET ({l.run : l \in ls} \ Blocked) :
            /\ Cardinality(rs) > 1
            /\ \A l \in ls \ OfRuns(ls, rs) : \/ \A j \in OfRuns(ls, rs) : Newer(l, j)
                                              \/ \A j \in OfRuns(ls, rs) : Newer(j, l)}}

NewestSeq(ls) == Max({l.seq : l \in ls})

\* One run of a stretch, in its newest input's place.
MergeLayers(w) ==
    /\ process[w].pc = "layers" /\ \A p \in InFlight : ~plans[p].old
    /\ next.id \in Ids
    /\ \E ls \in Stretches(Latest.layers) :
          process' = [process EXCEPT ![w] =
              [At("update") EXCEPT
                 !.change.oldLayers = {l.id : l \in ls},
                 !.change.newLayers = {[id |-> next.id, run |-> next.id, seq |-> NewestSeq(ls), nth |-> 0,
                                        at |-> Merged(ls, Keys)]},
                 !.then = "packs", !.more = TRUE]]
    /\ files' = files \cup {Layer(next.id)}
    /\ next' = [next EXCEPT !.id = @ + 1]
    /\ UNCHANGED <<manifest, pending, plans, queue, lease, named, faults>>

\* A large one is planned, and a message sent for each of its ranges.
SplitMerge(w) ==
    /\ process[w].pc = "layers" /\ \A p \in InFlight : ~plans[p].old
    /\ next.id \in Ids
    /\ \E ls \in Stretches(Latest.layers) :
          plans' = [plans EXCEPT ![next.id] =
                 [NoPlan EXCEPT !.layers = ls, !.seq = NewestSeq(ls), !.there = TRUE]]
    /\ queue' = queue \cup {Message(next.id, i) : i \in DOMAIN Ranges}
    /\ process' = [process EXCEPT ![w].pc = "packs", ![w].more = TRUE]
    /\ next' = [next EXCEPT !.id = @ + 1]
    /\ UNCHANGED <<manifest, pending, files, lease, named, faults>>

NoneDue(w) ==
    /\ process[w].pc = "layers" /\ \A p \in InFlight : ~plans[p].old
    /\ Goto(w, "packs")
    /\ UNCHANGED <<manifest, pending, files, plans, queue, lease, named, next, faults>>

-----------------------------------------------------------------------------
(* Merges of packs, and what was replaced.                                 *)

\* Packs of a tier into one of the next, with a newest layer that says where their
\* records are now.
MergePacks(w) ==
    /\ process[w].pc = "packs" /\ next.id \in Ids
    /\ \E tier \in 0 .. MaxTier : \E S \in SUBSET {p \in Latest.packs : p.tier = tier /\ ~Final(p)} :
          LET keys == UNION {p.keys : p \in S} IN
          /\ Cardinality(S) >= PackFanout
          /\ process' = [process EXCEPT ![w] =
                 [At("update") EXCEPT
                    !.change.oldPacks = {p.id : p \in S},
                    !.change.newPacks = {[id |-> next.id, tier |-> tier + 1, keys |-> keys]},
                    !.change.newLayers = {[id |-> next.id, run |-> next.id, seq |-> 0, nth |-> 0,
                                           at |-> [k \in keys |-> next.id]]},
                    !.change.keepSeq = FALSE, !.then = "pass", !.more = TRUE]]
    /\ files' = files \cup {Layer(next.id), Pack(next.id)}
    /\ next' = [next EXCEPT !.id = @ + 1]
    /\ UNCHANGED <<manifest, pending, plans, queue, lease, named, faults>>

NoPacksDue(w) ==
    /\ process[w].pc = "packs"
    /\ Goto(w, "pass")
    /\ UNCHANGED <<manifest, pending, files, plans, queue, lease, named, next, faults>>

\* Passes until nothing was due in one, or the budget is spent.
NextPass(w) ==
    /\ process[w].pc = "pass"
    /\ process' = [process EXCEPT ![w] = At(IF @.more THEN "layers" ELSE "sweep")]
    /\ UNCHANGED <<manifest, pending, files, plans, queue, lease, named, next, faults>>

EndPasses(w) ==
    /\ process[w].pc = "pass" /\ process[w].more
    /\ process' = [process EXCEPT ![w] = At("sweep")]
    /\ UNCHANGED <<manifest, pending, files, plans, queue, lease, named, next, faults>>

\* What is retired is deleted, then forgotten; or its grace is not over.
SweepRetired(w) ==
    /\ process[w].pc = "sweep"
    /\ \/ /\ Latest.retired # {}
          /\ files' = files \ Latest.retired
          /\ process' = [process EXCEPT ![w] =
                 [At("update") EXCEPT !.change.forget = Latest.retired, !.then = "release"]]
       \/ Goto(w, "release") /\ UNCHANGED files
    /\ UNCHANGED <<manifest, pending, plans, queue, lease, named, next, faults>>

-----------------------------------------------------------------------------
(* A split merge's jobs.                                                   *)

MayRepeat(p) == LateRepeats \/ \A l \in Latest.layers : l.run # p

\* The job's message, which may come again, finds the plan or nothing to do.
StartRange(g, m) ==
    /\ process[g].pc = "idle" /\ m \in queue /\ MayRepeat(m.plan)
    /\ \/ queue' = queue \ {m} /\ UNCHANGED faults
       \/ /\ RepeatLeft
          /\ faults' = [faults EXCEPT !.repeats = @ + 1]
          /\ UNCHANGED queue
    /\ process' = [process EXCEPT ![g] = IF plans[m.plan].there THEN [At("range") EXCEPT !.job = m] ELSE Idle]
    /\ UNCHANGED <<manifest, pending, files, plans, lease, named, next>>

PlanOf(g) == plans[process[g].job.plan]

\* Its inputs went: the merge is dropped.  Otherwise its part of the run is written.
CheckInputs(g) ==
    /\ process[g].pc = "range" /\ MayRepeat(process[g].job.plan)
    /\ Goto(g, IF {l.id : l \in PlanOf(g).layers} \subseteq LayerIds(Latest) THEN "write" ELSE "dropAll")
    /\ UNCHANGED <<manifest, pending, files, plans, queue, lease, named, next, faults>>

MergeRange(g) ==
    LET p == process[g].job.plan
        i == process[g].job.range
        at == Merged(plans[p].layers, Ranges[i])
    IN /\ process[g].pc = "write" /\ next.id \in Ids
       /\ IF DOMAIN at = {}
          THEN /\ plans' = [plans EXCEPT ![p].result[i] = {}, ![p].done = @ \cup {i}]
               /\ UNCHANGED <<files, next>>
          ELSE /\ plans' = [plans EXCEPT
                     ![p].result[i] = {[id |-> next.id, run |-> p, seq |-> plans[p].seq, nth |-> 0, at |-> at]},
                     ![p].done = @ \cup {i}]
               /\ files' = files \cup {Layer(next.id)}
               /\ next' = [next EXCEPT !.id = @ + 1]
       /\ Goto(g, "count")
       /\ UNCHANGED <<manifest, pending, queue, lease, named, faults>>

\* The last range done swaps the run in, and only the first to claim it.
CountRanges(g) ==
    /\ process[g].pc = "count"
    /\ IF PlanOf(g).done = DOMAIN Ranges THEN Goto(g, "swap") ELSE process' = [process EXCEPT ![g] = Idle]
    /\ UNCHANGED <<manifest, pending, files, plans, queue, lease, named, next, faults>>

ClaimSwap(g) ==
    /\ process[g].pc = "swap"
    /\ IF PlanOf(g).claimed
       THEN process' = [process EXCEPT ![g] = Idle] /\ UNCHANGED plans
       ELSE plans' = [plans EXCEPT ![process[g].job.plan].claimed = TRUE] /\ Goto(g, "results")
    /\ UNCHANGED <<manifest, pending, files, queue, lease, named, next, faults>>

Results(p) == UNION {p.result[i] : i \in DOMAIN Ranges}

MergeSwap(g) ==
    /\ process[g].pc = "results"
    /\ IF PlanOf(g).done # DOMAIN Ranges THEN Goto(g, "dropping")
       ELSE process' = [process EXCEPT ![g] =
              [At("update") EXCEPT !.change.oldLayers = {l.id : l \in PlanOf(g).layers},
                                   !.change.newLayers = Results(PlanOf(g)),
                                   !.then = "dropping", !.job = process[g].job]]
    /\ UNCHANGED <<manifest, pending, files, plans, queue, lease, named, next, faults>>

\* #dropMerge: the plan and its results go; for a merge given up, the files of the
\* results found too.
ListMerge(g) ==
    /\ process[g].pc = "dropAll"
    /\ process' = [process EXCEPT ![g].pc = "dropping",
                                  ![g].listed = {Layer(l.id) : l \in Results(PlanOf(g))}]
    /\ UNCHANGED <<manifest, pending, files, plans, queue, lease, named, next, faults>>

DropMerge(g) ==
    /\ process[g].pc = "dropping"
    /\ plans' = [plans EXCEPT ![process[g].job.plan] = NoPlan]
    /\ files' = files \ process[g].listed
    /\ process' = [process EXCEPT ![g] = At(IF g \in Maintainers THEN "layers" ELSE "idle")]
    /\ UNCHANGED <<manifest, pending, queue, lease, named, next, faults>>

\* The job dies and its message comes again.
MergeDies(g) ==
    /\ RepeatLeft /\ process[g].pc # "idle" /\ MayRepeat(process[g].job.plan)
    /\ queue' = queue \cup {process[g].job}
    /\ process' = [process EXCEPT ![g] = Idle]
    /\ faults' = [faults EXCEPT !.repeats = @ + 1]
    /\ UNCHANGED <<manifest, pending, files, plans, lease, named, next>>

LoseMessage(m) ==
    /\ DeathLeft /\ m \in queue
    /\ queue' = queue \ {m}
    /\ faults' = [faults EXCEPT !.deaths = @ + 1]
    /\ UNCHANGED <<manifest, pending, files, plans, lease, process, named, next>>

\* MERGE_ABANDON_MS passes.  It is longer than a message waits and its job runs.
Age(p) ==
    /\ plans[p].there /\ ~plans[p].old
    /\ \A m \in queue : m.plan # p
    /\ \A g \in Mergers : process[g].job.plan # p
    /\ plans' = [plans EXCEPT ![p].old = TRUE]
    /\ UNCHANGED <<manifest, pending, files, queue, lease, process, named, next, faults>>

\* #mergesInFlight, before a merge of layers: what is too old is dropped.
Abandon(w) ==
    /\ process[w].pc = "layers"
    /\ \E p \in InFlight :
          /\ plans[p].old
          /\ process' = [process EXCEPT ![w].pc = "dropAll", ![w].job = Message(p, 0)]
    /\ UNCHANGED <<manifest, pending, files, plans, queue, lease, named, next, faults>>

-----------------------------------------------------------------------------

Change(x) == ReadNewest(x) \/ ClaimNumber(x) \/ ClearPending(x)

Commit(c) ==
    \/ ReadManifest(c) \/ ListPending(c) \/ AppendRuns(c) \/ SaveTree(c)
    \/ CommitDies(c)

Maintain(w) ==
    \/ TakeLease(w) \/ SeeDeadLease(w) \/ BreakLease(w) \/ Release(w) \/ MaintainDies(w)
    \/ MergeLayers(w) \/ SplitMerge(w) \/ NoneDue(w) \/ Abandon(w)
    \/ MergePacks(w) \/ NoPacksDue(w) \/ NextPass(w) \/ EndPasses(w) \/ SweepRetired(w)

Merge(g) ==
    \/ \E m \in queue : StartRange(g, m)
    \/ CheckInputs(g) \/ MergeRange(g) \/ CountRanges(g) \/ ClaimSwap(g) \/ MergeSwap(g) \/ MergeDies(g)

Next ==
    \/ \E x \in Processes : Change(x)
    \/ \E c \in Commits : Commit(c)
    \/ \E w \in Maintainers : Maintain(w)
    \/ \E g \in Mergers : Merge(g)
    \/ \E x \in Maintainers \cup Mergers : ListMerge(x) \/ DropMerge(x)
    \/ \E m \in queue : LoseMessage(m)
    \/ \E p \in Plans : Age(p)

Spec == Init /\ [][Next]_vars

-----------------------------------------------------------------------------
(* Properties.                                                             *)

\* Every state variable has its type; a view lists no file twice, and nothing that it
\* has retired.
TypeOK ==
    /\ \A l, j \in Latest.layers : l.id = j.id => l = j
    /\ \A p, q \in Latest.packs : p.id = q.id => p = q
    /\ \A l \in Latest.layers :
          /\ l.id \in Ids /\ l.run \in Ids /\ l.seq \in Nat \ {0} /\ l.nth \in Nat
          /\ Layer(l.id) \notin Latest.retired
          /\ DOMAIN l.at \subseteq Keys /\ \A k \in DOMAIN l.at : l.at[k] \in Ids
    /\ \A p \in Latest.packs : p.id \in Ids /\ p.keys \subseteq Keys /\ Pack(p.id) \notin Latest.retired
    /\ files \subseteq {Layer(id) : id \in Ids} \cup {Pack(id) : id \in Ids}
    /\ manifest.folded \subseteq Nat /\ manifest.adopted \subseteq Placed
    /\ named \subseteq Commits
    /\ lease \in {"free", "dead"} \cup Maintainers

\* types.ts, keyed.ts 1-19: every layer a lookup may have to read is stored, whatever is
\* merged, retired or given up meanwhile.
LayersStored == \A l \in Latest.layers : Layer(l.id) \in files

\* types.ts, keyed.ts 1-19: a record that a commit named is found in the newest manifest,
\* in a pack that is there, whatever is merged, retired, adopted or tried again meanwhile.
NothingLost ==
    /\ LayersStored
    /\ \A c \in named : \A k \in KeysOf[c] :
          /\ \E l \in Latest.layers : k \in DOMAIN l.at
          /\ Pack(NewestWith(Latest.layers, k).at[k]) \in files
================================================================================
