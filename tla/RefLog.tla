--------------------------------- MODULE RefLog ---------------------------------
(***************************************************************************)
(* The reference log (server/src/refs/log.ts, segments.ts).                *)
(*                                                                         *)
(* A published version is indexed by a job, or by one per key range; each  *)
(* writes its events as segments of a pending run, and the last to finish  *)
(* puts them live.  FAN_IN live runs of a tier are merged into one of the  *)
(* next, a job per range of hashes, and swapped in by the last.  Segments  *)
(* are objects, named by run, part and number; what a query reads is       *)
(* decided by their rows.  Jobs are delivered at least once and die at any *)
(* await.  A job's reads are one action, each of its writes is another.    *)
(***************************************************************************)
EXTENDS RefLogRows, FiniteSetsExt, SequencesExt, TLC

vars == <<version, billed, unitRows, segment, object, merge, queue, consumer, upsets>>

UnitEvents(v, u) == {e \in AllEvents : VersionOf[e] = v /\ UnitOf[e] = u}

VersionRun(v, u) == <<"v", v, u>>
OutputRun(k) == <<"c", k, 0>>

IndexJob(v) == <<"refs.index", v, 1>>
UnitJob(v, u) == <<"refs.indexUnit", v, u>>
PlanJob == <<"refs.compact", 0, 0>>
PartJob(k, p) == <<"refs.compactPart", k, p>>
FinishJob(k) == <<"refs.finishCompaction", k, 0>>

Merges == 1 .. MaxMerges
Parts == 1 .. 2

VersionRuns == {VersionRun(v, u) : v \in VersionIds, u \in 1 .. Max(Range(Units))}
RunIds == VersionRuns \cup {OutputRun(k) : k \in Merges}

Messages ==
    {IndexJob(v) : v \in VersionIds} \cup {PlanJob}
        \cup {UnitJob(v, u) : v \in VersionIds, u \in 1 .. Max(Range(Units))}
        \cup {PartJob(k, p) : k \in Merges, p \in Parts} \cup {FinishJob(k) : k \in Merges}

SegmentRow ==
    [run : RunIds, tier : Nat, first : Range(Hash), last : Range(Hash), count : 1 .. SegmentMax,
     state : {"pending", "live", "retired"}]

MergeRow ==
    [tier : Nat, inputs : SUBSET RunIds, parts : Parts, status : {"running", "done"},
     done : SUBSET Parts]

Pcs == {"idle", "put", "rows", "count", "live", "announce", "pick", "merge", "swap", "delete"}

Idle == [pc |-> "idle", job |-> PlanJob, out |-> <<>>, events |-> 0, segs |-> {}]

Init ==
    /\ version = [v \in VersionIds |-> "unindexed"]
    /\ billed = [c \in Range(Collection) |-> 0]
    /\ unitRows = {}
    /\ segment = [id \in {} |-> 0]
    /\ object = [id \in {} |-> 0]
    /\ merge = <<>>
    /\ queue = {IndexJob(v) : v \in VersionIds}
    /\ consumer = [w \in Consumers |-> Idle]
    /\ upsets = 0

-----------------------------------------------------------------------------
(* Segments.                                                               *)

\* Slip: a segment is closed before the event that would pass the limit, not at the limit.
CutLate(es) ==
    LET size == SegmentMax + 1
        n == (Len(es) + size - 1) \div size
    IN [i \in 1 .. n |-> SubSeq(es, (i - 1) * size + 1, Min({i * size, Len(es)}))]

\* Sorted events as segments of at most SegmentMax.
Cut(es) ==
    LET n == (Len(es) + SegmentMax - 1) \div SegmentMax
    IN [i \in 1 .. n |-> SubSeq(es, (i - 1) * SegmentMax + 1, Min({i * SegmentMax, Len(es)}))]

\* A query reads the live segments whose row covers the hash.
Found(e) ==
    \E id \in DOMAIN segment :
        /\ segment[id].state = "live"
        /\ segment[id].first <= Hash[e] /\ Hash[e] <= segment[id].last
        /\ id \in DOMAIN object /\ \E i \in DOMAIN object[id] : object[id][i] = e

\* The hashes of a part: the first up to Middle, the second from there, or one for all.
InPart(e, p, parts) == parts = 1 \/ (p = 1 <=> Hash[e] < Middle)

\* `lte(firstHash, to)`, `gte(lastHash, from)`: a superset, which readSegment narrows.
Overlaps(row, p, parts) == parts = 1 \/ IF p = 1 THEN row.first <= Middle ELSE row.last >= Middle

Changed(x, changes) == [f \in DOMAIN x |-> IF f \in DOMAIN changes THEN changes[f] ELSE x[f]]

Set(w, changes) == consumer' = [consumer EXCEPT ![w] = Changed(consumer[w], changes)]

Done(w) == consumer' = [consumer EXCEPT ![w] = Idle]

Receive(w, m) == consumer[w].pc = "idle" /\ m \in queue

Job(w) == consumer[w].job[1]

RunOf(w) == IF Job(w) = "refs.compactPart" THEN OutputRun(consumer[w].job[2])
            ELSE VersionRun(consumer[w].job[2], consumer[w].job[3])

IdOf(w, i) == <<RunOf(w), IF Job(w) = "refs.compactPart" THEN consumer[w].job[3] ELSE 0, i>>

\* onConflictDoNothing: a row that is there stays as it is.
Inserted(w, tier) ==
    LET out == consumer[w].out
        row(es) == [run |-> RunOf(w), tier |-> tier, first |-> Hash[es[1]],
                    last |-> Hash[es[Len(es)]], count |-> Len(es), state |-> "pending"]
        ids == {IdOf(w, i) : i \in DOMAIN out}
    IN [id \in DOMAIN segment \cup ids |->
            IF id \in DOMAIN segment THEN segment[id] ELSE row(out[id[3]])]

\* SegmentWriter.finish: the job's segments, whatever is stored under their ids.  They are stored
\* one by one, but are nothing to anybody before their rows.
PutSegments(w) ==
    /\ consumer[w].pc = "put"
    /\ LET put == [id \in {IdOf(w, i) : i \in DOMAIN consumer[w].out} |-> consumer[w].out[id[3]]]
       IN object' = put @@ object
    /\ Set(w, [pc |-> "rows"])
    /\ UNCHANGED <<version, billed, unitRows, segment, merge, queue, upsets>>

-----------------------------------------------------------------------------
(* Indexing a version.                                                     *)

Sorted(es) == SetToSortSeq(es, <)

IndexOne(w, v, u) ==
    Set(w, [pc |-> "put", job |-> IF Units[v] = 1 THEN IndexJob(v) ELSE UnitJob(v, u),
            out |-> Cut(Sorted(UnitEvents(v, u)))])

\* indexVersion: a fork's first version has no events; a large one goes out in units.
Index(w, v) ==
    /\ Receive(w, IndexJob(v))
    /\ \/ /\ version[v] # "unindexed"
          /\ queue' = queue \ {IndexJob(v)} /\ UNCHANGED consumer
       \/ /\ version[v] = "unindexed" /\ v \in Forked
          /\ Set(w, [pc |-> "live", job |-> IndexJob(v)]) /\ queue' = queue \ {IndexJob(v)}
       \/ /\ version[v] = "unindexed" /\ v \notin Forked /\ Units[v] = 1
          /\ IndexOne(w, v, 1) /\ queue' = queue \ {IndexJob(v)}
       \/ /\ version[v] = "unindexed" /\ v \notin Forked /\ Units[v] > 1
          /\ queue' = (queue \ {IndexJob(v)}) \cup {UnitJob(v, u) : u \in 1 .. Units[v]}
          /\ UNCHANGED consumer
    /\ UNCHANGED <<version, billed, unitRows, segment, object, merge, upsets>>

IndexUnit(w, v, u) ==
    /\ Receive(w, UnitJob(v, u))
    /\ IF version[v] # "unindexed" THEN UNCHANGED consumer ELSE IndexOne(w, v, u)
    /\ queue' = queue \ {UnitJob(v, u)}
    /\ UNCHANGED <<version, billed, unitRows, segment, object, merge, upsets>>

Indexing(w) == Job(w) \in {"refs.index", "refs.indexUnit"}

InsertUnit(w) ==
    /\ Indexing(w) /\ consumer[w].pc = "rows"
    /\ segment' = Inserted(w, 0)
    /\ unitRows' = unitRows \cup {<<consumer[w].job[2], consumer[w].job[3]>>}
    /\ Set(w, [pc |-> "count", out |-> <<>>])
    /\ UNCHANGED <<version, billed, object, merge, queue, upsets>>

CountUnits(w) ==
    /\ Indexing(w) /\ consumer[w].pc = "count"
    /\ LET v == consumer[w].job[2]
           units == {r[2] : r \in {x \in unitRows : x[1] = v}}
       IN IF Cardinality(units) = Units[v]
          THEN Set(w, [pc |-> "live",
                       events |-> Cardinality(UNION {UnitEvents(v, u) : u \in units})])
          ELSE Done(w)
    /\ UNCHANGED <<version, billed, unitRows, segment, object, merge, queue, upsets>>

\* Slip: the counters are not under the batch's condition.
BilledAlways(v, n) == IF version[v] # "gone" THEN n ELSE 0

\* What finishIndex adds to the collection's counters: nothing once the version is indexed.
BilledFor(v, n) == IF version[v] = "unindexed" THEN n ELSE 0

\* Slip: the run is matched by the id of a version indexed whole.
WholeRun(v) == IF Units[v] = 1 THEN {VersionRun(v, 1)} ELSE {}

\* `LIKE 'v-<id>%'`: every unit's run.
RunsOf(v) == {VersionRun(v, u) : u \in 1 .. Units[v]}

FinishIndex(w) ==
    /\ consumer[w].pc = "live"
    /\ LET v == consumer[w].job[2]
       IN /\ segment' = [id \in DOMAIN segment |->
                 IF /\ version[v] = "unindexed" /\ segment[id].run \in RunsOf(v)
                    /\ segment[id].state = "pending"
                 THEN [segment[id] EXCEPT !.state = "live"] ELSE segment[id]]
          /\ billed' = [billed EXCEPT ![Collection[v]] = @ + BilledFor(v, consumer[w].events)]
          /\ version' = [version EXCEPT ![v] = IF @ = "gone" THEN @ ELSE "indexed"]
          /\ unitRows' = {r \in unitRows : r[1] # v}
    /\ Set(w, [pc |-> "announce"])
    /\ UNCHANGED <<object, merge, queue, upsets>>

\* The last statement of finishIndex and of finishCompaction.
Announce(w) ==
    /\ consumer[w].pc = "announce"
    /\ queue' = queue \cup {PlanJob}
    /\ Done(w)
    /\ UNCHANGED <<version, billed, unitRows, segment, object, merge, upsets>>

-----------------------------------------------------------------------------
(* Merging runs.                                                           *)

\* planCompaction: one merge at a time, as far as this check goes.
Plan(w) ==
    /\ Receive(w, PlanJob)
    /\ IF \E k \in DOMAIN merge : merge[k].status = "running"
       THEN UNCHANGED consumer ELSE Set(w, [pc |-> "pick", job |-> PlanJob])
    /\ queue' = queue \ {PlanJob}
    /\ UNCHANGED <<version, billed, unitRows, segment, object, merge, upsets>>

LiveRuns(t) == {segment[id].run : id \in {x \in DOMAIN segment :
                                            segment[x].state = "live" /\ segment[x].tier = t}}

FullTiers == {t \in 0 .. MaxMerges : Cardinality(LiveRuns(t)) >= FanIn}

RowsOf(runs) == {id \in DOMAIN segment : segment[id].run \in runs}

\* The oldest FanIn runs of the lowest full tier; created_at does not tell the model's runs
\* apart, so any FanIn may be the oldest.  MaxMerges bounds the rows.
InsertMerge(w) ==
    /\ consumer[w].pc = "pick"
    /\ IF FullTiers = {} \/ Len(merge) = MaxMerges
       THEN UNCHANGED <<merge, queue>>
       ELSE \E runs \in kSubset(FanIn, LiveRuns(Min(FullTiers))) :
               LET total == MapThenSumSet(LAMBDA id : segment[id].count, RowsOf(runs))
                   parts == IF total > PartEvents THEN 2 ELSE 1
               IN /\ merge' = Append(merge, [tier |-> Min(FullTiers), inputs |-> runs, parts |-> parts,
                                             status |-> "running", done |-> {}])
                  /\ queue' = queue \cup {PartJob(Len(merge'), p) : p \in 1 .. parts}
    /\ Done(w)
    /\ UNCHANGED <<version, billed, unitRows, segment, object, upsets>>

\* compactPart and finishCompaction read the merge, which takes no more of either once it is done,
\* and the inputs' rows: a part those that overlap its hashes.
Begin(w, m, pc, segs) ==
    /\ Receive(w, m)
    /\ queue' = queue \ {m}
    /\ IF merge[m[2]].status = "running"
       THEN Set(w, [pc |-> pc, job |-> m, segs |-> segs])
       ELSE UNCHANGED consumer
    /\ UNCHANGED <<version, billed, unitRows, segment, object, merge, upsets>>

BeginPart(w, k, p) ==
    Begin(w, PartJob(k, p), "merge",
          {id \in RowsOf(merge[k].inputs) : Overlaps(segment[id], p, merge[k].parts)})

\* The inputs' ids are read before they are retired: their objects go after it.
BeginFinish(w, k) == Begin(w, FinishJob(k), "swap", RowsOf(merge[k].inputs))

\* The inputs' events of the part's hashes, in order, but for deleted collections'.
Merged(k, p, segs) ==
    LET kept(e) == InPart(e, p, merge[k].parts) /\ Collection[VersionOf[e]] \notin Gone
        all == FoldSet(LAMBDA id, acc : acc \o object[id], <<>>, segs)
    IN SortSeq(SelectSeq(all, kept), <)

\* A segment that is gone makes the job throw, and the queue delivers it again.
MergePart(w) ==
    /\ consumer[w].pc = "merge"
    /\ LET k == consumer[w].job[2]
           p == consumer[w].job[3]
           segs == consumer[w].segs
       IN IF segs \subseteq DOMAIN object
          THEN Set(w, [pc |-> "put", out |-> Cut(Merged(k, p, segs)), segs |-> {}]) /\ UNCHANGED queue
          ELSE Done(w) /\ queue' = queue \cup {consumer[w].job}
    /\ UNCHANGED <<version, billed, unitRows, segment, object, merge, upsets>>

InsertPart(w) ==
    /\ Job(w) = "refs.compactPart" /\ consumer[w].pc = "rows"
    /\ LET k == consumer[w].job[2]
       IN /\ segment' = Inserted(w, merge[k].tier + 1)
          /\ merge' = [merge EXCEPT ![k].done = @ \cup {consumer[w].job[3]}]
    /\ Set(w, [pc |-> "count", out |-> <<>>])
    /\ UNCHANGED <<version, billed, unitRows, object, queue, upsets>>

CountParts(w) ==
    /\ Job(w) = "refs.compactPart" /\ consumer[w].pc = "count"
    /\ LET k == consumer[w].job[2]
       IN queue' = IF Cardinality(merge[k].done) = merge[k].parts
                   THEN queue \cup {FinishJob(k)} ELSE queue
    /\ Done(w)
    /\ UNCHANGED <<version, billed, unitRows, segment, object, merge, upsets>>

Swap(w) ==
    /\ consumer[w].pc = "swap"
    /\ LET k == consumer[w].job[2]
       IN /\ segment' = [id \in DOMAIN segment |->
                [segment[id] EXCEPT !.state =
                    IF segment[id].run \in merge[k].inputs THEN "retired"
                    ELSE IF segment[id].run = OutputRun(k) THEN "live" ELSE @]]
          /\ merge' = [merge EXCEPT ![k].status = "done"]
    /\ Set(w, [pc |-> "delete"])
    /\ UNCHANGED <<version, billed, unitRows, object, queue, upsets>>

\* One by one in the code; without any of them a merge of the run throws all the same.
DeleteObjects(w) ==
    /\ consumer[w].pc = "delete" /\ consumer[w].segs # {}
    /\ object' = [x \in DOMAIN object \ consumer[w].segs |-> object[x]]
    /\ Set(w, [segs |-> {}])
    /\ UNCHANGED <<version, billed, unitRows, segment, merge, queue, upsets>>

DeleteRows(w) ==
    /\ consumer[w].pc = "delete" /\ consumer[w].segs = {}
    /\ LET old == RowsOf(merge[consumer[w].job[2]].inputs)
       IN segment' = [id \in DOMAIN segment \ old |-> segment[id]]
    /\ Set(w, [pc |-> "announce"])
    /\ UNCHANGED <<version, billed, unitRows, object, merge, queue, upsets>>

-----------------------------------------------------------------------------
(* What happens to jobs and collections.                                   *)

Upset == upsets < MaxUpsets /\ upsets' = upsets + 1

Crash(w) ==
    /\ consumer[w].pc # "idle" /\ Upset
    /\ queue' = queue \cup {consumer[w].job}
    /\ Done(w)
    /\ UNCHANGED <<version, billed, unitRows, segment, object, merge>>

\* At least once: the message of a job that runs is delivered to another.
Redeliver(w) ==
    /\ consumer[w].pc # "idle" /\ Upset
    /\ queue' = queue \cup {consumer[w].job}
    /\ UNCHANGED <<version, billed, unitRows, segment, object, merge, consumer>>

\* The collection's rows give way to a tombstone, its versions' with them.
DeleteCollection(c) ==
    /\ c \in Deletable \ Gone
    /\ version' = [v \in VersionIds |-> IF Collection[v] = c THEN "gone" ELSE version[v]]
    /\ UNCHANGED <<billed, unitRows, segment, object, merge, queue, consumer, upsets>>

-----------------------------------------------------------------------------
Take(w) ==
    \/ \E v \in VersionIds : Index(w, v) \/ \E u \in 1 .. Units[v] : IndexUnit(w, v, u)
    \/ Plan(w)
    \/ \E k \in DOMAIN merge : BeginFinish(w, k) \/ \E p \in Parts : BeginPart(w, k, p)

Step(w) ==
    \/ PutSegments(w) \/ InsertUnit(w) \/ CountUnits(w) \/ FinishIndex(w) \/ Announce(w)
    \/ InsertMerge(w) \/ MergePart(w) \/ InsertPart(w) \/ CountParts(w)
    \/ Swap(w) \/ DeleteObjects(w) \/ DeleteRows(w)

Next ==
    \/ \E w \in Consumers : Take(w) \/ Step(w) \/ Crash(w) \/ Redeliver(w)
    \/ \E c \in Deletable : DeleteCollection(c)

Spec == Init /\ [][Next]_vars

-----------------------------------------------------------------------------
(* Properties.                                                             *)

\* The rows, objects, messages and jobs have the types of their columns, and no segment passes
\* SEGMENT_MAX_EVENTS (segments.ts 108-118).
TypeOK ==
    /\ version \in [VersionIds -> {"unindexed", "indexed", "gone"}]
    /\ billed \in [Range(Collection) -> Nat]
    /\ unitRows \subseteq UNION {{v} \X (1 .. Units[v]) : v \in VersionIds}
    /\ Range(segment) \subseteq SegmentRow
    /\ Range(object) \subseteq Seq(AllEvents)
    /\ merge \in Seq(MergeRow) /\ Len(merge) <= MaxMerges
    /\ queue \subseteq Messages
    /\ \A w \in Consumers : consumer[w].pc \in Pcs /\ consumer[w].job \in Messages
    /\ upsets \in 0 .. MaxUpsets

\* The segments implement the promise: a version's events appear together, when it is marked
\* indexed, and no merge, retried, repeated or overlapping another, hides one or shows one early.
Promise == INSTANCE Provenance WITH
    Versions <- VersionIds,
    Events <- [v \in VersionIds |-> {e \in AllEvents : VersionOf[e] = v}],
    indexed <- {v \in VersionIds : version[v] = "indexed"},
    found <- {e \in AllEvents : Found(e)},
    gone <- Gone

ImplementsProvenance == Promise!Spec

\* What queries find, whatever the merges do (segments.ts, log.ts 529-546).
NoFalseNegatives ==
    \A e \in AllEvents : version[VersionOf[e]] = "indexed" => Found(e)
================================================================================
