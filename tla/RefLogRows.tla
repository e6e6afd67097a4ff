------------------------------- MODULE RefLogRows -------------------------------
(***************************************************************************)
(* The state of the reference log, which RefLog's actions change: its      *)
(* parameters, its rows, objects and messages, and what a collection is    *)
(* billed for.                                                             *)
(***************************************************************************)
EXTENDS Naturals, Sequences, FiniteSets, Functions

CONSTANTS
    Collection,     \* of each version
    Forked,         \* versions that are the first of a fork
    Units,          \* of each version, the key ranges it is indexed in
    Hash,           \* of each event, in the order of compareEvents
    VersionOf,      \* of each event
    UnitOf,         \* of each event, the key range it falls in
    Middle,         \* the hash a merge in two parts is cut at
    Deletable,      \* collections deleted meanwhile
    Consumers,      \* queue consumers
    FanIn,          \* FAN_IN
    SegmentMax,     \* SEGMENT_MAX_EVENTS
    PartEvents,     \* PART_EVENTS
    MaxMerges,      \* rows of ref_compactions, a bound
    MaxUpsets       \* crashes and repeated messages, a bound

VersionIds == DOMAIN Collection
AllEvents == DOMAIN Hash

ASSUME RefLogConstants ==
    /\ Hash \in Seq(Nat) /\ \A i, j \in AllEvents : i < j => Hash[i] <= Hash[j]
    /\ \A e \in AllEvents : VersionOf[e] \in VersionIds \ Forked /\ UnitOf[e] \in 1 .. Units[VersionOf[e]]
    /\ \A v \in VersionIds : Units[v] \in Nat \ {0}
    /\ FanIn \in Nat \ {0, 1} /\ SegmentMax \in Nat \ {0}
    /\ {PartEvents, MaxMerges, MaxUpsets, Middle} \subseteq Nat

VARIABLES
    version,        \* of each version, its row: unindexed, indexed, or gone with its collection
    billed,         \* collections.ref_events
    unitRows,       \* the ref_index_units rows
    segment,        \* the ref_segments rows, by id
    object,         \* of each segment stored, its events
    merge,          \* the ref_compactions rows, in the order they were inserted
    queue,          \* messages; a second copy of one that waits is a Redeliver
    consumer,       \* what each consumer is in the middle of
    upsets

-----------------------------------------------------------------------------
Gone == {Collection[v] : v \in {u \in VersionIds : version[u] = "gone"}}

\* A collection is billed for the events of its indexed versions and for no other, each once,
\* however many jobs finish a version (log.ts 311-315).
BilledOnce ==
    \A c \in Range(Collection) \ Gone :
        billed[c] = Cardinality({e \in AllEvents : /\ Collection[VersionOf[e]] = c
                                                   /\ version[VersionOf[e]] = "indexed"})
================================================================================
