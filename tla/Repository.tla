----------------------------- MODULE Repository -----------------------------
(***************************************************************************)
(* What the content-addressed repository promises its readers, with no     *)
(* clocks, windows or epochs: a version is published only over objects     *)
(* that are there, and only objects no version reaches are ever deleted.   *)
(* StorageFence is the protocol the server runs to keep that promise.      *)
(***************************************************************************)
EXTENDS Naturals

CONSTANTS
    Objects,      \* keys of the repository: nodes, records, files, roots
    Collections

VARIABLES
    store,        \* the objects present
    live          \* the published versions of the collections that exist

repository == <<store, live>>

\* `by` is the collection, `seq` the place in its history, `at` the
\* publishing server's clock.
Version == [by : Collections, seq : Nat, needs : SUBSET Objects, at : Nat]

Reached == UNION {v.needs : v \in live}

RepositoryInit ==
    /\ store \subseteq Objects
    /\ live \subseteq Version
    /\ Reached \subseteq store

Write(o) ==
    /\ o \notin store
    /\ store' = store \cup {o}
    /\ UNCHANGED live

\* Nothing of the version is missing as it becomes visible.
PublishVersion(v) ==
    /\ v \in Version
    /\ v.needs \subseteq store
    /\ live' = live \cup {v}
    /\ UNCHANGED store

Drop(c) ==
    /\ live' = {v \in live : v.by # c}
    /\ UNCHANGED store

Delete(o) ==
    /\ o \in store \ Reached
    /\ store' = store \ {o}
    /\ UNCHANGED live

RepositoryNext ==
    \/ \E o \in Objects : Write(o) \/ Delete(o)
    \/ \E v \in live' : PublishVersion(v)
    \/ \E c \in Collections : Drop(c)

RepositorySpec == RepositoryInit /\ [][RepositoryNext]_repository
=============================================================================
