------------------------------- MODULE Provenance -------------------------------
(***************************************************************************)
(* What the reference log promises a query (server/src/refs/log.ts 1-19):  *)
(* the events of an indexed version are found, all of them from one moment *)
(* on, and stay found while the collection lives.  There are no segments,  *)
(* runs or jobs here; a merge is no step, but that the events of a deleted *)
(* collection may be gone after one, or back after a repeated one.         *)
(***************************************************************************)
CONSTANTS
    Versions,
    Collection,     \* of each version
    Events          \* of each version, the additions and removals it made

VARIABLES
    indexed,        \* versions whose refs_indexed is set
    found,          \* the events queries find
    gone            \* collections deleted

Init == indexed = {} /\ found = {} /\ gone = {}

Index(v) ==
    /\ v \notin indexed /\ Collection[v] \notin gone
    /\ indexed' = indexed \cup {v}
    /\ found' = found \cup Events[v]
    /\ UNCHANGED gone

Delete(c) ==
    /\ gone' = gone \cup {c}
    /\ indexed' = {v \in indexed : Collection[v] # c}
    /\ UNCHANGED found

\* The events of a deleted collection may be found or not.
Linger ==
    /\ found' \in SUBSET (found \cup UNION {Events[v] : v \in {u \in Versions : Collection[u] \in gone}})
    /\ \A v \in indexed : Events[v] \subseteq found'
    /\ UNCHANGED <<indexed, gone>>

Next ==
    \/ \E v \in Versions : Index(v)
    \/ \E c \in {Collection[v] : v \in Versions} : Delete(c)
    \/ Linger

Spec == Init /\ [][Next]_<<indexed, found, gone>>
================================================================================
