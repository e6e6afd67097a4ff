-------------------------------- MODULE Uploads --------------------------------
(***************************************************************************)
(* What the runs of a push session promise the rest of the program,        *)
(* whatever compaction does to them (server/src/push/runs.ts 30-35,        *)
(* compact.ts 18-26): the session holds, of each key, the entry of the     *)
(* latest upload that named it, and a commit reads all of it as it was at  *)
(* one moment.  There are no runs here, and a compaction is no step.       *)
(***************************************************************************)
EXTENDS Naturals

CONSTANTS
    Keys,           \* run keys: type, then id
    Numbers,        \* of uploads, from 1
    Readers,        \* commits that read the uploads
    Unread

VARIABLES
    content,        \* of each key, the upload its entry came from; 0: none
    seen            \* what each commit has read

Init ==
    /\ content = [k \in Keys |-> 0]
    /\ seen = [r \in Readers |-> Unread]

\* Uploads are numbered as they begin and recorded in any order: the later number wins.
Upload(q, K) ==
    /\ content' = [k \in Keys |-> IF k \in K /\ content[k] < q THEN q ELSE content[k]]
    /\ UNCHANGED seen

Read(r) ==
    /\ seen' = [seen EXCEPT ![r] = content]
    /\ UNCHANGED content

Forget(r) ==
    /\ seen' = [seen EXCEPT ![r] = Unread]
    /\ UNCHANGED content

Next ==
    \/ \E q \in Numbers, K \in SUBSET Keys : Upload(q, K)
    \/ \E r \in Readers : Read(r) \/ Forget(r)

Spec == Init /\ [][Next]_<<content, seen>>
================================================================================
