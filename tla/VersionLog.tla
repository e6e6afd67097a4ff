----------------------------- MODULE VersionLog -----------------------------
(***************************************************************************)
(* What follows a publish: the collection's signed, hash-chained log, the  *)
(* collection.json that lists the signing keys, and the version.published  *)
(* job (server/src/versions/commit.ts, publish.ts 226-236, handlers.ts,    *)
(* versions/collection-info.ts; protocol/src/repo/log.ts).                 *)
(*                                                                         *)
(* The log lives in the bucket, which has no transactions: commits of      *)
(* successive versions, repair jobs and collection.info jobs interleave at *)
(* every read and write of it.                                             *)
(*                                                                         *)
(* entryHash covers the entry, its signing key and `prev`, and everything  *)
(* else in the entry is a function of its version: so the keys that signed *)
(* the entries up to n, in order, stand for the hash of entry n.           *)
(***************************************************************************)
EXTENDS Naturals, Sequences

CONSTANTS
    Workers,        \* requests and queue consumers
    Keys,           \* signing keys of past and present deployments
    Fails,          \* storage requests may fail, processes may die
    MaxVersions     \* bounds the history

ASSUME LogConstants == Keys # {} /\ Fails \in BOOLEAN /\ MaxVersions \in Nat

VARIABLES
    count,          \* versions published: the head's seq
    key,            \* the key of the present deployment
    entries,        \* log/<seq>, by seq; empty where there is none
    head,           \* head.json: the hash of the last entry, hence its seq
    listed,         \* keys in collection.json; none before it exists
    repair,         \* a repo.repairLog message is queued
    announced,      \* versions whose version.published was queued
    missed,         \* versions whose commit died, or took itself for overtaken
    worker

vars == <<count, key, entries, head, listed, repair, announced, missed, worker>>

Versions == 1..MaxVersions

Tasks == {"none", "commit", "repair", "info"}

Pcs == {"idle", "published", "readHead", "readInfo", "writeInfo",
        "putEntry", "putHead", "announce"}

WorkerState ==
    [pc : Pcs, task : Tasks, v : 0..MaxVersions, last : 0..MaxVersions, key : Keys,
     prev : Seq(Keys), keys : SUBSET Keys]

Idle(k) ==
    [pc |-> "idle", task |-> "none", v |-> 0, last |-> 0, key |-> k,
     prev |-> <<>>, keys |-> {}]

Init ==
    /\ count = 0
    /\ key \in Keys
    /\ entries = [n \in Versions |-> <<>>]
    /\ head = <<>>
    /\ listed = {}
    /\ repair = FALSE
    /\ announced = {} /\ missed = {}
    /\ worker = [a \in Workers |-> Idle(key)]

Goto(a, pc) == worker' = [worker EXCEPT ![a].pc = pc]

Stop(a) == worker' = [worker EXCEPT ![a] = Idle(worker[a].key)]

-----------------------------------------------------------------------------
\* A deployment rotates the signing key; processes that run keep theirs.
Rotate(k) ==
    /\ k # key
    /\ key' = k
    /\ UNCHANGED <<count, entries, head, listed, repair, announced, missed, worker>>

\* A commit's batch publishes the next version (PushSession: the history is
\* linear).
Publish(a) ==
    /\ worker[a].pc = "idle"
    /\ count < MaxVersions
    /\ count' = count + 1
    /\ worker' = [worker EXCEPT ![a] = [Idle(key) EXCEPT
                    !.pc = "published", !.task = "commit", !.v = count + 1, !.last = count + 1]]
    /\ UNCHANGED <<key, entries, head, listed, repair, announced, missed>>

\* ok = (row.head === v.id): a commit already overtaken reports a conflict.
ReadBack(a) ==
    /\ worker[a].pc = "published"
    /\ \/ count = worker[a].v /\ Goto(a, "readHead") /\ UNCHANGED missed
       \/ count # worker[a].v /\ Stop(a) /\ missed' = missed \cup {worker[a].v}
    /\ UNCHANGED <<count, key, entries, head, listed, repair, announced>>

\* repo.repairLog reads the versions after head.json's, and appends each.
StartRepair(a) ==
    /\ worker[a].pc = "idle"
    /\ repair
    /\ \/ /\ Len(head) < count
          /\ worker' = [worker EXCEPT ![a] = [Idle(key) EXCEPT
                          !.pc = "readHead", !.task = "repair",
                          !.v = Len(head) + 1, !.last = count]]
          /\ UNCHANGED repair
       \/ /\ Len(head) >= count
          /\ repair' = FALSE
          /\ UNCHANGED worker
    /\ UNCHANGED <<count, key, entries, head, listed, announced, missed>>

\* collection.info rewrites collection.json, its keys as they are; with no file
\* there is nothing to write.
StartInfo(a) ==
    /\ worker[a].pc = "idle"
    /\ listed # {}
    /\ worker' = [worker EXCEPT ![a] = [Idle(key) EXCEPT !.pc = "writeInfo", !.task = "info",
                                                         !.keys = listed]]
    /\ UNCHANGED <<count, key, entries, head, listed, repair, announced, missed>>

-----------------------------------------------------------------------------
(* appendVersionLog.                                                       *)

\* Slip: a repair goes one version past the last it read.
AppendedPastLast(a) ==
    IF worker[a].task = "commit"
    THEN Goto(a, "announce") /\ UNCHANGED repair
    ELSE IF worker[a].v <= worker[a].last
    THEN /\ worker' = [worker EXCEPT ![a].pc = "readHead", ![a].v = worker[a].v + 1]
         /\ UNCHANGED repair
    ELSE Stop(a) /\ repair' = FALSE

\* The end of one append: a repair goes on to its next version, and its
\* message is deleted after the last; a commit announces its version.
Appended(a) ==
    IF worker[a].task = "commit"
    THEN Goto(a, "announce") /\ UNCHANGED repair
    ELSE IF worker[a].v < worker[a].last
    THEN /\ worker' = [worker EXCEPT ![a].pc = "readHead", ![a].v = worker[a].v + 1]
         /\ UNCHANGED repair
    ELSE Stop(a) /\ repair' = FALSE

\* Slip: the commit passes the error on, and never announces its version.
ThrowPassedOn(a) == Stop(a) /\ repair' = TRUE

\* It throws: a commit queues a repair and goes on; a repair is delivered
\* again, until after too many failures it no longer is.
Throw(a) ==
    IF worker[a].task = "commit"
    THEN Goto(a, "announce") /\ repair' = TRUE
    ELSE Stop(a) /\ repair' \in (IF Fails THEN {repair, FALSE} ELSE {repair})

\* Slip: only whether the version is in the log already.
CanAppendAnywhere(a) == Len(head) < worker[a].v

CanAppend(a) == Len(head) + 1 = worker[a].v

ReadHead(a) ==
    /\ worker[a].pc = "readHead"
    /\ \/ Len(head) >= worker[a].v /\ Appended(a)
       \/ /\ CanAppend(a)
          /\ worker' = [worker EXCEPT ![a].pc = "readInfo", ![a].prev = head]
          /\ UNCHANGED repair
       \/ Len(head) < worker[a].v /\ ~CanAppend(a) /\ Throw(a)
    /\ UNCHANGED <<count, key, entries, head, listed, announced, missed>>

\* publishCollectionInfo with the signer: its key joins those that are there.
\* Nothing is written if the key is listed and no other member has changed.
ReadInfo(a) ==
    /\ worker[a].pc = "readInfo"
    /\ \/ worker' = [worker EXCEPT ![a].pc = "writeInfo",
                                   ![a].keys = listed \cup {worker[a].key}]
       \/ worker[a].key \in listed /\ Goto(a, "putEntry")
    /\ UNCHANGED <<count, key, entries, head, listed, repair, announced, missed>>

Signed(a) == Append(worker[a].prev, worker[a].key)

\* Slip: head.json is written before the entry.
WriteInfoThenHead(a) ==
    /\ worker[a].pc = "writeInfo"
    /\ listed' = worker[a].keys
    /\ IF worker[a].task = "info" THEN Stop(a) /\ UNCHANGED head
       ELSE Goto(a, "putEntry") /\ head' = Signed(a)
    /\ UNCHANGED <<count, key, entries, repair, announced, missed>>

WriteInfo(a) ==
    /\ worker[a].pc = "writeInfo"
    /\ listed' = worker[a].keys
    /\ IF worker[a].task = "info" THEN Stop(a) ELSE Goto(a, "putEntry")
    /\ UNCHANGED <<count, key, entries, head, repair, announced, missed>>

\* Slip: the entry is written over one that is there.
PutEntryOver(a) ==
    /\ worker[a].pc = "putEntry"
    /\ entries' = [entries EXCEPT ![worker[a].v] = Signed(a)]
    /\ Goto(a, "putHead")
    /\ UNCHANGED <<count, key, head, listed, repair, announced, missed>>

\* appendLog: the entry, if there is none of that seq yet ...
PutEntry(a) ==
    /\ worker[a].pc = "putEntry"
    /\ entries' = IF entries[worker[a].v] = <<>>
                  THEN [entries EXCEPT ![worker[a].v] = Signed(a)] ELSE entries
    /\ Goto(a, "putHead")
    /\ UNCHANGED <<count, key, head, listed, repair, announced, missed>>

\* ... then head.json, whatever it says by now.
PutHead(a) ==
    /\ worker[a].pc = "putHead"
    /\ head' = Signed(a)
    /\ Appended(a)
    /\ UNCHANGED <<count, key, entries, listed, announced, missed>>

Announce(a) ==
    /\ worker[a].pc = "announce"
    /\ announced' = announced \cup {worker[a].v}
    /\ Stop(a)
    /\ UNCHANGED <<count, key, entries, head, listed, repair, missed>>

Appending(a) == worker[a].pc \in {"readHead", "readInfo", "writeInfo", "putEntry", "putHead"}

\* A read or write of the bucket fails.
Fail(a) ==
    /\ Fails
    /\ Appending(a)
    /\ Throw(a)
    /\ UNCHANGED <<count, key, entries, head, listed, announced, missed>>

\* The process dies at any await.
Die(a) ==
    /\ Fails
    /\ worker[a].pc # "idle"
    /\ missed' = IF worker[a].task = "commit" THEN missed \cup {worker[a].v} ELSE missed
    /\ Stop(a)
    /\ UNCHANGED <<count, key, entries, head, listed, repair, announced>>

Step(a) ==
    \/ ReadBack(a) \/ StartRepair(a) \/ ReadHead(a) \/ ReadInfo(a) \/ WriteInfo(a)
    \/ PutEntry(a) \/ PutHead(a) \/ Announce(a)

Next ==
    \/ \E k \in Keys : Rotate(k)
    \/ \E a \in Workers : Step(a) \/ Publish(a) \/ StartInfo(a) \/ Fail(a) \/ Die(a)

Spec == Init /\ [][Next]_vars

\* A process that runs goes on, and the queue delivers what it holds.
FairSpec == Spec /\ \A a \in Workers : WF_vars(Step(a))

-----------------------------------------------------------------------------
(* Properties.                                                             *)

TypeOK ==
    /\ count \in 0..MaxVersions
    /\ key \in Keys
    /\ entries \in [Versions -> Seq(Keys)]
    /\ head \in Seq(Keys)
    /\ listed \subseteq Keys
    /\ repair \in BOOLEAN
    /\ announced \subseteq Versions /\ missed \subseteq Versions
    /\ worker \in [Workers -> WorkerState]

InLog(n) == entries[n] # <<>>

\* Who reads head.json finds every entry below it (log.ts 204-208), also while
\* appends of two versions overlap or die half-way.
HeadHasEntries == \A n \in Versions : n <= Len(head) => InLog(n)

\* Entries are of published versions, with no version left out before them
\* (commit.ts 326-329).
LogHasNoGaps ==
    \A n \in Versions : InLog(n) => n <= count /\ \A m \in 1..n : InLog(m)

\* No append, repeated or with a rotated key, replaces a signed entry.
EntriesKept ==
    [][\A n \in Versions : InLog(n) => entries'[n] = entries[n]]_vars

\* Webhooks hear of every version whose commit lived and saw itself at the
\* head, however its log append fared (commit.ts 245-259).
Announces ==
    \A n \in 1..count :
        \/ n \in announced \cup missed
        \/ \E a \in Workers : worker[a].task = "commit" /\ worker[a].v = n

\* Each entry chains to the stored one before it, and head.json is the hash of
\* a stored entry: what verifyLog checks (log.ts 225-270).
ChainHolds ==
    /\ \A n \in Versions : InLog(n) /\ n > 1 => SubSeq(entries[n], 1, n - 1) = entries[n - 1]
    /\ head # <<>> => entries[Len(head)] = head

\* Every stored entry can be verified: collection.json lists the key that signed
\* it, and goes on listing it (collection-info.ts 33-36, commit.ts 333).
SignersListed == \A n \in Versions : InLog(n) => entries[n][n] \in listed

\* With every process and message alive, the log ends up holding every version:
\* a commit that could not append it queued a repair (commit.ts 246-253).
LogCatchesUp == <>[](Len(head) = count)
=============================================================================
