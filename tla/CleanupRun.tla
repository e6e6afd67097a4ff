------------------------------ MODULE CleanupRun ------------------------------
(***************************************************************************)
(* Storage cleanup runs and the mark (server/src/cleanup/runs.ts, mark.ts, *)
(* marks.ts).                                                              *)
(*                                                                         *)
(* A run is a row and a chain of jobs.  A job claims the row with a lease  *)
(* and the row's seq, works within a budget, saves its place and queues    *)
(* the next.  Jobs die, arrive twice, or outlive their lease; the cron     *)
(* queues again what lost its message.  A mark's jobs walk the trees of    *)
(* every version into a set of hashes, saved as shards; what is not in     *)
(* that set a sweep deletes (StorageFence models the deleting).            *)
(***************************************************************************)
EXTENDS Naturals, Sequences, FiniteSets, FiniteSetsExt

CONSTANTS
    Order,          \* collections, by id
    Versions,       \* of each collection, its versions' roots by seq
    Children,       \* of each node, the nodes it lists
    Points,         \* of each node, the out-of-line records and files its entries name
    Frame,          \* of each node, the full node it is stored against, or none
    Possessed,      \* of each collection, the files it proved it holds
    Deletable,      \* collections deleted while the marks run
    Workers,        \* queue consumers
    MaxRuns,        \* rows of cleanup_runs, a bound
    MaxMarks,       \* marks started, a bound
    Budget,         \* markNodeBudget
    Every,          \* markCheckpoint
    PerJob,         \* markCollections
    Areas,          \* jobs a sweep takes
    MaxWaits,       \* MAX_WAITS
    MaxSeq,         \* jobs of a run, a bound
    MaxUpsets       \* deletions, lost and repeated messages, crashes, failing writes, leases
                    \* that run out under a live job: a bound on them all

Nodes == DOMAIN Children
NoNode == "none"
Held == Nodes \cup (UNION {Points[n] : n \in Nodes}) \cup (UNION {Possessed[c] : c \in DOMAIN Possessed})

ASSUME CleanupConstants ==
    /\ Order \in Seq(DOMAIN Versions) /\ DOMAIN Possessed = DOMAIN Versions
    /\ \A c \in DOMAIN Versions : Versions[c] \in Seq(Nodes)
    /\ \A n \in Nodes : Children[n] \subseteq Nodes /\ Frame[n] \in Nodes \cup {NoNode}
    /\ {MaxRuns, MaxMarks, Budget, Every, PerJob, Areas, MaxWaits, MaxUpsets} \subseteq Nat
    /\ MaxSeq \in Nat \ {0}
    /\ NoNode \notin Nodes /\ IsFiniteSet(Held)

\* Marks carry a kind, so a record or file is never taken for a node (marks.ts 17-21).  Only
\* leaves have entries, only leaves are stored against a frame, and a frame is a leaf in full
\* (repo.ts 317-350).
ASSUME TreeConstants ==
    /\ \A n \in Nodes : Points[n] \cap Nodes = {}
    /\ \A c \in DOMAIN Possessed : Possessed[c] \cap Nodes = {}
    /\ \A n \in Nodes : Children[n] # {} => Points[n] = {} /\ Frame[n] = NoNode
    /\ \A n \in Nodes : Frame[n] # NoNode => Children[Frame[n]] = {} /\ Frame[Frame[n]] = NoNode

VARIABLES
    run,            \* the cleanup_runs rows, in the order they were inserted
    shards,         \* of each row, the hashes saved in its working directory
    deleted,        \* collections whose rows gave way to a tombstone
    queue,          \* messages
    worker,         \* what each consumer is in the middle of
    asked,          \* a request to start a run that has looked for an active one
    upsets

vars == <<run, shards, deleted, queue, worker, asked, upsets>>

Runs == DOMAIN run
Statuses == {"queued", "running", "waiting", "done", "failed"}
Phases == <<"collections", "tombstones", "possessions", "done">>

Active(r) == run[r].status \in {"queued", "running", "waiting"}

Place == [phase : DOMAIN Phases, after : Nat, at : Nat, seq : Nat]

\* firstMarkState, and a sweep's first state: nothing handled, nowhere inside.
FirstPlace == [phase |-> 1, after |-> 0, at |-> 0, seq |-> 0]

RunRow ==
    [step : {"mark", "sweep"}, status : Statuses, seq : 1 .. MaxSeq,
     lease : {"none", "live", "lapsed"}, place : Place, waits : 0 .. MaxWaits,
     thenSweep : BOOLEAN, mark : 0 .. MaxRuns]

Message(r, q) == [run |-> r, seq |-> q]

Idle ==
    [pc |-> "idle", run |-> 0, seq |-> 0, status |-> "queued", place |-> FirstPlace, waits |-> 0,
     start |-> 0, marks |-> {}, fresh |-> {}, reads |-> 0, opened |-> {}, handled |-> 0,
     saving |-> "no", saved |-> 0, snap |-> FirstPlace,
     item |-> 0, done |-> 0, outcome |-> "more", mark |-> 0]

NoRequest == [step |-> "none", mark |-> 0]

Init ==
    /\ run = <<>> /\ shards = <<>>
    /\ deleted = {}
    /\ queue = {}
    /\ worker = [w \in Workers |-> Idle]
    /\ asked = NoRequest
    /\ upsets = 0

Upset == upsets < MaxUpsets /\ upsets' = upsets + 1

Update(w, j) == worker' = [worker EXCEPT ![w] = j]

-----------------------------------------------------------------------------
(* Starting a run (runs.ts 62-118): a look for an active one, then the     *)
(* insert, two statements with nothing to hold them together.              *)

Busy == \E r \in Runs : Active(r)

\* The mark to sweep with: the latest that is done.
DoneMarks == {r \in Runs : run[r].step = "mark" /\ run[r].status = "done"}

Insert(step, thenSweep, mark) ==
    /\ run' = Append(run, [step |-> step, status |-> "queued", seq |-> 1, lease |-> "none",
                           place |-> FirstPlace, waits |-> 0, thenSweep |-> thenSweep,
                           mark |-> mark])
    /\ shards' = Append(shards, {})
    /\ queue' = queue \cup {Message(Len(run) + 1, 1)}

Ask(step) ==
    /\ asked = NoRequest /\ ~Busy /\ Len(run) < MaxRuns
    /\ \/ /\ step = "mark"
          /\ Cardinality({r \in Runs : run[r].step = "mark"}) < MaxMarks
          /\ asked' = [step |-> "mark", mark |-> 0]
       \/ /\ step = "sweep" /\ DoneMarks # {}
          /\ asked' = [step |-> "sweep", mark |-> Max(DoneMarks)]
    /\ UNCHANGED <<run, shards, deleted, queue, worker, upsets>>

\* The insert and the first message; a crash between them is a message lost.
StartRun ==
    /\ asked # NoRequest
    /\ asked' = NoRequest
    /\ \/ /\ Len(run) < MaxRuns
          /\ \E then \in IF asked.step = "mark" THEN BOOLEAN ELSE {FALSE} :
                Insert(asked.step, then, asked.mark)
       \/ Len(run) = MaxRuns /\ UNCHANGED <<run, shards, queue>>
    /\ UNCHANGED <<deleted, worker, upsets>>

-----------------------------------------------------------------------------
(* A job's claim and end (runs.ts 120-243).                                *)

\* A message delivered.  Its job runs if it carries the run's seq and no lease is live;
\* under a live lease the message comes back later, and any other message is dropped.
\* The queue may hold a copy of it.
Claim(w, m) ==
    /\ worker[w].pc = "idle" /\ m \in queue
    /\ LET r == m.run IN
       IF run[r].seq = m.seq /\ Active(r)
       THEN /\ run[r].lease # "live"
            /\ run' = [run EXCEPT ![r].lease = "live"]
            /\ Update(w, [Idle EXCEPT !.pc = "begin", !.run = r, !.seq = m.seq,
                              !.status = run[r].status, !.place = run[r].place,
                              !.waits = run[r].waits, !.mark = run[r].mark])
            /\ \/ queue' = queue \ {m} /\ UNCHANGED upsets
               \/ queue' = queue /\ Upset
       ELSE queue' = queue \ {m} /\ UNCHANGED <<run, worker, upsets>>
    /\ UNCHANGED <<shards, deleted, asked>>

\* A queued run is running now, whatever became of it since the claim.
Begin(w) ==
    LET j == worker[w] IN
    /\ j.pc = "begin"
    /\ run' = IF j.status = "queued" THEN [run EXCEPT ![j.run].status = "running"] ELSE run
    /\ Update(w, [j EXCEPT !.pc = "load"])
    /\ UNCHANGED <<shards, deleted, queue, asked, upsets>>

\* MarkSet.load: every shard the run has saved; a sweep reads its mark's.
Load(w) ==
    LET j == worker[w]
        mark == run[j.run].step = "mark"
        saved == shards[IF mark THEN j.run ELSE j.mark] IN
    /\ j.pc = "load"
    /\ Update(w, [j EXCEPT !.pc = IF mark THEN "walk" ELSE "sweep", !.marks = saved,
                           !.start = Cardinality(saved)])
    /\ UNCHANGED <<run, shards, deleted, queue, asked, upsets>>

\* Slip: a sweep waits once more than it may.
GivesUpLate(waits) == waits > MaxWaits + 1

GivesUp(waits) == waits > MaxWaits

\* The job's end: its place is the run's, by id alone, and the next seq is queued (a crash
\* between the two is a message lost).  A sweep that has waited too often fails.
Finish(w) ==
    LET j == worker[w]
        waits == IF j.outcome = "wait" THEN j.waits + 1 ELSE 0
        over == j.outcome = "done"
        then == over /\ run[j.run].step = "mark" /\ run[j.run].thenSweep IN
    /\ j.pc = "finish"
    /\ IF GivesUp(waits)
       THEN /\ run' = [run EXCEPT ![j.run].status = "failed", ![j.run].lease = "none"]
            /\ queue' = queue
       ELSE /\ j.seq < MaxSeq
            /\ run' = [run EXCEPT ![j.run] =
                   [@ EXCEPT !.place = j.place, !.waits = waits, !.seq = j.seq + 1,
                             !.lease = "none",
                             !.status = CASE over -> "done"
                                          [] j.outcome = "wait" -> "waiting"
                                          [] OTHER -> "running"]]
            /\ queue' = IF over THEN queue ELSE queue \cup {Message(j.run, j.seq + 1)}
    /\ Update(w, IF ~GivesUp(waits) /\ then THEN [j EXCEPT !.pc = "look"] ELSE Idle)
    /\ UNCHANGED <<shards, deleted, asked, upsets>>

\* thenSweep: a finished mark starts a sweep on itself, if nothing is active and marks and
\* sweeps aren't paused; a refusal is thrown, as any failure of the job.
Look(w) ==
    LET j == worker[w] IN
    /\ j.pc = "look"
    /\ \/ ~Busy /\ j.run \in DoneMarks /\ Update(w, [j EXCEPT !.pc = "insert"])
       \/ Update(w, [j EXCEPT !.pc = "fail"])
    /\ UNCHANGED <<run, shards, deleted, queue, asked, upsets>>

InsertSweep(w) ==
    /\ worker[w].pc = "insert"
    /\ IF Len(run) < MaxRuns THEN Insert("sweep", FALSE, worker[w].run)
       ELSE UNCHANGED <<run, shards, queue>>
    /\ Update(w, Idle)
    /\ UNCHANGED <<deleted, asked, upsets>>

\* runJob's catch.
Fail(w) ==
    /\ worker[w].pc = "fail"
    /\ run' = [run EXCEPT ![worker[w].run].status = "failed", ![worker[w].run].lease = "none"]
    /\ Update(w, Idle)
    /\ UNCHANGED <<shards, deleted, queue, asked, upsets>>

-----------------------------------------------------------------------------
(* The mark's walk (mark.ts 122-245, marks.ts 143-259).                    *)

\* Whether the collection is one the phase goes through: live ones, then deleted ones by
\* their logs, then what either proved it holds.
Due(phase, i) ==
    CASE Phases[phase] = "collections" -> Order[i] \notin deleted
      [] Phases[phase] = "tombstones" -> Order[i] \in deleted
      [] OTHER -> TRUE

Walking(j) == j.pc = "walk" /\ j.item # 0
Roots(j) == Versions[Order[j.item]]
Root(j) == Roots(j)[j.done + 1]

\* The budget is never spent before the job has added a mark.
Spent(j) == j.reads >= Budget /\ Cardinality(j.marks) > j.start

Enough(j) == Spent(j) \/ j.handled >= PerJob

Add(j, new) == [j EXCEPT !.marks = @ \cup new, !.fresh = @ \cup (new \ j.marks)]

\* What a read leaf adds: itself, what its entries name, and the full node it is stored
\* against.
LeafMarks(n) == {n} \cup Points[n] \cup ({Frame[n]} \ {NoNode})

\* Slip: as soon as one of its children is.
CompleteEarly(j) == {n \in j.opened : Children[n] \cap j.marks # {}}

\* A node is marked once its subtree is: every child marked, or read and itself complete.
Complete(j) ==
    UNION {s \in SUBSET j.opened : \A n \in s : Children[n] \subseteq j.marks \cup s}

Close(j) == LET c == Complete(j) IN Add([j EXCEPT !.opened = @ \ c], c)

\* Versions whose roots are marked are done, and after the last the collection is.  Only a
\* live collection's place follows version by version.
Advance(j) ==
    LET live == Phases[j.place.phase] = "collections"
        done == Max({k \in j.done .. Len(Roots(j)) :
                        \A i \in j.done + 1 .. k : Roots(j)[i] \in j.marks}) IN
    IF done = Len(Roots(j))
    THEN [j EXCEPT !.place = [FirstPlace EXCEPT !.phase = j.place.phase, !.after = j.item],
                   !.item = 0, !.done = 0, !.handled = @ + 1]
    ELSE IF live /\ done > j.done
    THEN [j EXCEPT !.done = done, !.place.at = j.item, !.place.seq = done]
    ELSE [j EXCEPT !.done = done]

\* A node read, going down from the version's root through those read before but not into
\* one that is marked, and what that completes.  Reads of several branches come back in any
\* order.
Read(j, n) ==
    IF Children[n] = {} THEN Add([j EXCEPT !.reads = @ + 1], LeafMarks(n))
    ELSE [j EXCEPT !.reads = @ + 1, !.opened = @ \cup {n}]

ReadNode(w) ==
    LET j == worker[w]
        ahead == (({Root(j)} \cup UNION {Children[n] : n \in j.opened}) \ j.opened) \ j.marks
        read == {Close(r) : r \in {Read(j, n) : n \in ahead}} IN
    /\ Walking(j) /\ ~Spent(j)
    /\ \E r \in read : Update(w, Advance(r))
    /\ UNCHANGED <<run, shards, deleted, queue, asked, upsets>>

\* The next collection of the phase, from where a job stopped inside it, or the next phase.
\* A collection's possessions are rows: nothing is read.
NextItem(w) ==
    LET j == worker[w]
        ahead == {i \in DOMAIN Order : i > j.place.after /\ Due(j.place.phase, i)}
        inside == ahead # {} /\ j.place.at = Min(ahead)
        rows == UNION {Possessed[Order[i]] : i \in ahead} IN
    /\ j.pc = "walk" /\ j.item = 0 /\ Phases[j.place.phase] # "done" /\ ~Enough(j)
    /\ Update(w,
         IF Phases[j.place.phase] = "possessions"
         THEN Add([j EXCEPT !.place = [FirstPlace EXCEPT !.phase = 4]], rows)
         ELSE IF ahead = {}
         THEN [j EXCEPT !.place = [FirstPlace EXCEPT !.phase = j.place.phase + 1]]
         ELSE Advance([j EXCEPT !.item = Min(ahead), !.done = IF inside THEN j.place.seq ELSE 0]))
    /\ UNCHANGED <<run, shards, deleted, queue, asked, upsets>>

Ended(j) == Phases[j.place.phase] = "done"

\* The budget spent, inside a collection (the place is inside it) or between two; or all
\* phases done.  A checkpoint under way is waited for, then the last shard is saved.
Stopping(j) ==
    /\ j.pc = "walk" /\ j.saving = "no"
    /\ Ended(j) \/ (IF j.item # 0 THEN Spent(j) ELSE Enough(j))

Stop(w) ==
    LET j == worker[w] IN
    /\ Stopping(j)
    /\ shards' = [shards EXCEPT ![j.run] = @ \cup j.fresh]
    /\ Update(w, [j EXCEPT !.pc = "finish", !.outcome = IF Ended(j) THEN "done" ELSE "more",
                           !.place = IF j.item = 0 THEN @ ELSE [@ EXCEPT !.at = j.item, !.seq = j.done],
                           !.item = 0, !.done = 0, !.handled = 0, !.opened = {}, !.reads = 0,
                           !.saved = 0, !.fresh = {}, !.marks = {}, !.start = 0])
    /\ UNCHANGED <<run, deleted, queue, asked, upsets>>

-----------------------------------------------------------------------------
(* Checkpoints (marks.ts 88-105, runs.ts 177-186, 232-249).                *)

AtCheckpoint(j) == Walking(j) /\ j.saving = "no" /\ j.reads - j.saved >= Every

\* The place as it is and what was added are taken, and the shard is written; the walk's
\* other branches carry on.
SaveShard(w) ==
    LET j == worker[w] IN
    /\ AtCheckpoint(j)
    /\ shards' = [shards EXCEPT ![j.run] = @ \cup j.fresh]
    /\ Update(w, [j EXCEPT !.saving = "row", !.fresh = {}, !.saved = j.reads, !.snap = j.place])
    /\ UNCHANGED <<run, deleted, queue, asked, upsets>>

\* Slip: the row takes the place the walk has come to since.
CheckpointNow(w) ==
    LET j == worker[w] IN
    /\ j.pc = "walk" /\ j.saving = "row"
    /\ run' = IF run[j.run].seq = j.seq
              THEN [run EXCEPT ![j.run].place = j.place, ![j.run].lease = "live"]
              ELSE run
    /\ Update(w, [j EXCEPT !.saving = "no", !.snap = FirstPlace])
    /\ UNCHANGED <<shards, deleted, queue, asked, upsets>>

\* Then, a place never running ahead of the marks saved for it, the row takes the place and
\* a fresh lease, if it still has the job's seq.
Checkpoint(w) ==
    LET j == worker[w] IN
    /\ j.pc = "walk" /\ j.saving = "row"
    /\ run' = IF run[j.run].seq = j.seq
              THEN [run EXCEPT ![j.run].place = j.snap, ![j.run].lease = "live"]
              ELSE run
    /\ Update(w, [j EXCEPT !.saving = "no", !.snap = FirstPlace])
    /\ UNCHANGED <<shards, deleted, queue, asked, upsets>>

\* A shard that can't be written fails the job, and the run.
PutFails(w) ==
    LET j == worker[w] IN
    /\ Upset
    /\ Stopping(j) \/ AtCheckpoint(j)
    /\ Update(w, [Idle EXCEPT !.pc = "fail", !.run = j.run, !.seq = j.seq])
    /\ UNCHANGED <<run, shards, deleted, queue, asked>>

\* A sweep's job: some of its areas, or none while a push commits (sweep.ts, which
\* StorageFence models).
SweepJob(w) ==
    LET j == worker[w] IN
    /\ j.pc = "sweep"
    /\ \E o \in {"more", "done", "wait"} :
          /\ (o = "more") => j.place.after + 1 < Areas
          /\ (o = "done") => j.place.after + 1 = Areas
          /\ Update(w, [j EXCEPT !.pc = "finish", !.outcome = o, !.marks = {}, !.start = 0,
                                 !.place.after = IF o = "wait" THEN @ ELSE @ + 1])
    /\ UNCHANGED <<run, shards, deleted, queue, asked, upsets>>

-----------------------------------------------------------------------------
(* The cron, time and failures (runs.ts 289-346).                          *)

\* Slip: only a run whose lease ran out is one that lost its job.
RequeueLapsed(r) ==
    /\ Active(r) /\ run[r].lease = "lapsed"
    /\ queue' = queue \cup {Message(r, run[r].seq)}
    /\ UNCHANGED <<run, shards, deleted, worker, asked, upsets>>

\* An active run without news for two leases: its message again.
Requeue(r) ==
    /\ Active(r) /\ run[r].lease # "live"
    /\ queue' = queue \cup {Message(r, run[r].seq)}
    /\ UNCHANGED <<run, shards, deleted, worker, asked, upsets>>

AtWork(r) == \E w \in Workers : worker[w].pc # "idle" /\ worker[w].run = r

\* A lease runs out once its job is dead, or under one that is slow.
Lapse(r) ==
    /\ run[r].lease = "live"
    /\ run' = [run EXCEPT ![r].lease = "lapsed"]
    /\ IF AtWork(r) THEN Upset ELSE UNCHANGED upsets
    /\ UNCHANGED <<shards, deleted, queue, worker, asked>>

\* A job dies; what it had not saved is gone, and its message comes again.
Crash(w) ==
    LET j == worker[w] IN
    /\ j.pc # "idle"
    /\ Upset
    /\ Update(w, Idle)
    /\ queue' = queue \cup {Message(j.run, j.seq)}
    /\ UNCHANGED <<run, shards, deleted, asked>>

LoseMessage(m) ==
    /\ m \in queue /\ Upset
    /\ queue' = queue \ {m}
    /\ UNCHANGED <<run, shards, deleted, worker, asked>>

\* A collection is deleted: its rows go, its tombstone and its log stay for the grace.
Delete(c) ==
    /\ c \in Deletable \ deleted
    /\ Upset
    /\ deleted' = deleted \cup {c}
    /\ UNCHANGED <<run, shards, queue, worker, asked>>

-----------------------------------------------------------------------------
JobStep(w) ==
    \/ Begin(w) \/ Load(w) \/ ReadNode(w) \/ NextItem(w) \/ Checkpoint(w) \/ Stop(w)
    \/ SweepJob(w)
    \/ Finish(w) \/ Look(w) \/ InsertSweep(w) \/ Fail(w)

Next ==
    \/ \E step \in {"mark", "sweep"} : Ask(step)
    \/ StartRun
    \/ \E w \in Workers :
          JobStep(w) \/ SaveShard(w) \/ PutFails(w) \/ Crash(w) \/ \E m \in queue : Claim(w, m)
    \/ \E r \in Runs : Requeue(r) \/ Lapse(r)
    \/ \E m \in queue : LoseMessage(m)
    \/ \E c \in Range(Order) : Delete(c)

Spec == Init /\ [][Next]_vars

\* Consumers go on with their jobs and take what is queued, a dead job's lease runs out,
\* and the cron runs for ever.
FairSpec ==
    /\ Spec
    /\ \A w \in Workers : WF_vars(JobStep(w) \/ \E m \in queue : Claim(w, m))
    /\ \A r \in 1 .. MaxRuns : WF_vars(r \in Runs /\ (Requeue(r) \/ Lapse(r)))

-----------------------------------------------------------------------------
(* Properties.                                                             *)

\* Rows, shards, messages and jobs have the types of their columns.
TypeOK ==
    /\ Len(run) <= MaxRuns /\ \A r \in Runs : run[r] \in RunRow
    /\ Len(shards) = Len(run) /\ \A r \in Runs : shards[r] \subseteq Held
    /\ deleted \subseteq Range(Order)
    /\ \A m \in queue : m.run \in Runs /\ m.seq \in 1 .. MaxSeq
    /\ \A w \in Workers :
          /\ worker[w].marks \subseteq Held /\ worker[w].fresh \subseteq Held
          /\ worker[w].place \in Place
          /\ worker[w].pc # "idle" => worker[w].run \in Runs
    /\ asked.step \in {"none", "mark", "sweep"}
    /\ upsets \in 0 .. MaxUpsets

\* The nodes at or below one: those in every set that has it and is closed under going down.
Below(v) ==
    LET closed == {s \in SUBSET Nodes : \A n \in s : Children[n] \subseteq s} IN
    {n \in Nodes : \A s \in closed : v \in s => n \in s}

\* What reading a version needs: its nodes, what their entries name, the nodes they are
\* stored against.
Needs ==
    [v \in Nodes |->
       LET nodes == Below(v) IN
       nodes \cup (UNION {Points[n] : n \in nodes}) \cup ({Frame[n] : n \in nodes} \ {NoNode})]

NeedsOf(i, versions) == UNION {Needs[Versions[Order[i]][k]] : k \in versions}

\* The versions a place says are marked: collections before it (those live all along, or
\* found in the log), and the versions before it of the one it is inside.
Passed(p, i) ==
    \/ p.phase = 1 /\ i <= p.after /\ Order[i] \notin deleted
    \/ p.phase = 2 /\ (i <= p.after \/ Order[i] \notin deleted)
    \/ p.phase \in {3, 4}

\* runs.ts 241: a place never runs ahead of the marks saved for it, however many jobs
\* write places of one run.
PlaceIsSaved ==
    \A r \in Runs : run[r].step = "mark" =>
       LET p == run[r].place IN
       /\ \A i \in DOMAIN Order :
             Passed(p, i) => NeedsOf(i, DOMAIN Versions[Order[i]]) \subseteq shards[r]
       /\ p.at # 0 => NeedsOf(p.at, 1 .. p.seq) \subseteq shards[r]

\* marks.ts 1-18: a sweep has the hashes of every version there was when its mark started,
\* live or deleted since, and every file a collection proved it holds.
SweepsOnWholeMark ==
    \A r \in Runs : run[r].step = "sweep" =>
       \A i \in DOMAIN Order :
          NeedsOf(i, DOMAIN Versions[Order[i]]) \cup Possessed[Order[i]]
             \subseteq shards[run[r].mark]

Going(r) == r \in Runs /\ Active(r)

\* runs.ts 9-13: whatever is lost, repeated or late, a run that is started ends.
RunsEnd == \A r \in 1 .. MaxRuns : Going(r) ~> ~Going(r)
===============================================================================
