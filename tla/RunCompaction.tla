----------------------------- MODULE RunCompaction -----------------------------
(***************************************************************************)
(* The runs of a push session and their compaction (server/src/push/       *)
(* compact.ts, with runs.ts, session.ts recordRun, recover.ts and          *)
(* finalize.ts around it).                                                 *)
(*                                                                         *)
(* An upload is a run.  Runs are merged while uploads arrive (a full tier) *)
(* and before a commit (more runs than one commit may read); a merge is a  *)
(* job, a large one a job per piece.  Jobs are delivered at least once and *)
(* die at any await; a claim on the input rows is all that keeps two       *)
(* merges apart, and a phase on the session all that brings a waiting      *)
(* commit back.  Each statement on the database is an action.              *)
(***************************************************************************)
EXTENDS Naturals, Sequences, FiniteSets, FiniteSetsExt

CONSTANTS
    Keys,
    Batches,        \* the keys of each upload, in the order they begin
    Runners,        \* requests and queue consumers
    FanIn,          \* MERGE_FAN_IN
    CommitRuns,     \* compactConfig.commitRuns
    PieceSize,      \* compactConfig.pieceBytes, in entries
    MaxStalls,      \* recoverConfig.maxStalls
    MaxSeq,         \* run numbers, a bound
    MaxFaults,      \* lost, repeated and late jobs, a bound
    Unread,
    Reopens         \* commits refused for missing files, a bound

ASSUME CompactionConstants ==
    /\ Batches \in Seq(SUBSET Keys) /\ FanIn \in Nat \ {0, 1} /\ CommitRuns \in Nat \ {0}
    /\ {PieceSize, MaxStalls, MaxSeq, MaxFaults, Reopens} \subseteq Nat

VARIABLES
    session,        \* the push_sessions row
    row,            \* the push_runs rows, by number
    object,         \* of each run written, the upload its entry of each key came from
    split,          \* compactions in pieces: the inputs planned, the pieces written
    jobs,           \* messages in the queue
    runner,         \* what each request or consumer is in the middle of
    faults

vars == <<session, row, object, split, jobs, runner, faults>>

Seqs == 1 .. MaxSeq

NoRun == 0

SessionRow ==
    [status : {"open", "committing", "committed", "failed"}, phase : {"none", "compacting"},
     runs : 0 .. MaxSeq, stalls : 0 .. MaxStalls, sent : 0 .. Len(Batches),
     reopened : 0 .. Reopens]

RunRow == [tier : Nat, into : Seqs \cup {NoRun}]

CommitJob == <<"push.commit", NoRun>>
CompactJob(s) == <<"push.compact", s>>
PieceJob(s, k) == <<"push.compactPiece", s, k>>
UploadJob == <<"upload">>
NoJob == <<>>

Messages ==
    {CommitJob} \cup {CompactJob(s) : s \in Seqs} \cup {PieceJob(s, k) : s \in Seqs, k \in Keys}

Pcs == {"idle", "record", "tier", "number", "claim", "queue", "release",
        "merge", "plan", "slice", "sliced", "finish", "swap", "after",
        "list", "phase", "group", "clear", "ready", "commit"}

RunnerState ==
    [pc : Pcs, job : Messages \cup {UploadJob, NoJob}, seq : Seqs \cup {NoRun},
     keys : SUBSET Keys, tier : Nat, list : SUBSET Seqs, free : SUBSET Seqs, count : Nat,
     phase : {"none", "compacting"}]

Idle ==
    [pc |-> "idle", job |-> NoJob, seq |-> NoRun, keys |-> {}, tier |-> 0, list |-> {},
     free |-> {}, count |-> 0, phase |-> "none"]

Init ==
    /\ session = [status |-> "open", phase |-> "none", runs |-> 0, stalls |-> 0, sent |-> 0,
                  reopened |-> 0]
    /\ row = [s \in {} |-> 0]
    /\ object = [s \in {} |-> 0]
    /\ split = [s \in {} |-> 0]
    /\ jobs = {}
    /\ runner = [r \in Runners |-> Idle]
    /\ faults = 0

-----------------------------------------------------------------------------
(* Runs.                                                                   *)

Rows == DOMAIN row

Inputs(s) == {t \in Rows : row[t].into = s}

Free == {t \in Rows : row[t].into = NoRun}

Write(f, s, v) == [x \in DOMAIN f \cup {s} |-> IF x = s THEN v ELSE f[x]]

Named(s) == {k \in Keys : object[s][k] # 0}

Entries(S) == FoldSet(LAMBDA s, n : n + Cardinality(Named(s)), 0, S)

\* Slip: of a key in several runs, the entry of the run with the highest number wins.
MergedByRun(S) ==
    [k \in Keys |->
       LET with == {s \in S : object[s][k] # 0}
       IN  IF with = {} THEN 0 ELSE object[Max(with)][k]]

\* An entry's precedence is the upload it came from, and the highest wins.
Merged(S) == [k \in Keys |-> Max({0} \cup {object[s][k] : s \in S})]

Goto(r, pc) == runner' = [runner EXCEPT ![r].pc = pc]

Finish(r) == runner' = [runner EXCEPT ![r] = Idle]

\* A request or a job is done when it has claimed a tier, or found none to claim; a
\* commit goes on with its next group.
GoOn(r) ==
    IF runner[r].job = CommitJob THEN Goto(r, "group") ELSE Finish(r)

\* A message is taken, and its job starts at `start`.
Deliver(r, m, start) ==
    /\ runner[r].pc = "idle" /\ m \in jobs
    /\ runner' = [runner EXCEPT ![r] = start]
    /\ jobs' = jobs \ {m}
    /\ UNCHANGED <<session, row, object, split, faults>>

-----------------------------------------------------------------------------
(* Uploads and the client's commit.                                        *)

\* nextRunSeq: a number, for an open session.
BeginUpload(r) ==
    /\ runner[r].pc = "idle" /\ session.status = "open"
    /\ session.sent < Len(Batches) /\ session.runs < MaxSeq
    /\ session' = [session EXCEPT !.sent = session.sent + 1, !.runs = session.runs + 1]
    /\ runner' = [runner EXCEPT ![r] = [Idle EXCEPT !.pc = "record", !.job = UploadJob,
                     !.seq = session.runs + 1, !.keys = Batches[session.sent + 1]]]
    /\ UNCHANGED <<row, object, split, jobs, faults>>

\* The run is written under its number and its row inserted, whatever the session is by now.
RecordRun(r) ==
    /\ runner[r].pc = "record"
    /\ LET s == runner[r].seq IN
          /\ object' = Write(object, s, [k \in Keys |-> IF k \in runner[r].keys THEN s ELSE 0])
          /\ row' = Write(row, s, [tier |-> 0, into |-> NoRun])
    /\ runner' = [runner EXCEPT ![r] = [Idle EXCEPT !.pc = "tier", !.job = UploadJob]]
    /\ UNCHANGED <<session, split, jobs, faults>>

\* A client that commits has had the answer to every upload it sent.
BeginCommit ==
    /\ session.status = "open" /\ session.sent > 0
    /\ \A r \in Runners : runner[r].job # UploadJob
    /\ session' = [session EXCEPT !.status = "committing", !.stalls = 0]
    /\ jobs' = jobs \cup {CommitJob}
    /\ UNCHANGED <<row, object, split, runner, faults>>

-----------------------------------------------------------------------------
(* Claims.                                                                 *)

Oldest(n, S) == {s \in S : Cardinality({t \in S : t < s}) < n}

\* maybeCompact: a full tier of free runs, the oldest of it.
FullTier(r) ==
    LET free == {s \in Free : row[s].tier = runner[r].tier}
    IN  IF Cardinality(free) < FanIn THEN {} ELSE Oldest(FanIn, free)

PickTier(r) ==
    /\ runner[r].pc = "tier"
    /\ IF FullTier(r) = {} THEN Finish(r)
       ELSE runner' = [runner EXCEPT ![r].pc = "number", ![r].list = FullTier(r)]
    /\ UNCHANGED <<session, row, object, split, jobs, faults>>

\* compactionSeq.
TakesCompactions ==
    \/ session.status = "open"
    \/ session.status = "committing" /\ session.phase = "compacting"

TakeNumber(r) ==
    /\ runner[r].pc = "number"
    /\ \/ /\ TakesCompactions /\ session.runs < MaxSeq
          /\ session' = [session EXCEPT !.runs = session.runs + 1]
          /\ runner' = [runner EXCEPT ![r].pc = "claim", ![r].seq = session.runs + 1]
       \/ /\ ~TakesCompactions
          /\ GoOn(r)
          /\ UNCHANGED session
    /\ UNCHANGED <<row, object, split, jobs, faults>>

\* One update: those still free are this compaction's.
Claim(r) ==
    /\ runner[r].pc = "claim"
    /\ LET mine == runner[r].list \cap Free IN
          /\ row' = [s \in Rows |-> IF s \in mine THEN [row[s] EXCEPT !.into = runner[r].seq]
                                    ELSE row[s]]
          /\ Goto(r, IF mine = runner[r].list THEN "queue" ELSE "release")
    /\ UNCHANGED <<session, object, split, jobs, faults>>

\* Not all of them: they are let go.
Release(r) ==
    /\ runner[r].pc = "release"
    /\ row' = [s \in Rows |-> IF row[s].into = runner[r].seq
                              THEN [row[s] EXCEPT !.into = NoRun] ELSE row[s]]
    /\ GoOn(r)
    /\ UNCHANGED <<session, object, split, jobs, faults>>

\* A commit counts the group as one run from now on.
QueueCompaction(r) ==
    /\ runner[r].pc = "queue"
    /\ jobs' = jobs \cup {CompactJob(runner[r].seq)}
    /\ IF runner[r].job = CommitJob
       THEN runner' = [runner EXCEPT ![r].pc = "group",
                          ![r].count = runner[r].count - (Cardinality(runner[r].list) - 1)]
       ELSE Finish(r)
    /\ UNCHANGED <<session, row, object, split, faults>>

-----------------------------------------------------------------------------
(* push.compact and push.compactPiece.                                     *)

Active == session.status \in {"open", "committing"}

TierAbove(S) == 1 + Max({row[s].tier : s \in S})

\* The runs claimed for this number, if there are any left and they are still wanted.
StartCompaction(r, s) ==
    Deliver(r, CompactJob(s),
        IF Inputs(s) = {} \/ ~Active THEN Idle
        ELSE [Idle EXCEPT !.pc = IF Entries(Inputs(s)) <= PieceSize THEN "merge" ELSE "plan",
                          !.job = CompactJob(s), !.seq = s, !.list = Inputs(s),
                          !.tier = TierAbove(Inputs(s))])

Merge(r) ==
    /\ runner[r].pc = "merge"
    /\ object' = Write(object, runner[r].seq, Merged(runner[r].list))
    /\ runner' = [runner EXCEPT ![r].pc = "finish", ![r].list = {}]
    /\ UNCHANGED <<session, row, split, jobs, faults>>

\* Slip: the piece before has written the index, surely.
JoinUnwritten(r, inputs) ==
    /\ object' = object
    /\ runner' = [runner EXCEPT ![r].pc = "finish", ![r].list = {},
                                ![r].tier = split'[runner[r].seq].tier]

\* joinPieces: the index is written, once (ifAbsent).
Join(r, inputs) ==
    /\ object' = Write(object, runner[r].seq, Merged(inputs))
    /\ runner' = [runner EXCEPT ![r].pc = "finish", ![r].list = {},
                                ![r].tier = split'[runner[r].seq].tier]

\* A large one: the plan that is there, or a new one, and the pieces it has not got
\* (one to a key).
Plan(r) ==
    /\ runner[r].pc = "plan"
    /\ LET s == runner[r].seq
           plan == IF s \in DOMAIN split THEN split[s]
                   ELSE [inputs |-> runner[r].list, tier |-> runner[r].tier, done |-> {}]
       IN  /\ split' = Write(split, s, plan)
           /\ \/ /\ plan.done = Keys
                 /\ Join(r, plan.inputs)
                 /\ UNCHANGED jobs
              \/ /\ plan.done # Keys
                 /\ jobs' = jobs \cup {PieceJob(s, k) : k \in Keys \ plan.done}
                 /\ Finish(r)
                 /\ UNCHANGED object
    /\ UNCHANGED <<session, row, faults>>

StartPiece(r, s, k) ==
    Deliver(r, PieceJob(s, k),
        IF Inputs(s) = {} \/ ~Active THEN Idle
        ELSE [Idle EXCEPT !.pc = IF k \in split[s].done THEN "sliced" ELSE "slice",
                          !.job = PieceJob(s, k), !.seq = s])

Touched == IF session.status = "committing" THEN [session EXCEPT !.stalls = 0] ELSE session

Slice(r) ==
    /\ runner[r].pc = "slice"
    /\ split' = [split EXCEPT ![runner[r].seq].done = split[runner[r].seq].done
                                                     \cup {runner[r].job[3]}]
    /\ session' = Touched
    /\ Goto(r, "sliced")
    /\ UNCHANGED <<row, object, jobs, faults>>

\* The piece that finds every piece written joins them; two may.
Sliced(r) ==
    /\ runner[r].pc = "sliced"
    /\ split' = split
    /\ IF split[runner[r].seq].done = Keys
       THEN Join(r, split[runner[r].seq].inputs)
       ELSE Finish(r) /\ UNCHANGED object
    /\ UNCHANGED <<session, row, jobs, faults>>

\* finishCompaction: nothing left to replace, or ...
FindInputs(r) ==
    /\ runner[r].pc = "finish"
    /\ IF Inputs(runner[r].seq) = {} THEN Finish(r) ELSE Goto(r, "swap")
    /\ UNCHANGED <<session, row, object, split, jobs, faults>>

\* ... one batch: the merged run in, unless it is there, and its inputs out.
Swap(r) ==
    /\ runner[r].pc = "swap"
    /\ LET s == runner[r].seq
           kept == [t \in Rows \ Inputs(s) |-> row[t]]
       IN  row' = IF s \in Rows THEN kept
                  ELSE Write(kept, s, [tier |-> runner[r].tier, into |-> NoRun])
    /\ Goto(r, "after")
    /\ UNCHANGED <<session, object, split, jobs, faults>>

\* The next tier, or the commit that waits.
AfterSwap(r) ==
    /\ runner[r].pc = "after"
    /\ IF session.status = "open" THEN Goto(r, "tier") ELSE Finish(r)
    /\ IF session.status = "committing" /\ session.phase = "compacting"
       THEN jobs' = jobs \cup {CommitJob} /\ session' = Touched
       ELSE UNCHANGED <<jobs, session>>
    /\ UNCHANGED <<row, object, split, faults>>

-----------------------------------------------------------------------------
(* push.commit, up to the runs it reads (finalizeSession, compactForCommit). *)

StartCommit(r) ==
    Deliver(r, CommitJob,
        IF session.status # "committing" THEN Idle
        ELSE [Idle EXCEPT !.pc = "list", !.job = CommitJob, !.phase = session.phase])

Claims == {row[s].into : s \in Rows} \ {NoRun}

\* Few enough, or too many with the phase set; else the phase is set and they are
\* listed again.  `count` is what they come to once every claim is done.
ListRuns(r) ==
    /\ runner[r].pc = "list"
    /\ \/ /\ Cardinality(Rows) > CommitRuns /\ runner[r].phase = "compacting"
          /\ runner' = [runner EXCEPT ![r].pc = "group", ![r].free = Free,
                            ![r].count = Cardinality(Free) + Cardinality(Claims)]
       \/ /\ Cardinality(Rows) > CommitRuns /\ runner[r].phase = "none"
          /\ runner' = [runner EXCEPT ![r].pc = "phase", ![r].free = Free,
                            ![r].count = Cardinality(Free) + Cardinality(Claims)]
       \/ /\ Cardinality(Rows) <= CommitRuns
          /\ Goto(r, IF runner[r].phase = "none" THEN "ready" ELSE "clear")
    /\ UNCHANGED <<session, row, object, split, jobs, faults>>

\* setPhase has no condition but the session's id.
SetCompacting(r) ==
    /\ runner[r].pc = "phase"
    /\ session' = [session EXCEPT !.phase = "compacting", !.stalls = 0]
    /\ runner' = [runner EXCEPT ![r] = [Idle EXCEPT !.pc = "list", !.job = CommitJob,
                                                   !.phase = "compacting"]]
    /\ UNCHANGED <<row, object, split, jobs, faults>>

\* The smallest free runs, as many as bring the count down to what one commit reads.
Group(r) ==
    /\ runner[r].pc = "group"
    /\ LET free == runner[r].free
           k == Min({FanIn, (runner[r].count + 1) - CommitRuns, Cardinality(free)})
           size(s) == Entries({s})
       IN  \/ /\ runner[r].count > CommitRuns /\ Cardinality(free) >= 2
              /\ \E G \in kSubset(k, free) :
                    /\ \A s \in G, t \in free \ G : size(s) <= size(t)
                    /\ runner' = [runner EXCEPT ![r].pc = "number", ![r].list = G,
                                                ![r].free = free \ G]
           \/ /\ runner[r].count <= CommitRuns \/ Cardinality(free) < 2
              /\ Finish(r)
    /\ UNCHANGED <<session, row, object, split, jobs, faults>>

ClearPhase(r) ==
    /\ runner[r].pc = "clear"
    /\ session' = [session EXCEPT !.phase = "none", !.stalls = 0]
    /\ Goto(r, "ready")
    /\ UNCHANGED <<row, object, split, jobs, faults>>

\* sessionRuns: one query; the objects listed stay.
ReadRuns(r) ==
    /\ runner[r].pc = "ready"
    /\ runner' = [runner EXCEPT ![r] = [Idle EXCEPT !.pc = "commit", !.job = CommitJob,
                                                   !.list = Rows]]
    /\ UNCHANGED <<session, row, object, split, jobs, faults>>

\* The outcome, for a session that still commits: a version, or files are missing and
\* it is open again.
Settle(r) ==
    /\ runner[r].pc = "commit"
    /\ \/ /\ session.status = "committing"
          /\ session' = [session EXCEPT !.status = "committed", !.phase = "none"]
       \/ /\ session.status = "committing" /\ session.reopened < Reopens
          /\ session' = [session EXCEPT !.status = "open", !.phase = "none",
                                        !.reopened = session.reopened + 1]
       \/ /\ session.status # "committing"
          /\ UNCHANGED session
    /\ Finish(r)
    /\ UNCHANGED <<row, object, split, jobs, faults>>

-----------------------------------------------------------------------------
(* The maintenance sweep, and what goes wrong with jobs.                   *)

Quiet == jobs = {} /\ \A r \in Runners : runner[r].pc = "idle"

\* A claim nobody works on any more.
Lost(s) ==
    /\ \A r \in Runners : runner[r].seq # s
    /\ \A m \in jobs : m[2] # s

Fault == faults < MaxFaults /\ faults' = faults + 1

\* recoverCommits queues a claim's compaction again once it has not moved for a while.
\* (A slow job queued again is one delivered twice.)
RequeueClaim(s) ==
    /\ Inputs(s) # {} /\ Active /\ Lost(s)
    /\ jobs' = jobs \cup {CompactJob(s)}
    /\ UNCHANGED <<session, row, object, split, runner, faults>>

\* Slip: a session that is compacting is left to its claims.
NudgeUnlessCompacting ==
    /\ session.status = "committing" /\ session.phase = "none" /\ Quiet
    /\ \/ /\ session.stalls < MaxStalls
          /\ session' = [session EXCEPT !.stalls = session.stalls + 1]
          /\ jobs' = jobs \cup {CommitJob}
       \/ /\ session.stalls = MaxStalls
          /\ session' = [session EXCEPT !.status = "failed", !.phase = "none"]
          /\ UNCHANGED jobs
    /\ UNCHANGED <<row, object, split, runner, faults>>

\* A commit that does not move is queued again, and fails in the end.
Nudge ==
    /\ session.status = "committing" /\ Quiet
    /\ \/ /\ session.stalls < MaxStalls
          /\ session' = [session EXCEPT !.stalls = session.stalls + 1]
          /\ jobs' = jobs \cup {CommitJob}
       \/ /\ session.stalls = MaxStalls
          /\ session' = [session EXCEPT !.status = "failed", !.phase = "none"]
          /\ UNCHANGED jobs
    /\ UNCHANGED <<row, object, split, runner, faults>>

\* A job dies; its message comes again, or was at its last retry.
Crash(r) ==
    /\ runner[r].pc # "idle" /\ Fault
    /\ \/ jobs' = jobs
       \/ runner[r].job # UploadJob /\ jobs' = jobs \cup {runner[r].job}
    /\ Finish(r)
    /\ UNCHANGED <<session, row, object, split>>

\* At least once: the message of a job that runs is delivered to another.
Redeliver(r) ==
    /\ runner[r].pc # "idle" /\ runner[r].job # UploadJob /\ Fault
    /\ jobs' = jobs \cup {runner[r].job}
    /\ UNCHANGED <<session, row, object, split, runner>>

-----------------------------------------------------------------------------
RunnerStep(r) ==
    \/ RecordRun(r) \/ PickTier(r) \/ TakeNumber(r) \/ Claim(r) \/ Release(r)
    \/ QueueCompaction(r)
    \/ Merge(r) \/ Plan(r) \/ Slice(r) \/ Sliced(r) \/ FindInputs(r) \/ Swap(r) \/ AfterSwap(r)
    \/ ListRuns(r) \/ SetCompacting(r) \/ Group(r) \/ ClearPhase(r) \/ ReadRuns(r) \/ Settle(r)

Delivery(r) ==
    \/ StartCommit(r)
    \/ \E s \in Seqs : StartCompaction(r, s) \/ \E k \in Keys : StartPiece(r, s, k)

Sweep == Nudge \/ \E s \in Seqs : RequeueClaim(s)

Next ==
    \/ BeginCommit
    \/ \E r \in Runners : BeginUpload(r) \/ RunnerStep(r) \/ Delivery(r) \/ Crash(r) \/ Redeliver(r)
    \/ Sweep

Spec == Init /\ [][Next]_vars

\* Consumers go on with what they have and take what is queued; the sweep runs for ever.
FairSpec ==
    /\ Spec
    /\ \A r \in Runners : WF_vars(RunnerStep(r) \/ Delivery(r))
    /\ WF_vars(Sweep)

-----------------------------------------------------------------------------
(* Properties.                                                             *)

\* The rows, objects, messages and what each job holds have the types of their columns,
\* and every row has its object.
TypeOK ==
    /\ session \in SessionRow
    /\ Rows \subseteq Seqs /\ \A s \in Rows : row[s] \in RunRow
    /\ Rows \subseteq DOMAIN object
    /\ \A s \in DOMAIN object : object[s] \in [Keys -> 0 .. MaxSeq]
    /\ \A s \in DOMAIN split : split[s].inputs \subseteq Seqs /\ split[s].done \subseteq Keys
    /\ jobs \subseteq Messages
    /\ runner \in [Runners -> RunnerState]
    /\ faults \in 0 .. MaxFaults

\* compact.ts 68-75, 155-160: with no job lost or late, nothing ever waits for the sweep:
\* when no job is left, the commit is over and no run is left claimed.
NothingWaits ==
    Quiet /\ faults = 0
       => session.status # "committing" /\ (session.status = "open" => Claims = {})

\* recover.ts 1-8: whatever is lost, a commit ends.
CommitEnds == session.status = "committing" ~> session.status # "committing"

\* compact.ts 22-26, runs.ts 30-35: runs, merged in any groups, by any jobs, are the
\* session's uploads, and a commit reads all of them as they were at one moment.
Promise ==
    INSTANCE Uploads WITH
        Numbers <- Seqs,
        Readers <- Runners,
        content <- Merged(Rows),
        seen <- [r \in Runners |-> IF runner[r].pc = "commit" THEN Merged(runner[r].list)
                                   ELSE Unread]

ImplementsUploads == Promise!Spec
================================================================================
