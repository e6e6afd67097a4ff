---------------------------- MODULE ParallelCommit ----------------------------
(***************************************************************************)
(* The parallel commit of one push session (server/src/push/parallel.ts,   *)
(* with what finalize.ts, outcome.ts, recover.ts and api/push.ts do to it).*)
(*                                                                         *)
(* A plan cuts the new trees into key ranges; each range is a unit with a  *)
(* job of its own, and one assembly job publishes what they wrote.  A unit *)
(* whose last key is gone can't end a leaf there, so assembly merges it    *)
(* with the ranges after it and waits again.  Jobs are delivered at least  *)
(* once, in any order, and die at any await; nothing but conditional       *)
(* updates and a lease on the session keeps them apart.                    *)
(***************************************************************************)
EXTENDS Naturals, FiniteSets

CONSTANTS
    Plans,          \* random ids; how many bounds the commits of the session
    Runners,        \* queue consumers
    NoPlan, NoRunner,
    N,              \* ranges of the plan, in key order
    Ends,           \* the last range of each tree
    Gone,           \* ranges whose last key the push deletes
    Gaps,           \* ranges no change falls in
    ChunkUnits,     \* parallelConfig.chunkUnits
    PerSession,     \* unitLimits.perSession
    MaxAttempts,    \* unitLimits.maxAttempts
    MaxStalls,      \* recoverConfig.maxStalls
    MaxCopies,      \* merged units over one range
    Faults          \* jobs fail and die

Ranges == 1 .. N

\* The last range of a tree ends at no key, and a gap's last key is unchanged.
ASSUME PlanShape ==
    /\ N \in Nat \ {0} /\ N \in Ends /\ Ends \subseteq Ranges
    /\ Gone \subseteq Ranges \ (Ends \cup Gaps) /\ Gaps \subseteq Ranges

ASSUME ParallelLimits ==
    /\ ChunkUnits \in Nat \ {0} /\ PerSession \in Nat \ {0} /\ MaxAttempts \in Nat \ {0}
    /\ MaxStalls \in Nat /\ MaxCopies \in Nat \ {0}
    /\ Faults \in BOOLEAN /\ NoPlan \notin Plans /\ NoRunner \notin Runners

VARIABLES
    session,        \* the push_sessions row
    unit,           \* the commit_units rows
    written,        \* chunks of each plan marked done
    trees,          \* the units each saved tree of a plan was built from
    versions,       \* what was published: its plan, and the units in its trees
    jobs,           \* messages in the queue
    runner          \* what each consumer is in the middle of

vars == <<session, unit, written, trees, versions, jobs, runner>>

Statuses == {"committing", "open", "failed", "committed"}

SessionRow ==
    [status : Statuses, plan : Plans \cup {NoPlan}, phase : {"none", "planning"},
     lease : Runners \cup {NoRunner}, stalls : 0 .. MaxStalls,
     had : SUBSET Plans]                        \* every plan it ever had

\* A unit covers the ranges from .. to; copy tells apart those with random ids.
UnitId == [plan : Plans, from : Ranges, to : Ranges, copy : 0 .. MaxCopies]

UnitRow ==
    [status : {"pending", "done", "failed", "superseded"},
     queued : {"no", "fresh", "stale"}, attempts : 0 .. MaxAttempts]

Chunks == {c \in Ranges : (c - 1) * ChunkUnits < N}

ChunkOf(k) == (k - 1) \div ChunkUnits + 1

CommitJob == <<"push.commit">>
PlanJob(p, c) == <<"commit.plan", p, c>>
UnitJob(u) == <<"commit.unit", u>>
AssembleJob == <<"commit.assemble">>
NoJob == <<>>

Messages ==
    {CommitJob, AssembleJob} \cup {PlanJob(p, c) : p \in Plans, c \in Chunks}
        \cup {UnitJob(u) : u \in UnitId}

Assembling == {"read", "merge", "release", "trees", "settle"}

Pcs == {"idle", "plan", "rows", "count", "work", "recheck", "topup", "claim", "unit",
        "last", "lease"} \cup Assembling

RunnerState ==
    [pc : Pcs, job : Messages \cup {NoJob}, plan : Plans \cup {NoPlan},
     list : SUBSET UnitId, bad : SUBSET UnitId, then : {"none", "recheck", "topup", "again"},
     outcome : {"none", "committed", "missing", "failed"}]

Idle ==
    [pc |-> "idle", job |-> NoJob, plan |-> NoPlan, list |-> {}, bad |-> {},
     then |-> "none", outcome |-> "none"]

Committing ==
    [status |-> "committing", plan |-> NoPlan, phase |-> "none", lease |-> NoRunner,
     stalls |-> 0, had |-> {}]

Init ==
    /\ session = Committing
    /\ unit = [u \in {} |-> 0]
    /\ written = [p \in Plans |-> {}]
    /\ trees = [p \in Plans |-> [e \in Ends |-> {}]]
    /\ versions = {}
    /\ jobs = {CommitJob}
    /\ runner = [r \in Runners |-> Idle]

-----------------------------------------------------------------------------
Planned(p, k) == [plan |-> p, from |-> k, to |-> k, copy |-> 0]

Pending == [status |-> "pending", queued |-> "no", attempts |-> 0]

TreeOf(k) == CHOOSE e \in Ends : e >= k /\ \A f \in Ends : f >= k => f >= e

IsGap(u) == u.copy = 0 /\ u.from \in Gaps

\* mergeTree in range mode: is the range's last key still there?
Survives(u) == u.to \notin Gone

PlanUnits(p) == {u \in DOMAIN unit : u.plan = p}

Live(p) == {u \in PlanUnits(p) : unit[u].status # "superseded"}

PendingUnits(p) == {u \in PlanUnits(p) : unit[u].status = "pending"}

Waiting(u) == unit[u].queued # "fresh" /\ unit[u].attempts < MaxAttempts

InFlight(p) == {u \in PendingUnits(p) : unit[u].queued = "fresh"}

\* Its place in its tree.
Ord(u) == Cardinality({k \in 1 .. u.from : TreeOf(k) = TreeOf(u.from)})

Disjoint(S) == \A u, v \in S : u = v \/ u.to < v.from \/ v.to < u.from

\* crypto.randomUUID: which of the unused ids makes no difference.
NewPlans ==
    LET unused == Plans \ session.had
    IN  IF unused = {} THEN {} ELSE {CHOOSE p \in unused : TRUE}

Goto(r, pc) == runner' = [runner EXCEPT ![r].pc = pc]

\* What follows depends on the job only if it is an assembly, which lets go of the
\* lease at an error.
GoOn(r, pc) ==
    runner' = [runner EXCEPT ![r].pc = pc, ![r].then = "none",
                             ![r].job = IF runner[r].job = AssembleJob THEN AssembleJob ELSE NoJob]

FinishWith(r, new) ==
    /\ runner' = [runner EXCEPT ![r] = Idle]
    /\ jobs' = jobs \cup new

Finish(r) == FinishWith(r, {})

-----------------------------------------------------------------------------
(* What a delivered message finds.                                         *)

\* Slip: the assembly doesn't look at the phase.
WantedEarly(m) ==
    /\ session.status = "committing"
    /\ \/ m = CommitJob
       \/ m[1] = "commit.plan" /\ session.plan = m[2]
       \/ /\ m[1] = "commit.unit" /\ session.plan = m[2].plan
          /\ m[2] \in PendingUnits(m[2].plan)
       \/ m = AssembleJob /\ session.plan # NoPlan

\* A job whose session, plan or unit has moved on does nothing: its message may as
\* well stay where it is.
Wanted(m) ==
    /\ session.status = "committing"
    /\ \/ m = CommitJob
       \/ m[1] = "commit.plan" /\ session.plan = m[2]
       \/ /\ m[1] = "commit.unit" /\ session.plan = m[2].plan
          /\ m[2] \in PendingUnits(m[2].plan)
       \/ m = AssembleJob /\ session.plan # NoPlan /\ session.phase = "none"

\* Where there are faults a message may come any number of times, while its job runs
\* or after; one past its retries is one that nobody takes any more.
Start(r, m, pc) ==
    /\ runner[r].pc = "idle"
    /\ m \in jobs /\ Wanted(m)
    /\ runner' = [runner EXCEPT ![r] = [Idle EXCEPT !.pc = pc, !.job = m,
                                                   !.plan = session.plan]]
    /\ jobs' = IF Faults THEN jobs ELSE jobs \ {m}
    /\ UNCHANGED <<session, unit, written, trees, versions>>

\* push.commit plans, or finds a plan and makes sure its work is queued.
StartCommitJob(r) ==
    /\ session.plan = NoPlan \/ session.phase # "planning"
    /\ Start(r, CommitJob, IF session.plan = NoPlan THEN "plan" ELSE "work")

ChunkJobs(p) == {PlanJob(p, c) : c \in Chunks \ written[p]}

\* A plan still being written: the chunks that are left are queued again.
ResumePlanning(r) ==
    /\ runner[r].pc = "idle" /\ CommitJob \in jobs /\ Wanted(CommitJob)
    /\ session.phase = "planning"
    /\ jobs' = (IF Faults THEN jobs ELSE jobs \ {CommitJob}) \cup ChunkJobs(session.plan)
    /\ UNCHANGED <<session, unit, written, trees, versions, runner>>

StartPlanJob(r, p, c) ==
    Start(r, PlanJob(p, c), IF c \in written[p] THEN "count" ELSE "rows")

StartUnitJob(r, u) == Start(r, UnitJob(u), "unit")

StartAssembleJob(r) == Start(r, AssembleJob, "lease")

-----------------------------------------------------------------------------
(* push.commit and commit.plan: the plan and its rows.                     *)

\* The plan object is written; the session takes it if it has none; its chunks are
\* queued.  (Nothing is left undone between an update and the messages that follow
\* it but messages that nobody takes.)
Plan(r, p) ==
    /\ runner[r].pc = "plan"
    /\ session.status = "committing" /\ session.plan = NoPlan
    /\ session' = [session EXCEPT !.plan = p, !.phase = "planning", !.stalls = 0,
                                 !.had = session.had \cup {p}]
    /\ FinishWith(r, ChunkJobs(p))
    /\ UNCHANGED <<unit, written, trees, versions>>

\* Another attempt planned first, or the session settled: this plan is forgotten.
PlanLost(r) ==
    /\ runner[r].pc = "plan"
    /\ session.status # "committing" \/ session.plan # NoPlan
    /\ Finish(r)
    /\ UNCHANGED <<session, unit, written, trees, versions>>

\* `fenced` gave up on the storage fence (503): finalizeSession settles, whatever
\* plan the session has got meanwhile.
PlanBusy(r) ==
    /\ runner[r].pc = "plan"
    /\ session' = IF session.status = "committing"
                  THEN [session EXCEPT !.status = "failed"] ELSE session
    /\ Finish(r)
    /\ UNCHANGED <<unit, written, trees, versions>>

ChunkUnitsOf(r) ==
    {Planned(runner[r].plan, k) : k \in {k \in Ranges : ChunkOf(k) = runner[r].job[3]}}

NewRow(u) == IF IsGap(u) THEN [Pending EXCEPT !.status = "done"] ELSE Pending

Missing(r) == ChunkUnitsOf(r) \ DOMAIN unit

\* Slip: a row that is there is written again.
WriteRowsAgain(r) ==
    /\ runner[r].pc = "rows"
    /\ \E S \in SUBSET ChunkUnitsOf(r) :
          unit' = [u \in DOMAIN unit \cup S |-> IF u \in S THEN NewRow(u) ELSE unit[u]]
    /\ UNCHANGED <<session, written, trees, versions, jobs, runner>>

\* onConflictDoNothing, one batch of rows after another: a chunk written twice
\* leaves the rows that are there alone.
WriteRows(r) ==
    /\ runner[r].pc = "rows"
    /\ \E S \in SUBSET Missing(r) :
          unit' = [u \in DOMAIN unit \cup S |-> IF u \in S THEN NewRow(u) ELSE unit[u]]
    /\ UNCHANGED <<session, written, trees, versions, jobs, runner>>

\* touch: progress on a committing session.
Touched == IF session.status = "committing" THEN [session EXCEPT !.stalls = 0] ELSE session

MarkChunk(r) ==
    /\ runner[r].pc = "rows" /\ Missing(r) = {}
    /\ written' = [written EXCEPT ![runner[r].plan] =
                      written[runner[r].plan] \cup {runner[r].job[3]}]
    /\ session' = Touched
    /\ GoOn(r, "count")
    /\ UNCHANGED <<unit, trees, versions, jobs>>

\* The last chunk ends the planning.
CountChunks(r) ==
    /\ runner[r].pc = "count"
    /\ LET p == runner[r].plan IN
       \/ /\ written[p] = Chunks
          /\ session' = IF session.plan = p THEN [session EXCEPT !.phase = "none"] ELSE session
          /\ GoOn(r, "work")
       \/ /\ written[p] # Chunks
          /\ GoOn(r, "topup")
          /\ UNCHANGED session
    /\ UNCHANGED <<unit, written, trees, versions, jobs>>

-----------------------------------------------------------------------------
(* queueWork and topUpUnits.                                               *)

\* Assembly when no unit is pending; else (unless only that was asked) units.
QueueWork(r) ==
    /\ runner[r].pc \in {"work", "recheck"}
    /\ \/ /\ PendingUnits(runner[r].plan) = {}
          /\ FinishWith(r, {AssembleJob})
       \/ /\ PendingUnits(runner[r].plan) # {} /\ runner[r].pc = "recheck"
          /\ Finish(r)
       \/ /\ PendingUnits(runner[r].plan) # {} /\ runner[r].pc = "work"
          /\ GoOn(r, "topup")
          /\ UNCHANGED jobs
    /\ UNCHANGED <<session, unit, written, trees, versions>>

\* The units in flight are counted, for the plan the session has now, and the first
\* that wait are picked, as far as there is room ...
Picks(S) ==
    LET p == session.plan
        waiting == {u \in PendingUnits(p) : Waiting(u)}
        room == PerSession - Cardinality(InFlight(p))
    IN  /\ session.status = "committing" /\ p # NoPlan
        /\ S # {} /\ S \subseteq waiting /\ Cardinality(S) <= room
        /\ Cardinality(S) = room \/ S = waiting
        /\ \A u \in S, v \in waiting \ S : Ord(u) <= Ord(v)

PickWaiting(r) ==
    /\ runner[r].pc = "topup"
    /\ \E S \in SUBSET Live(session.plan) :
          /\ Picks(S)
          /\ runner' = [runner EXCEPT ![r].pc = "claim", ![r].plan = session.plan, ![r].list = S]
    /\ UNCHANGED <<session, unit, written, trees, versions, jobs>>

PickNone(r) ==
    /\ runner[r].pc = "topup"
    /\ ~\E S \in SUBSET Live(session.plan) : Picks(S)
    /\ Finish(r)
    /\ UNCHANGED <<session, unit, written, trees, versions>>

Claimed(S) ==
    [u \in DOMAIN unit |->
       IF u \in S THEN [unit[u] EXCEPT !.queued = "fresh", !.attempts = unit[u].attempts + 1]
       ELSE unit[u]]

Claims(r, mine) ==
    /\ unit' = Claimed(mine)
    /\ FinishWith(r, {UnitJob(u) : u \in mine})
    /\ UNCHANGED <<session, written, trees, versions>>

\* Slip: the claim doesn't ask again what the pick asked.
ClaimPicked(r) ==
    /\ runner[r].pc = "claim"
    /\ Claims(r, {u \in runner[r].list : unit[u].status = "pending"})

\* ... claimed, those that still wait, and sent.
ClaimUnits(r) ==
    /\ runner[r].pc = "claim"
    /\ Claims(r, {u \in runner[r].list : unit[u].status = "pending" /\ Waiting(u)})

\* unitLimits.staleMs has passed since the unit was queued.
Age(u) ==
    /\ u \in DOMAIN unit /\ unit[u].status = "pending" /\ unit[u].queued = "fresh"
    /\ unit' = [unit EXCEPT ![u].queued = "stale"]
    /\ UNCHANGED <<session, written, trees, versions, jobs, runner>>

-----------------------------------------------------------------------------
(* commit.unit                                                             *)

\* The range's leaves and its output object, the same whoever runs the unit; then
\* the row, of a unit still pending.
FinishUnit(r) ==
    /\ runner[r].pc = "unit"
    /\ LET u == runner[r].job[2] IN
       unit' = IF unit[u].status # "pending" THEN unit
               ELSE [unit EXCEPT ![u].status = IF Survives(u) THEN "done" ELSE "failed"]
    /\ session' = Touched
    /\ GoOn(r, "last")
    /\ UNCHANGED <<written, trees, versions, jobs>>

\* The last unit to finish queues the assembly; a slot is free for the next.
AfterUnit(r) ==
    /\ runner[r].pc = "last"
    /\ jobs' = IF PendingUnits(runner[r].plan) = {} THEN jobs \cup {AssembleJob} ELSE jobs
    /\ GoOn(r, "topup")
    /\ UNCHANGED <<session, unit, written, trees, versions>>

-----------------------------------------------------------------------------
(* commit.assemble                                                         *)

\* A holder that stopped working lets its lease lapse in time; one that works
\* keeps inside it (LEASE_MS is as long as a job may run).
LeaseFree ==
    session.lease \notin {r \in Runners : runner[r].pc \in Assembling}

TakeLease(r) ==
    /\ runner[r].pc = "lease"
    /\ session.plan = runner[r].plan /\ LeaseFree
    /\ session' = [session EXCEPT !.lease = r]
    /\ Goto(r, "read")
    /\ UNCHANGED <<unit, written, trees, versions, jobs>>

NoLease(r) ==
    /\ runner[r].pc = "lease"
    /\ session.plan # runner[r].plan \/ session.lease # NoRunner
    /\ Finish(r)
    /\ UNCHANGED <<session, unit, written, trees, versions>>

ReleaseThen(r, then) ==
    runner' = [runner EXCEPT ![r] = [runner[r] EXCEPT !.pc = "release", !.then = then,
                                                      !.list = {}, !.bad = {}]]

\* The rows are read once; what is done about them is decided here.
ReadRows(r) ==
    /\ runner[r].pc = "read"
    /\ LET live == Live(runner[r].plan)
           bad == {u \in live : unit[u].status = "failed"}
       IN  IF PendingUnits(runner[r].plan) # {} THEN ReleaseThen(r, "recheck")
           ELSE runner' = [runner EXCEPT ![r].pc = IF bad # {} THEN "merge" ELSE "trees",
                                         ![r].list = live, ![r].bad = bad]
    /\ UNCHANGED <<session, unit, written, trees, versions, jobs>>

\* The failed units of a tree from u on, and the first after them that survived.
Members(list, bad, u) ==
    {v \in list : /\ TreeOf(v.to) = TreeOf(u.to) /\ v.from >= u.from
                  /\ \A w \in list \ bad : ~(TreeOf(w.to) = TreeOf(u.to)
                                              /\ u.from <= w.from /\ w.from < v.from)}

Last(S) == CHOOSE k \in {u.to : u \in S} : \A u \in S : u.to <= k

Copies(p, from, to) == {u.copy : u \in {u \in PlanUnits(p) : u.from = from /\ u.to = to}}

\* One unit over the union takes their place, in one batch.
MergeFailed(r, u) ==
    /\ runner[r].pc = "merge"
    /\ u \in runner[r].bad
    /\ \A v \in runner[r].bad : u.from <= v.from
    /\ LET group == Members(runner[r].list, runner[r].bad, u)
           to == Last(group)
       IN  \E copy \in 1 .. MaxCopies :
              /\ \A c \in Copies(u.plan, u.from, to) : c < copy
              /\ copy > 1 => copy - 1 \in Copies(u.plan, u.from, to)
              /\ LET merged == [plan |-> u.plan, from |-> u.from, to |-> to, copy |-> copy]
                 IN  unit' = [v \in DOMAIN unit \cup {merged} |->
                                IF v = merged THEN Pending
                                ELSE IF v \in group THEN [unit[v] EXCEPT !.status = "superseded"]
                                ELSE unit[v]]
              /\ IF runner[r].bad \subseteq group THEN ReleaseThen(r, "topup")
                 ELSE runner' = [runner EXCEPT ![r].bad = runner[r].bad \ group]
    /\ UNCHANGED <<session, written, trees, versions, jobs>>

\* The session's lease is cleared, whoever has it.
Release(r) ==
    /\ runner[r].pc = "release"
    /\ session' = [session EXCEPT !.lease = NoRunner]
    /\ LET then == runner[r].then IN
       \/ then \in {"recheck", "topup"} /\ GoOn(r, then) /\ UNCHANGED jobs
       \/ then = "again" /\ FinishWith(r, {AssembleJob})      \* or delivered again
    /\ UNCHANGED <<unit, written, trees, versions>>

Segments(r, e) == {u \in runner[r].list : TreeOf(u.to) = e /\ ~IsGap(u)}

\* A saved tree counts if it was built from the same units.
Unbuilt(r) ==
    {e \in Ends : Segments(r, e) # {} /\ trees[runner[r].plan][e] # Segments(r, e)}

\* The next tree.
BuildTree(r) ==
    /\ runner[r].pc = "trees"
    /\ \E e \in Unbuilt(r) :
          /\ \A f \in Unbuilt(r) : e <= f
          /\ Disjoint(Segments(r, e))
          /\ trees' = [trees EXCEPT ![runner[r].plan][e] = Segments(r, e)]
    /\ session' = Touched
    /\ UNCHANGED <<unit, written, versions, jobs, runner>>

\* Out of time for another tree, or an error (assembleTree refuses segments that
\* overlap, a store or the queue fails): the lease is let go, and the assembly comes
\* again.  An error after the lease was let go lets it go once more.
StopAssembly(r) ==
    /\ Faults
    /\ runner[r].job = AssembleJob /\ runner[r].pc \notin {"lease", "release"}
    /\ ReleaseThen(r, "again")
    /\ UNCHANGED <<session, unit, written, trees, versions, jobs>>

\* commitVersion, on the plan's base and under its fence epoch: published, found
\* published already (outcome.ts ownVersion), or refused.
Publish(r) ==
    /\ runner[r].pc = "trees" /\ Unbuilt(r) = {}
    /\ \/ /\ versions = {}
          /\ versions' = {[plan |-> runner[r].plan, units |-> UNION {Segments(r, e) : e \in Ends}]}
          /\ runner' = [runner EXCEPT ![r].pc = "settle", ![r].outcome = "committed",
                                      ![r].list = {}]
       \/ /\ versions # {}
          /\ runner' = [runner EXCEPT ![r].pc = "settle", ![r].outcome = "committed",
                                      ![r].list = {}]
          /\ UNCHANGED versions
       \/ /\ versions = {}
          /\ \E refused \in {"missing", "failed"} :
                runner' = [runner EXCEPT ![r].pc = "settle", ![r].outcome = refused,
                                            ![r].list = {}]
          /\ UNCHANGED versions
    /\ UNCHANGED <<session, unit, written, trees, jobs>>

\* settleSession: only a committing session moves.
Settled(outcome) ==
    IF outcome = "missing"
    THEN [session EXCEPT !.status = "open", !.plan = NoPlan, !.phase = "none",
                         !.lease = NoRunner, !.stalls = 0]
    ELSE [session EXCEPT !.status = outcome]

Settle(r) ==
    /\ runner[r].pc = "settle"
    /\ session' = IF session.status = "committing" THEN Settled(runner[r].outcome) ELSE session
    /\ Finish(r)
    /\ UNCHANGED <<unit, written, trees, versions>>

-----------------------------------------------------------------------------
(* The client, the queue, and the maintenance sweep.                       *)

\* The client commits again what reopened, or failed on the server's side.
Recommit ==
    /\ session.status \in {"open", "failed"} /\ NewPlans # {}
    /\ session' = [Committing EXCEPT !.had = session.had]
    /\ jobs' = jobs \cup {CommitJob}
    /\ UNCHANGED <<unit, written, trees, versions, runner>>

\* A job dies at any await.  Its lease lapses in time; meanwhile an assembly that finds
\* it taken does what one that dies does, nothing.
Die(r) ==
    /\ Faults
    /\ runner[r].pc # "idle"
    /\ session' = IF session.lease = r THEN [session EXCEPT !.lease = NoRunner] ELSE session
    /\ Finish(r)
    /\ UNCHANGED <<unit, written, trees, versions>>

Spent == {u \in PendingUnits(session.plan) :
            unit[u].attempts >= MaxAttempts /\ unit[u].queued = "stale"}

Unqueued == {u \in PendingUnits(session.plan) : unit[u].queued = "no"}

\* recoverCommits: a unit out of attempts fails the commit ...
FailSpent ==
    /\ Spent # {}
    /\ session' = [session EXCEPT !.status = "failed", !.phase = "none"]
    /\ UNCHANGED <<unit, jobs>>

\* ... units that wait for room are no stall: the sweep fills the windows (in one
\* step: the runners' top-ups have its interleavings) ...
TopUpWaiting ==
    /\ Spent = {} /\ Unqueued # {}
    /\ session' = [session EXCEPT !.stalls = 0]
    /\ \/ \E S \in SUBSET Live(session.plan) :
             /\ Picks(S)
             /\ unit' = Claimed(S)
             /\ jobs' = jobs \cup {UnitJob(u) : u \in S}
       \/ /\ ~\E S \in SUBSET Live(session.plan) : Picks(S)
          /\ UNCHANGED <<unit, jobs>>

\* ... a commit nudged too often fails ...
FailStalled ==
    /\ Spent = {} /\ Unqueued = {} /\ session.stalls >= MaxStalls
    /\ session' = [session EXCEPT !.status = "failed", !.phase = "none"]
    /\ UNCHANGED <<unit, jobs>>

\* Slip: every stalled commit is nudged as if it were the first time.
NudgeForEver ==
    /\ Spent = {} /\ Unqueued = {}
    /\ jobs' = jobs \cup {CommitJob}
    /\ UNCHANGED <<session, unit>>

\* ... and any other is nudged.
Nudge ==
    /\ Spent = {} /\ Unqueued = {} /\ session.stalls < MaxStalls
    /\ session' = [session EXCEPT !.stalls = session.stalls + 1]
    /\ jobs' = jobs \cup {CommitJob}
    /\ UNCHANGED unit

\* A commit none of whose jobs fails is not thought stalled.
Recover ==
    /\ Faults
    /\ session.status = "committing"
    /\ FailSpent \/ TopUpWaiting \/ FailStalled \/ Nudge
    /\ UNCHANGED <<written, trees, versions, runner>>

\* What r does next with the message it has.
Work(r) ==
    \/ \E p \in NewPlans : Plan(r, p)
    \/ PlanLost(r) \/ PlanBusy(r)
    \/ WriteRows(r) \/ MarkChunk(r) \/ CountChunks(r) \/ QueueWork(r)
    \/ PickWaiting(r) \/ PickNone(r) \/ ClaimUnits(r)
    \/ FinishUnit(r) \/ AfterUnit(r)
    \/ TakeLease(r) \/ NoLease(r) \/ ReadRows(r) \/ Release(r)
    \/ \E u \in runner[r].bad : MergeFailed(r, u)
    \/ BuildTree(r) \/ Publish(r) \/ Settle(r)
    \/ StopAssembly(r) \/ Die(r)

Next ==
    \/ \E r \in Runners :
          \/ StartCommitJob(r) \/ ResumePlanning(r) \/ StartAssembleJob(r)
          \/ \E p \in Plans, c \in Chunks : StartPlanJob(r, p, c)
          \/ \E u \in DOMAIN unit : StartUnitJob(r, u)
          \/ Work(r)
    \/ \E u \in DOMAIN unit : Age(u)
    \/ Recommit \/ Recover

Spec == Init /\ [][Next]_vars

\* The cron sweep comes back, and time passes; nothing is assumed of the queue,
\* its consumers or the client.
FairSpec ==
    /\ Spec
    /\ WF_vars(Recover)
    /\ WF_vars(\E u \in DOMAIN unit : Age(u))

-----------------------------------------------------------------------------
(* Properties.                                                             *)

TypeOK ==
    /\ session \in SessionRow
    /\ DOMAIN unit \subseteq UnitId
    /\ \A u \in DOMAIN unit : unit[u] \in UnitRow
    /\ written \in [Plans -> SUBSET Chunks]
    /\ DOMAIN trees = Plans
    /\ \A p \in Plans : trees[p] \in [Ends -> SUBSET UnitId]
    /\ versions \subseteq [plan : Plans, units : SUBSET UnitId]
    /\ jobs \subseteq Messages
    /\ runner \in [Runners -> RunnerState]

Covers(units, k) == {u \in units : u.from <= k /\ k <= u.to}

\* One merge made twice: a lease let go once too often lets two assemblies read the
\* same failed units, and each puts a unit of its own in their place.
Twins(u, v) == u.from = v.from /\ u.to = v.to /\ u.copy > 0 /\ v.copy > 0

\* Once planned, the units that count cover every range, and no two overlap but twins,
\* through every merge and whatever is written twice (parallel.ts 17-21, 1028-1032).
UnitsTile ==
    session.status = "committing" /\ session.plan # NoPlan /\ session.phase = "none" =>
        /\ \A u, v \in Live(session.plan) : Disjoint({u, v}) \/ Twins(u, v)
        /\ \A k \in Ranges : Covers(Live(session.plan), k) # {}

\* A version is made of units of one plan, each ending at a key that is there, which
\* cover every range with a change, none twice (parallel.ts 24-29, assemble.ts 49-55).
PublishedWhole ==
    \A v \in versions :
        /\ \A u \in v.units : Survives(u) /\ u.plan = v.plan
        /\ Disjoint(v.units)
        /\ \A k \in Ranges \ Gaps : Covers(v.units, k) # {}

\* While no job fails or dies, a commit never comes to rest: until it settles some
\* job is at work or queued, without the sweep (parallel.ts 1126-1127).
NoLostWakeup ==
    ~Faults /\ session.status = "committing" =>
        (\E m \in jobs : Wanted(m)) \/ \E r \in Runners : runner[r].pc # "idle"

\* Whatever is lost, the commit ends: the sweep moves it on or fails it, and what
\* counts as progress runs out (recover.ts 7-8).
CommitEnds == session.status = "committing" ~> session.status # "committing"
=============================================================================
